------------------------- MODULE AdministrationProofs -------------------------
(***************************************************************************)
(* The services of Administration share the clients: a proof about one of   *)
(* them rests on the fact that a step of another neither starts, moves nor  *)
(* ends one of its requests.  The other sections prove what vehicles,        *)
(* settings, recipes and accounts promise, the types of all tables, that   *)
(* the ledger explains the stock, and that the reports agree.              *)
(***************************************************************************)
EXTENDS Administration, QuantitiesProofs

RequestsTyped ==
  /\ req = [d \in Clients |-> req[d]]
  /\ \A d \in Clients : "kind" \in DOMAIN req[d]

AccountKinds ==
  {"updateStore", "staff", "reject", "approve", "createUser", "login", "refresh",
   "reset"}
CatalogueKinds ==
  {"createUnit", "updateUnit", "createProduct", "updateProduct", "createRecipe",
   "updateRecipe", "createOrder"}
LogisticsKinds == {"updateVehicle", "consolidate", "depart"}
ConfigKinds == {"getConfig", "updateConfig"}
LedgerKinds == {"receive", "claim", "readLedger", "readShopLedger", "readShopStock"}

(* A step changes requests of these kinds only, and only into such.         *)
Within(K) ==
  \A d \in Clients :
    \/ req'[d] = req[d]
    \/ req[d].kind \in K \cup {"idle"} /\ req'[d].kind \in K \cup {"idle"}

(* The four ways in which an action changes the requests. *)
LEMMA IdleStays ==
  ASSUME RequestsTyped, UNCHANGED req, NEW K
  PROVE  Within(K) /\ RequestsTyped'
BY DEF Within, RequestsTyped

LEMMA BecomesWithin ==
  ASSUME RequestsTyped, NEW c \in Clients, NEW r, Becomes(c, r),
         NEW K, r.kind \in K, "kind" \in DOMAIN r
  PROVE  Within(K) /\ RequestsTyped'
BY DEF Within, RequestsTyped, Becomes, Idling, Idle

LEMMA DoneWithin ==
  ASSUME RequestsTyped, NEW c \in Clients, Done(c),
         NEW K, req[c].kind \in K
  PROVE  Within(K) /\ RequestsTyped'
BY DEF Within, RequestsTyped, Done, Idle

LEMMA GoesToWithin ==
  ASSUME RequestsTyped, NEW c \in Clients, NEW step, GoesTo(c, step),
         NEW K, req[c].kind \in K
  PROVE  Within(K) /\ RequestsTyped'
BY DEF Within, RequestsTyped, GoesTo
-----------------------------------------------------------------------------
(* One service at a time, one action at a time. *)
LEMMA LedgerWithin ==
  ASSUME RequestsTyped, LedgerNext \/ ReaderNext
  PROVE  Within(LedgerKinds) /\ RequestsTyped'
<1> DEFINE Goal == Within(LedgerKinds) /\ RequestsTyped'
<1>a. ASSUME UNCHANGED req PROVE Goal
  BY <1>a, IdleStays
<1>b. ASSUME NEW c \in Clients, NEW r, Becomes(c, r), r.kind \in LedgerKinds,
             "kind" \in DOMAIN r
      PROVE  Goal
  BY <1>b, BecomesWithin
<1>d. ASSUME NEW c \in Clients, Done(c), req[c].kind \in LedgerKinds PROVE Goal
  BY <1>d, DoneWithin
<1> SUFFICES Goal OBVIOUS
<1> HIDE DEF Goal
<1>1. ASSUME NEW b \in Deliveries, NEW n \in ImportAmounts, import(b, n) PROVE Goal
  BY <1>1, <1>a DEF import, Immediate
<1>2. ASSUME NEW a \in Articles, NEW n \in OrderAmounts, NEW m, lockStockForOrder(a, n, m)
      PROVE  Goal
  BY <1>2, <1>a DEF lockStockForOrder, Immediate
<1>3. ASSUME NEW a \in Articles, NEW n \in OrderAmounts, startProduction(a, n)
      PROVE  Goal
  BY <1>3, <1>a DEF startProduction, Immediate
<1>4. ASSUME NEW order, releaseStock(order) PROVE Goal
  BY <1>4, <1>a DEF releaseStock, Immediate
<1>5. ASSUME NEW order, export(order) PROVE Goal
  BY <1>5, <1>a DEF export, Immediate
<1>6. ASSUME NEW order, NEW b, NEW n, finishProduction(order, b, n) PROVE Goal
  BY <1>6, <1>a DEF finishProduction, Immediate
<1>7. ASSUME NEW b, NEW n, adjustKitchenInventory(b, n) PROVE Goal
  BY <1>7, <1>a DEF adjustKitchenInventory, Immediate
<1>8. ASSUME NEW b, NEW n, NEW status, correctBatch(b, n, status) PROVE Goal
  BY <1>8, <1>a DEF correctBatch, Immediate
<1>9. ASSUME NEW b, NEW status, reportWaste(b, status) PROVE Goal
  BY <1>9, <1>a DEF reportWaste, Immediate
<1>10. CASE nextDay
  BY <1>10, <1>a DEF nextDay, Immediate
<1>11. CASE runAutoExpireExpiredBatches
  BY <1>11, <1>a DEF runAutoExpireExpiredBatches, Immediate
<1>12. ASSUME NEW c \in Clients, NEW i, NEW listed, NEW m, NEW d,
              ArriveReceipt(c, i, listed, m, d)
       PROVE  Goal
  BY <1>12, <1>b DEF ArriveReceipt, LedgerKinds
<1>13. ASSUME NEW c \in Clients, NEW i, NEW m, NEW d, ArriveClaim(c, i, m, d)
       PROVE  Goal
  BY <1>13, <1>b DEF ArriveClaim, LedgerKinds
<1>14. ASSUME NEW c \in Clients, selectShopRow(c) PROVE Goal
  BY <1>14 DEF selectShopRow, At, Within, RequestsTyped, LedgerKinds, Goal
<1>15. ASSUME NEW c \in Clients, receiveShipment(c) PROVE Goal
  BY <1>15, <1>d DEF receiveShipment, At, LedgerKinds
<1>16. ASSUME NEW c \in Clients, createManualClaim(c) PROVE Goal
  BY <1>16, <1>d DEF createManualClaim, At, LedgerKinds
<1>17. ASSUME NEW c \in Clients, NEW list \in Lists, ArriveReader(c, list) PROVE Goal
  BY <1>17, <1>b DEF ArriveReader, Lists, LedgerKinds
<1>18. ASSUME NEW c \in Clients, NEW list \in Lists, NextPage(c, list) PROVE Goal
  <2>1. PICK seen, step : req' = [req EXCEPT ![c].page = @ + 1, ![c].seen = @ \cup seen,
                                            ![c].step = step]
    BY <1>18 DEF NextPage
  <2>2. req[c].kind \in LedgerKinds
    BY <1>18 DEF NextPage, At, Lists, LedgerKinds
  <2> QED BY <2>1, <2>2 DEF Within, RequestsTyped, Goal
<1>19. ASSUME NEW c \in Clients,
              \/ getWarehouseInventoryTransactions(c)
              \/ getStoreTransactions(c) \/ getStoreInventory(c)
       PROVE  Goal
  BY <1>18, <1>19
     DEF getWarehouseInventoryTransactions, getStoreTransactions, getStoreInventory, Lists
<1>20. CASE LedgerNext
  BY <1>20, <1>1, <1>2, <1>3, <1>4, <1>5, <1>6, <1>7, <1>8, <1>9, <1>10, <1>11,
     <1>12, <1>13, <1>14, <1>15, <1>16 DEF LedgerNext
<1>21. CASE ReaderNext
  BY <1>21, <1>17, <1>19 DEF ReaderNext
<1> QED BY <1>20, <1>21

LEMMA LogisticsWithin ==
  ASSUME RequestsTyped, LogisticsNext
  PROVE  Within(LogisticsKinds) /\ RequestsTyped'
<1> DEFINE Goal == Within(LogisticsKinds) /\ RequestsTyped'
<1>a. ASSUME UNCHANGED req PROVE Goal
  BY <1>a, IdleStays
<1>b. ASSUME NEW c \in Clients, NEW r, Becomes(c, r), r.kind \in LogisticsKinds,
             "kind" \in DOMAIN r
      PROVE  Goal
  BY <1>b, BecomesWithin
<1>d. ASSUME NEW c \in Clients, Done(c), req[c].kind \in LogisticsKinds PROVE Goal
  BY <1>d, DoneWithin
<1> SUFFICES Goal OBVIOUS
<1> HIDE DEF Goal
<1>1. ASSUME NEW v, NEW plate, createVehicle(v, plate) PROVE Goal
  BY <1>1, <1>a DEF createVehicle, Immediate
<1>2. ASSUME NEW v, removeVehicle(v) PROVE Goal
  BY <1>2, <1>a DEF removeVehicle, Immediate
<1>3. ASSUME NEW r, createRoute(r) PROVE Goal
  BY <1>3, <1>a DEF createRoute, Immediate
<1>4. ASSUME NEW s, NEW r, assignRoute(s, r) PROVE Goal
  BY <1>4, <1>a DEF assignRoute, Immediate
<1>5. ASSUME NEW r, removeRoute(r) PROVE Goal
  BY <1>5, <1>a DEF removeRoute, Immediate
<1>6. ASSUME NEW m, cancelTrip(m) PROVE Goal
  BY <1>6, <1>a DEF cancelTrip, Immediate
<1>7. ASSUME NEW c \in Clients, NEW v, ArriveUpdateVehicle(c, v) PROVE Goal
  BY <1>7, <1>b DEF ArriveUpdateVehicle, LogisticsKinds
<1>8. ASSUME NEW c \in Clients, NEW m, NEW v, ArriveTrip(c, m, v) PROVE Goal
  BY <1>8, <1>b DEF ArriveTrip, LogisticsKinds
<1>9. ASSUME NEW c \in Clients, NEW m, depart(c, m) PROVE Goal
  BY <1>9, <1>b DEF depart, LogisticsKinds
<1>10. ASSUME NEW c \in Clients, updateVehicle(c) PROVE Goal
  BY <1>10, <1>d DEF updateVehicle, At, LogisticsKinds
<1>11. ASSUME NEW c \in Clients, insertTrip(c) PROVE Goal
  BY <1>11, <1>d DEF insertTrip, At, LogisticsKinds
<1>12. ASSUME NEW c \in Clients, updateVehicleStatus(c) PROVE Goal
  BY <1>12, <1>d DEF updateVehicleStatus, At, LogisticsKinds
<1> QED BY <1>1, <1>2, <1>3, <1>4, <1>5, <1>6, <1>7, <1>8, <1>9, <1>10, <1>11,
  <1>12
  DEF LogisticsNext, VehicleRequest

LEMMA CatalogueWithin ==
  ASSUME RequestsTyped, CatalogueNext
  PROVE  Within(CatalogueKinds) /\ RequestsTyped'
<1> DEFINE Goal == Within(CatalogueKinds) /\ RequestsTyped'
<1>a. ASSUME UNCHANGED req PROVE Goal
  BY <1>a, IdleStays
<1>b. ASSUME NEW c \in Clients, NEW r, Becomes(c, r), r.kind \in CatalogueKinds,
             "kind" \in DOMAIN r
      PROVE  Goal
  BY <1>b, BecomesWithin
<1>d. ASSUME NEW c \in Clients, Done(c), req[c].kind \in CatalogueKinds PROVE Goal
  BY <1>d, DoneWithin
<1> SUFFICES Goal OBVIOUS
<1> HIDE DEF Goal
<1>1. ASSUME NEW u, removeUnit(u) PROVE Goal
  BY <1>1, <1>a DEF removeUnit, Immediate
<1>2. ASSUME NEW p, removeProduct(p) PROVE Goal
  BY <1>2, <1>a DEF removeProduct, Immediate
<1>3. ASSUME NEW p, restoreProduct(p) PROVE Goal
  BY <1>3, <1>a DEF restoreProduct, Immediate
<1>4. ASSUME NEW l, NEW p, createBatch(l, p) PROVE Goal
  BY <1>4, <1>a DEF createBatch, Immediate
<1>5. ASSUME NEW l, updateBatch(l) PROVE Goal
  BY <1>5, <1>a DEF updateBatch, Immediate
<1>6. ASSUME NEW s, createSupplier(s) PROVE Goal
  BY <1>6, <1>a DEF createSupplier, Immediate
<1>7. ASSUME NEW s, removeSupplier(s) PROVE Goal
  BY <1>7, <1>a DEF removeSupplier, Immediate
<1>8. ASSUME NEW o, startOrder(o) PROVE Goal
  BY <1>8, <1>a DEF startOrder, Immediate
<1>9. ASSUME NEW o, completeOrder(o) PROVE Goal
  BY <1>9, <1>a DEF completeOrder, Immediate
<1>10. ASSUME NEW c \in Clients, NEW u, NEW name, ArriveCreateUnit(c, u, name) PROVE Goal
  BY <1>10, <1>b DEF ArriveCreateUnit, CatalogueKinds
<1>11. ASSUME NEW c \in Clients, NEW u, NEW name, ArriveUpdateUnit(c, u, name) PROVE Goal
  BY <1>11, <1>b DEF ArriveUpdateUnit, CatalogueKinds
<1>12. ASSUME NEW c \in Clients, NEW p, NEW u, ArriveCreateProduct(c, p, u) PROVE Goal
  BY <1>12, <1>b DEF ArriveCreateProduct, CatalogueKinds
<1>13. ASSUME NEW c \in Clients, NEW p, ArriveUpdateProduct(c, p) PROVE Goal
  BY <1>13, <1>b DEF ArriveUpdateProduct, CatalogueKinds
<1>14. ASSUME NEW c \in Clients, NEW r, NEW p, NEW S, ArriveCreateRecipe(c, r, p, S) PROVE Goal
  BY <1>14, <1>b DEF ArriveCreateRecipe, CatalogueKinds
<1>15. ASSUME NEW c \in Clients, NEW r, NEW patch, ArriveUpdateRecipe(c, r, patch) PROVE Goal
  BY <1>15, <1>b DEF ArriveUpdateRecipe, CatalogueKinds
<1>16. ASSUME NEW c \in Clients, NEW o, NEW p, ArriveProductionOrder(c, o, p) PROVE Goal
  BY <1>16, <1>b DEF ArriveProductionOrder, CatalogueKinds
<1>17. ASSUME NEW c \in Clients, writeUnit(c) PROVE Goal
  BY <1>17, <1>d DEF writeUnit, At, CatalogueKinds
<1>18. ASSUME NEW c \in Clients, createProduct(c) PROVE Goal
  BY <1>18, <1>d DEF createProduct, At, CatalogueKinds
<1>19. ASSUME NEW c \in Clients, updateProduct(c) PROVE Goal
  BY <1>19, <1>d DEF updateProduct, At, CatalogueKinds
<1>20. ASSUME NEW c \in Clients, createRecipe(c) PROVE Goal
  BY <1>20, <1>d DEF createRecipe, At, CatalogueKinds
<1>21. ASSUME NEW c \in Clients, updateRecipe(c) PROVE Goal
  BY <1>21, <1>d DEF updateRecipe, At, CatalogueKinds
<1>22. ASSUME NEW c \in Clients, createProductionOrder(c) PROVE Goal
  BY <1>22, <1>d DEF createProductionOrder, At, CatalogueKinds
<1> QED BY <1>1, <1>2, <1>3, <1>4, <1>5, <1>6, <1>7, <1>8, <1>9, <1>10, <1>11,
  <1>12, <1>13, <1>14, <1>15, <1>16, <1>17, <1>18, <1>19, <1>20, <1>21, <1>22
  DEF CatalogueNext, ProductRequest, RecipeRequest

LEMMA AccountWithin ==
  ASSUME RequestsTyped, AccountNext
  PROVE  Within(AccountKinds) /\ RequestsTyped'
<1> DEFINE Goal == Within(AccountKinds) /\ RequestsTyped'
<1>a. ASSUME UNCHANGED req PROVE Goal
  BY <1>a, IdleStays
<1>b. ASSUME NEW c \in Clients, NEW r, Becomes(c, r), r.kind \in AccountKinds,
             "kind" \in DOMAIN r
      PROVE  Goal
  BY <1>b, BecomesWithin
<1>d. ASSUME NEW c \in Clients, Done(c), req[c].kind \in AccountKinds PROVE Goal
  BY <1>d, DoneWithin
<1>e. ASSUME NEW c \in Clients, NEW step, GoesTo(c, step), req[c].kind \in AccountKinds
      PROVE  Goal
  BY <1>e, GoesToWithin
<1> SUFFICES Goal OBVIOUS
<1> HIDE DEF Goal
<1>1. ASSUME NEW s, createStore(s) PROVE Goal
  BY <1>1, <1>a DEF createStore, Immediate
<1>2. ASSUME NEW s, removeStore(s) PROVE Goal
  BY <1>2, <1>a DEF removeStore, Immediate
<1>3. ASSUME NEW u, updateUserByAdmin(u) PROVE Goal
  BY <1>3, <1>a DEF updateUserByAdmin, Immediate
<1>4. ASSUME NEW u, forgotPassword(u) PROVE Goal
  BY <1>4, <1>a DEF forgotPassword, Immediate
<1>5. ASSUME NEW t, logout(t) PROVE Goal
  BY <1>5, <1>a DEF logout, Immediate
<1>6. CASE clearExpiredTokens
  BY <1>6, <1>a DEF clearExpiredTokens, Immediate
<1>7. CASE clearExpiredOtp
  BY <1>7, <1>a DEF clearExpiredOtp, Immediate
<1>8. CASE Tick
  BY <1>8, <1>a DEF Tick, Immediate
<1>9. ASSUME NEW c \in Clients, NEW s, ArriveUpdateStore(c, s) PROVE Goal
  BY <1>9, <1>b DEF ArriveUpdateStore, AccountKinds
<1>10. ASSUME NEW c \in Clients, NEW S, NEW s, ArriveStaffRequest(c, S, s) PROVE Goal
  BY <1>10, <1>b DEF ArriveStaffRequest, AccountKinds
<1>11. ASSUME NEW c \in Clients, NEW u, ArriveRejectStaff(c, u) PROVE Goal
  BY <1>11, <1>b DEF ArriveRejectStaff, AccountKinds
<1>12. ASSUME NEW c \in Clients, NEW u, ArriveApproveStaff(c, u) PROVE Goal
  BY <1>12, <1>b DEF ArriveApproveStaff, AccountKinds
<1>13. ASSUME NEW c \in Clients, NEW u, ArriveCreateUser(c, u) PROVE Goal
  BY <1>13, <1>b DEF ArriveCreateUser, AccountKinds
<1>14. ASSUME NEW c \in Clients, NEW u, ArriveLogin(c, u) PROVE Goal
  BY <1>14, <1>b DEF ArriveLogin, AccountKinds
<1>15. ASSUME NEW c \in Clients, NEW t, ArriveRefresh(c, t) PROVE Goal
  BY <1>15, <1>b DEF ArriveRefresh, AccountKinds
<1>16. ASSUME NEW c \in Clients, updateStore(c) PROVE Goal
  BY <1>16, <1>d DEF updateStore, At, AccountKinds
<1>17. ASSUME NEW c \in Clients, insertStaffUsers(c) PROVE Goal
  BY <1>17, <1>d DEF insertStaffUsers, At, AccountKinds
<1>18. ASSUME NEW c \in Clients, rejectStaff(c) PROVE Goal
  BY <1>18, <1>d DEF rejectStaff, At, AccountKinds
<1>19. ASSUME NEW c \in Clients, approveStaff(c) PROVE Goal
  BY <1>19, <1>d DEF approveStaff, At, AccountKinds
<1>20. ASSUME NEW c \in Clients, createUser(c) PROVE Goal
  BY <1>20, <1>d DEF createUser, At, AccountKinds
<1>21. ASSUME NEW c \in Clients, saveRefreshToken(c) PROVE Goal
  BY <1>21, <1>d DEF saveRefreshToken, At, AccountKinds
<1>22. ASSUME NEW c \in Clients, markOtpAsUsed(c) PROVE Goal
  BY <1>22, <1>d DEF markOtpAsUsed, At, AccountKinds
<1>23. ASSUME NEW c \in Clients, deleteRefreshToken(c) PROVE Goal
  BY <1>23, <1>e DEF deleteRefreshToken, At, AccountKinds
<1>24. ASSUME NEW c \in Clients, updateUserPassword(c) PROVE Goal
  BY <1>24, <1>e DEF updateUserPassword, At, AccountKinds
<1>25. ASSUME NEW c \in Clients, NEW i, ArriveReset(c, i) PROVE Goal
  BY <1>25, <1>b DEF ArriveReset, Deleted, AccountKinds
<1> QED BY <1>1, <1>2, <1>3, <1>4, <1>5, <1>6, <1>7, <1>8, <1>9, <1>10, <1>11,
  <1>12, <1>13, <1>14, <1>15, <1>16, <1>17, <1>18, <1>19, <1>20, <1>21, <1>22,
  <1>23, <1>24, <1>25
  DEF AccountNext, StoreRequest, StaffRequest, SessionRequest

(* Only a restart loses requests of several services at once. *)
Restarted == req' = [d \in Clients |-> Idle]

LEMMA ConfigWithin ==
  ASSUME RequestsTyped, ConfigNext
  PROVE  (Within(ConfigKinds) \/ Restarted) /\ RequestsTyped'
<1> DEFINE Goal == (Within(ConfigKinds) \/ Restarted) /\ RequestsTyped'
<1>b. ASSUME NEW c \in Clients, NEW r, Becomes(c, r), r.kind \in ConfigKinds,
             "kind" \in DOMAIN r
      PROVE  Goal
  BY <1>b, BecomesWithin
<1>d. ASSUME NEW c \in Clients, Done(c), req[c].kind \in ConfigKinds PROVE Goal
  BY <1>d, DoneWithin
<1>e. ASSUME NEW c \in Clients, NEW step, GoesTo(c, step), req[c].kind \in ConfigKinds
      PROVE  Goal
  BY <1>e, GoesToWithin
<1> SUFFICES Goal OBVIOUS
<1>1. ASSUME NEW c \in Clients, NEW k \in Keys, ArriveGet(c, k) PROVE Goal
  <2> HIDE DEF Goal
  <2> QED BY <1>1, <1>b DEF ArriveGet, ConfigKinds
<1>2. ASSUME NEW c \in Clients, NEW k \in Keys, NEW v \in Values,
             ArriveUpdateConfig(c, k, v)
      PROVE  Goal
  <2> HIDE DEF Goal
  <2> QED BY <1>2, <1>b DEF ArriveUpdateConfig, ConfigKinds
<1>3. ASSUME NEW c \in Clients, findByKey(c) PROVE Goal
  <2>1. CASE Done(c)
    BY <1>3, <2>1, <1>d DEF findByKey, At, ConfigKinds
  <2>2. CASE ~Done(c)
    BY <1>3, <2>2 DEF findByKey, At, ConfigKinds, Within, RequestsTyped
  <2> QED BY <2>1, <2>2
<1>4. ASSUME NEW c \in Clients, writeSetting(c) PROVE Goal
  <2> HIDE DEF Goal
  <2> QED BY <1>4, <1>e DEF writeSetting, At, ConfigKinds
<1>5. ASSUME NEW c \in Clients, cacheValue(c) PROVE Goal
  <2> HIDE DEF Goal
  <2> QED BY <1>5, <1>d DEF cacheValue, At, ConfigKinds
<1>6. CASE Restart
  BY <1>6 DEF Restart, Restarted, RequestsTyped, Idle
<1> QED BY <1>1, <1>2, <1>3, <1>4, <1>5, <1>6 DEF ConfigNext

LEMMA FailWithin ==
  ASSUME RequestsTyped, NEW c \in Clients, Fail(c)
  PROVE  Done(c) /\ RequestsTyped'
BY DEF Fail, Abort, Done, RequestsTyped, Idle

(* Requests are records with a kind, whatever the services do. *)
LEMMA RequestsStayTyped == Spec => []RequestsTyped
<1>1. Init => RequestsTyped
  BY DEF Init, RequestsInit, RequestsTyped, Idle
<1>2. RequestsTyped /\ [Next]_vars => RequestsTyped'
  <2> SUFFICES ASSUME RequestsTyped, [Next]_vars PROVE RequestsTyped'
    OBVIOUS
  <2>1. CASE Next
    BY <2>1, AccountWithin, CatalogueWithin, LogisticsWithin, ConfigWithin,
       LedgerWithin, FailWithin DEF Next
  <2>2. CASE UNCHANGED vars
    BY <2>2 DEF vars, RequestsTyped
  <2> QED BY <2>1, <2>2
<1> QED BY <1>1, <1>2, PTL DEF Spec

-----------------------------------------------------------------------------
(* Vehicles.  A departed vehicle is busy until somebody sets its status by  *)
(* hand.  The invariant adds what the requests have read: a departure that  *)
(* has not marked its vehicle yet is one of a departed trip, and an edit    *)
(* writes the fields it was given and no other.                            *)

TripRequestOK(r) ==
  /\ r.kind = "updateVehicle" =>
       /\ r.sets = DOMAIN r.patch
       /\ "plate" \in r.sets => r.patch["plate"] \in Plates
       /\ "status" \in r.sets => r.patch["status"] \in VehicleStatus
  /\ r.kind = "consolidate" => r.vehicle \in Vehicles
  /\ r.kind = "depart" => r.trip \in DOMAIN trip /\ trip[r.trip].status = "departed"

RowsOK ==
  /\ \A v \in DOMAIN vehicle : vehicle[v] \in VehicleRow
  /\ \A m \in DOMAIN trip : trip[m] \in TripRow /\ trip[m].vehicle \in DOMAIN vehicle
  /\ shown \subseteq DOMAIN trip

TripInv ==
  /\ RowsOK
  /\ \A c \in Clients : TripRequestOK(req[c])
  /\ DepartedVehicleIsBusy

LEMMA TripStart == Init => TripInv
<1> SUFFICES ASSUME Init PROVE TripInv
  OBVIOUS
<1>1. \A c \in Clients : req[c].kind = "idle"
  BY DEF Init, RequestsInit, Idle
<1>2. vehicle = SeedVehicles /\ DOMAIN trip = {} /\ shown = {}
  BY DEF Init, LogisticsInit
<1> QED BY <1>1, <1>2, LogisticsAssumption
        DEF TripInv, RowsOK, TripRequestOK, DepartedVehicleIsBusy

(* A step that leaves the tables of the service alone. *)
LEMMA TablesKept ==
  ASSUME TripInv, UNCHANGED logisticsVars,
         \A d \in Clients : req'[d] = req[d] \/ TripRequestOK(req'[d])
  PROVE  TripInv'
<1>1. vehicle' = vehicle /\ trip' = trip /\ shown' = shown
  BY DEF logisticsVars
<1>2. \A d \in Clients : TripRequestOK(req'[d])
  BY DEF TripInv
<1>3. \A d \in Clients : TripRequestOK(req[d])'
  BY <1>1, <1>2 DEF TripRequestOK
<1> QED BY <1>1, <1>3 DEF TripInv, RowsOK, DepartedVehicleIsBusy

LEMMA ApartFromTrips ==
  ASSUME NEW K, TripInv, Within(K), K \cap LogisticsKinds = {}, UNCHANGED logisticsVars
  PROVE  TripInv'
<1>1. \A d \in Clients : req'[d] = req[d] \/ TripRequestOK(req'[d])
  BY DEF Within, TripRequestOK, LogisticsKinds
<1> QED BY <1>1, TablesKept

(* A statement that starts or advances no request. *)
LEMMA RequestsKept ==
  ASSUME TripInv,
         \A d \in Clients : req'[d] = req[d] \/ req'[d] = Idle,
         \A m \in DOMAIN trip : m \in DOMAIN trip' /\
           (trip[m].status = "departed" => trip'[m].status = "departed")
  PROVE  \A d \in Clients : TripRequestOK(req[d])'
BY DEF TripInv, TripRequestOK, Idle

LEMMA AtTheVehicles ==
  ASSUME TripInv, RequestsTyped,
         \/ \E v \in Vehicles : removeVehicle(v) \/ \E plate \in Plates : createVehicle(v, plate)
         \/ \E m \in DOMAIN trip : cancelTrip(m)
         \/ \E c \in Clients : updateVehicle(c)
  PROVE  TripInv'
<1>1. ASSUME NEW v \in Vehicles, removeVehicle(v) PROVE TripInv'
  <2>1. /\ req' = req /\ trip' = trip /\ shown' = shown
        /\ vehicle' = [k \in DOMAIN vehicle \ {v} |-> vehicle[k]]
        /\ \A m \in DOMAIN trip : trip[m].vehicle # v
    BY <1>1 DEF removeVehicle, Immediate, TripsOf
  <2>2. \A d \in Clients : TripRequestOK(req[d])'
    BY <2>1, RequestsKept
  <2> QED BY <2>1, <2>2 DEF TripInv, RowsOK, DepartedVehicleIsBusy
<1>2. ASSUME NEW v \in Vehicles, NEW plate \in Plates, createVehicle(v, plate)
      PROVE  TripInv'
  <2>1. /\ req' = req /\ trip' = trip /\ shown' = shown
        /\ v \notin DOMAIN vehicle
    BY <1>2 DEF createVehicle, Immediate
  <2>2. PICK st \in VehicleStatus :
          vehicle' = [k \in DOMAIN vehicle \cup {v} |->
                        IF k = v THEN [plate |-> plate, status |-> st] ELSE vehicle[k]]
    BY <1>2, LogisticsAssumption DEF createVehicle
  <2>3. \A d \in Clients : TripRequestOK(req[d])'
    BY <2>1, RequestsKept
  <2>4. RowsOK'
    BY <2>1, <2>2 DEF TripInv, RowsOK, VehicleRow
  <2>5. \A k \in DOMAIN vehicle : vehicle'[k] = vehicle[k]
    BY <2>1, <2>2
  <2> QED BY <2>1, <2>3, <2>4, <2>5 DEF TripInv, RowsOK, DepartedVehicleIsBusy
<1>3. ASSUME NEW m \in DOMAIN trip, cancelTrip(m) PROVE TripInv'
  <2>1. /\ req' = req /\ vehicle' = vehicle /\ shown' = shown
        /\ trip[m].status = "preparing"
        /\ trip' = [trip EXCEPT ![m].status = "cancelled"]
    BY <1>3 DEF cancelTrip, Immediate
  <2>2. /\ DOMAIN trip' = DOMAIN trip
        /\ \A k \in DOMAIN trip \ {m} : trip'[k] = trip[k]
        /\ trip'[m] \in TripRow /\ trip'[m].vehicle = trip[m].vehicle
    BY <2>1 DEF TripInv, RowsOK, TripRow
  <2>3. \A d \in Clients : TripRequestOK(req[d])'
    BY <2>1, <2>2, RequestsKept
  <2> QED BY <2>1, <2>2, <2>3 DEF TripInv, RowsOK, DepartedVehicleIsBusy
<1>4. ASSUME NEW c \in Clients, updateVehicle(c) PROVE TripInv'
  <2> PICK v, patch : v = req[c].vehicle /\ patch = req[c].patch
    OBVIOUS
  <2>1. /\ trip' = trip /\ v \in DOMAIN vehicle
        /\ req' = [req EXCEPT ![c] = Idle]
        /\ vehicle' = [vehicle EXCEPT ![v] =
             [f \in DOMAIN @ |-> IF f \in DOMAIN patch THEN patch[f] ELSE @[f]]]
        /\ shown' = IF "status" \in DOMAIN patch THEN shown \ TripsOf(v) ELSE shown
    BY <1>4 DEF updateVehicle, SetVehicle, Done, At, TripInv, TripRequestOK
  <2>2. /\ "plate" \in DOMAIN patch => patch["plate"] \in Plates
        /\ "status" \in DOMAIN patch => patch["status"] \in VehicleStatus
    BY <1>4 DEF updateVehicle, At, TripInv, TripRequestOK
  <2>3. \A d \in Clients : TripRequestOK(req[d])'
    BY <2>1, RequestsTyped, RequestsKept DEF RequestsTyped
  <2>4. /\ DOMAIN vehicle' = DOMAIN vehicle
        /\ \A k \in DOMAIN vehicle \ {v} : vehicle'[k] = vehicle[k]
        /\ vehicle'[v] = [f \in DOMAIN vehicle[v] |->
                            IF f \in DOMAIN patch THEN patch[f] ELSE vehicle[v][f]]
    BY <2>1
  <2>5. vehicle[v] \in VehicleRow
    BY <2>1 DEF TripInv, RowsOK
  <2>6. vehicle'[v] \in VehicleRow
        /\ ("status" \notin DOMAIN patch => vehicle'[v].status = vehicle[v].status)
    BY <2>2, <2>4, <2>5 DEF VehicleRow
  <2>7. RowsOK'
    BY <2>1, <2>4, <2>6 DEF TripInv, RowsOK
  <2>8. DepartedVehicleIsBusy'
    BY <2>1, <2>4, <2>6 DEF TripInv, RowsOK, DepartedVehicleIsBusy, TripsOf
  <2> QED BY <2>3, <2>7, <2>8 DEF TripInv
<1> QED BY <1>1, <1>2, <1>3, <1>4

LEMMA AtTheTrips ==
  ASSUME TripInv, RequestsTyped, NEW c \in Clients,
         \/ \E v \in Vehicles : ArriveUpdateVehicle(c, v)
         \/ \E m \in Trips, v \in Vehicles : ArriveTrip(c, m, v)
         \/ insertTrip(c)
         \/ \E m \in DOMAIN trip : depart(c, m)
         \/ updateVehicleStatus(c)
  PROVE  TripInv'
<1>1. ASSUME NEW v \in Vehicles, ArriveUpdateVehicle(c, v) PROVE TripInv'
  <2>1. PICK patch \in VehiclePatches :
          req' = [req EXCEPT ![c] =
                    [kind |-> "updateVehicle", step |-> "update", vehicle |-> v,
                     patch |-> patch, sets |-> DOMAIN patch]]
    BY <1>1 DEF ArriveUpdateVehicle, Becomes
  <2>2. /\ "plate" \in DOMAIN patch => patch["plate"] \in Plates
        /\ "status" \in DOMAIN patch => patch["status"] \in VehicleStatus
    BY LogisticsAssumption DEF VehiclePatches
  <2>3. \A d \in Clients : req'[d] = req[d] \/ TripRequestOK(req'[d])
    BY <2>1, <2>2, RequestsTyped DEF RequestsTyped, TripRequestOK
  <2> QED BY <1>1, <2>3, TablesKept DEF ArriveUpdateVehicle
<1>2. ASSUME NEW m \in Trips, NEW v \in Vehicles, ArriveTrip(c, m, v) PROVE TripInv'
  <2>1. req' = [req EXCEPT ![c] = [kind |-> "consolidate", step |-> "insert",
                                  trip |-> m, vehicle |-> v]]
    BY <1>2 DEF ArriveTrip, Becomes
  <2>2. \A d \in Clients : req'[d] = req[d] \/ TripRequestOK(req'[d])
    BY <2>1, RequestsTyped DEF RequestsTyped, TripRequestOK
  <2> QED BY <1>2, <2>2, TablesKept DEF ArriveTrip
<1>3. CASE insertTrip(c)
  <2> PICK m, v : m = req[c].trip /\ v = req[c].vehicle
    OBVIOUS
  <2>1. /\ vehicle' = vehicle /\ shown' = shown
        /\ req' = [req EXCEPT ![c] = Idle]
        /\ m \notin DOMAIN trip /\ v \in DOMAIN vehicle /\ v \in Vehicles
        /\ trip' = [k \in DOMAIN trip \cup {m} |->
                      IF k = m THEN [vehicle |-> v, status |-> "preparing"] ELSE trip[k]]
    BY <1>3 DEF insertTrip, At, Done, TripInv, TripRequestOK
  <2>2. \A k \in DOMAIN trip : k \in DOMAIN trip' /\ trip'[k] = trip[k]
    BY <2>1
  <2>3. \A d \in Clients : TripRequestOK(req[d])'
    BY <2>1, <2>2, RequestsTyped, RequestsKept DEF RequestsTyped
  <2>4. RowsOK'
    BY <2>1 DEF TripInv, RowsOK, TripRow
  <2>5. DepartedVehicleIsBusy'
    BY <2>1, <2>2 DEF TripInv, RowsOK, DepartedVehicleIsBusy
  <2> QED BY <2>3, <2>4, <2>5 DEF TripInv
<1>4. ASSUME NEW m \in DOMAIN trip, depart(c, m) PROVE TripInv'
  <2>1. /\ vehicle' = vehicle /\ shown' = shown
        /\ req' = [req EXCEPT ![c] = [kind |-> "depart", step |-> "vehicle", trip |-> m]]
        /\ trip' = [trip EXCEPT ![m].status = "departed"]
    BY <1>4 DEF depart, Becomes
  <2>2. /\ DOMAIN trip' = DOMAIN trip
        /\ \A k \in DOMAIN trip \ {m} : trip'[k] = trip[k]
        /\ trip'[m] \in TripRow /\ trip'[m].vehicle = trip[m].vehicle
        /\ trip'[m].status = "departed"
    BY <2>1 DEF TripInv, RowsOK, TripRow
  <2>3. \A d \in Clients : TripRequestOK(req[d])'
    BY <2>1, <2>2, RequestsTyped DEF RequestsTyped, TripInv, TripRequestOK
  <2> QED BY <2>1, <2>2, <2>3 DEF TripInv, RowsOK, DepartedVehicleIsBusy
<1>5. CASE updateVehicleStatus(c)
  <2> PICK m : m = req[c].trip
    OBVIOUS
  <2> PICK v : v = trip[m].vehicle
    OBVIOUS
  <2>1. /\ trip' = trip /\ shown' = shown \cup {m}
        /\ req' = [req EXCEPT ![c] = Idle]
        /\ vehicle' = [vehicle EXCEPT ![v].status = "in_transit"]
        /\ m \in DOMAIN trip /\ trip[m].status = "departed"
    BY <1>5 DEF updateVehicleStatus, At, Done, TripInv, TripRequestOK
  <2>2. v \in DOMAIN vehicle /\ vehicle[v] \in VehicleRow
    BY <2>1 DEF TripInv, RowsOK
  <2>3. /\ DOMAIN vehicle' = DOMAIN vehicle
        /\ \A k \in DOMAIN vehicle \ {v} : vehicle'[k] = vehicle[k]
        /\ vehicle'[v] \in VehicleRow /\ vehicle'[v].status = "in_transit"
    BY <2>1, <2>2 DEF VehicleRow, VehicleStatus
  <2>4. \A d \in Clients : TripRequestOK(req[d])'
    BY <2>1, RequestsTyped, RequestsKept DEF RequestsTyped
  <2>5. RowsOK'
    BY <2>1, <2>3 DEF TripInv, RowsOK
  <2> QED BY <2>1, <2>3, <2>4, <2>5 DEF TripInv, RowsOK, DepartedVehicleIsBusy
<1> QED BY <1>1, <1>2, <1>3, <1>4, <1>5

LEMMA LogisticsNextKeeps ==
  ASSUME TripInv, RequestsTyped, LogisticsNext
  PROVE  TripInv'
<1>1. ASSUME UNCHANGED <<req, vehicle, trip, shown>> PROVE TripInv'
  <2>1. \A d \in Clients : TripRequestOK(req[d])'
    BY <1>1, RequestsKept
  <2> QED BY <1>1, <2>1 DEF TripInv, RowsOK, DepartedVehicleIsBusy
<1>2. ASSUME NEW r, createRoute(r) \/ removeRoute(r) PROVE TripInv'
  BY <1>1, <1>2 DEF createRoute, removeRoute, Immediate
<1>3. ASSUME NEW r, NEW s, assignRoute(s, r) PROVE TripInv'
  BY <1>1, <1>3 DEF assignRoute, Immediate
<1> QED BY <1>2, <1>3, AtTheVehicles, AtTheTrips, LogisticsNext
        DEF LogisticsNext, VehicleRequest

LEMMA TripInvariant == Spec => []TripInv
<1>1. TripInv /\ RequestsTyped /\ [Next]_vars => TripInv'
  <2> SUFFICES ASSUME TripInv, RequestsTyped, [Next]_vars PROVE TripInv'
    OBVIOUS
  <2>1. CASE AccountNext /\ UNCHANGED logisticsVars
    BY <2>1, AccountWithin, ApartFromTrips DEF AccountKinds, LogisticsKinds
  <2>2. CASE CatalogueNext /\ UNCHANGED logisticsVars
    BY <2>2, CatalogueWithin, ApartFromTrips DEF CatalogueKinds, LogisticsKinds
  <2>3. CASE LogisticsNext
    BY <2>3, LogisticsNextKeeps
  <2>4. CASE (LedgerNext \/ ReaderNext) /\ UNCHANGED logisticsVars
    BY <2>4, LedgerWithin, ApartFromTrips DEF LedgerKinds, LogisticsKinds
  <2>5. CASE ConfigNext /\ UNCHANGED logisticsVars
    <3>1. CASE Within(ConfigKinds)
      BY <2>5, <3>1, ApartFromTrips DEF ConfigKinds, LogisticsKinds
    <3>2. CASE Restarted
      <4>1. \A d \in Clients : TripRequestOK(req'[d])
        BY <3>2 DEF Restarted, TripRequestOK, Idle
      <4> QED BY <2>5, <4>1, TablesKept
    <3> QED BY <2>5, <3>1, <3>2, ConfigWithin
  <2>6. ASSUME NEW c \in Clients, Fail(c), UNCHANGED logisticsVars PROVE TripInv'
    <3>1. \A d \in Clients : req'[d] = req[d] \/ TripRequestOK(req'[d])
      BY <2>6, FailWithin, RequestsTyped DEF Done, RequestsTyped, TripRequestOK, Idle
    <3> QED BY <2>6, <3>1, TablesKept
  <2>7. CASE UNCHANGED vars
    BY <2>7, TablesKept DEF vars
  <2> QED BY <2>1, <2>2, <2>3, <2>4, <2>5, <2>6, <2>7 DEF Next
<1> QED BY TripStart, <1>1, RequestsStayTyped, PTL DEF Spec

(* Whatever consolidations, edits and departures are in flight, the vehicle  *)
(* of a marked departure stays on the road until its status is set by hand. *)
THEOREM VehicleStaysOnTheRoad == Spec => []DepartedVehicleIsBusy
<1>1. TripInv => DepartedVehicleIsBusy
  BY DEF TripInv
<1> QED BY <1>1, TripInvariant, PTL

-----------------------------------------------------------------------------
(* Settings.  The map is stale only after two requests have crossed.  The   *)
(* invariant speaks of one key at a time: as long as no crossing is         *)
(* recorded for it, every request that is about to cache a value of it has  *)
(* the value of the table.                                                 *)

GetRequest ==
  [kind : {"getConfig"}, step : {"find"}, key : Keys]
    \cup [kind : {"getConfig"}, step : {"cache"}, key : Keys, value : Values \cup {{}}]
UpdateRequest ==
  [kind : {"updateConfig"}, step : {"write", "cache"}, key : Keys, value : Values]

ConfigRequestOK(r) ==
  /\ r.kind = "getConfig" => r \in GetRequest
  /\ r.kind = "updateConfig" => r \in UpdateRequest

Fresh(k) ==
  /\ \A c \in Clients : Caching(c, k) => req[c].value = setting[k]
  /\ configCache[k] \in {{}, setting[k]} \/ \E c \in Clients : Caching(c, k)

ConfigInv ==
  /\ setting \in Settings /\ configCache \in Settings
  /\ \A c \in Clients : ConfigRequestOK(req[c])
  /\ \A k \in Keys \ crossed : Fresh(k)

LEMMA ConfigStart == Init => ConfigInv
<1> SUFFICES ASSUME Init PROVE ConfigInv
  OBVIOUS
<1>1. \A c \in Clients : req[c].kind = "idle"
  BY DEF Init, RequestsInit, Idle
<1> QED BY <1>1, ConfigAssumption
        DEF Init, ConfigInit, ConfigInv, ConfigRequestOK, Fresh, Caching

(* A step that changes no request which has something to cache. *)
HasAnswer(r) == r.kind \in ConfigKinds /\ r.step = "cache"

Undisturbed ==
  \A d \in Clients :
    \/ req'[d] = req[d]
    \/ ~HasAnswer(req[d]) /\ ~HasAnswer(req'[d]) /\ ConfigRequestOK(req'[d])

LEMMA UndisturbedKeeps ==
  ASSUME ConfigInv, Undisturbed, UNCHANGED configVars
  PROVE  ConfigInv'
<1>1. \A c \in Clients : ConfigRequestOK(req'[c])
  BY DEF ConfigInv, Undisturbed
<1>2. \A c \in Clients, k \in Keys :
        /\ Caching(c, k)' <=> Caching(c, k)
        /\ Caching(c, k) => req'[c] = req[c]
  BY DEF Undisturbed, Caching, ConfigKinds, HasAnswer
<1>3. setting' = setting /\ configCache' = configCache /\ crossed' = crossed
  BY DEF configVars
<1>4. \A k \in Keys \ crossed : Fresh(k)'
  BY <1>2, <1>3 DEF ConfigInv, Fresh
<1> QED BY <1>1, <1>3, <1>4 DEF ConfigInv, ConfigRequestOK

LEMMA OthersKeep ==
  ASSUME NEW K, ConfigInv, Within(K), K \cap ConfigKinds = {}, UNCHANGED configVars
  PROVE  ConfigInv'
<1>1. Undisturbed
  BY DEF Within, Undisturbed, ConfigRequestOK, ConfigKinds, HasAnswer
<1> QED BY <1>1, UndisturbedKeeps

LEMMA ConfigNextKeeps ==
  ASSUME ConfigInv, RequestsTyped, ConfigNext
  PROVE  ConfigInv'
<1>1. ASSUME NEW c \in Clients, NEW k \in Keys, ArriveGet(c, k) PROVE ConfigInv'
  <2>1. req' = [req EXCEPT ![c] = [kind |-> "getConfig", step |-> "find", key |-> k]]
        /\ req[c] = Idle
    BY <1>1 DEF ArriveGet, Becomes, Idling
  <2>2. Undisturbed
    BY <2>1, RequestsTyped
       DEF RequestsTyped, Undisturbed, HasAnswer, ConfigRequestOK, GetRequest, Idle
  <2> QED BY <1>1, <2>2, UndisturbedKeeps DEF ArriveGet
<1>2. ASSUME NEW c \in Clients, NEW k \in Keys, NEW v \in Values,
             ArriveUpdateConfig(c, k, v)
      PROVE  ConfigInv'
  <2>1. req' = [req EXCEPT ![c] = [kind |-> "updateConfig", step |-> "write",
                                  key |-> k, value |-> v]]
        /\ req[c] = Idle
    BY <1>2 DEF ArriveUpdateConfig, Becomes, Idling
  <2>2. Undisturbed
    BY <2>1, RequestsTyped
       DEF RequestsTyped, Undisturbed, HasAnswer, ConfigRequestOK, UpdateRequest, Idle
  <2> QED BY <1>2, <2>2, UndisturbedKeeps DEF ArriveUpdateConfig
<1>3. ASSUME NEW c \in Clients, findByKey(c) PROVE ConfigInv'
  <2> DEFINE k == req[c].key
  <2>0. /\ req[c].kind = "getConfig" /\ req[c].step = "find"
        /\ UNCHANGED configVars
        /\ k \in Keys /\ setting[k] \in Values \cup {{}}
    BY <1>3 DEF findByKey, At, ConfigInv, ConfigRequestOK, GetRequest, Settings
  <2>1. CASE setting[k] = {}
    <3>1. req' = [req EXCEPT ![c] = Idle]
      BY <1>3, <2>1 DEF findByKey, Done
    <3>2. Undisturbed
      BY <2>0, <3>1, RequestsTyped
         DEF RequestsTyped, Undisturbed, HasAnswer, ConfigRequestOK, Idle
    <3> QED BY <2>0, <3>2, UndisturbedKeeps
  <2>2. CASE setting[k] # {}
    <3>1. req' = [req EXCEPT ![c] = [kind |-> "getConfig", step |-> "cache",
                                    key |-> k, value |-> setting[k]]]
      BY <1>3, <2>2 DEF findByKey
    <3>2. /\ req'[c] = [kind |-> "getConfig", step |-> "cache",
                        key |-> k, value |-> setting[k]]
          /\ \A d \in Clients \ {c} : req'[d] = req[d]
      BY <3>1, RequestsTyped DEF RequestsTyped
    <3>3. \A d \in Clients : ConfigRequestOK(req'[d])
      BY <2>0, <3>2 DEF ConfigInv, ConfigRequestOK, GetRequest
    <3>4. setting' = setting /\ configCache' = configCache /\ crossed' = crossed
      BY <2>0 DEF configVars
    <3>5. \A j \in Keys : \A d \in Clients : Caching(d, j) => Caching(d, j)'
      BY <2>0, <3>2 DEF Caching
    <3>6. \A j \in Keys \ crossed : Fresh(j)'
      BY <3>2, <3>4, <3>5 DEF ConfigInv, Fresh, Caching
    <3> QED BY <3>3, <3>4, <3>6 DEF ConfigInv, ConfigRequestOK
  <2> QED BY <2>1, <2>2
<1>4. ASSUME NEW c \in Clients, writeSetting(c) PROVE ConfigInv'
  <2> PICK k, v : k = req[c].key /\ v = req[c].value
    OBVIOUS
  <2>0. req[c].kind = "updateConfig" /\ req[c] \in UpdateRequest
    BY <1>4 DEF writeSetting, At, ConfigInv, ConfigRequestOK
  <2>1. k \in Keys /\ v \in Values /\ req[c].step = "write"
    BY <1>4, <2>0 DEF UpdateRequest, writeSetting, At
  <2>2. /\ req'[c] = [req[c] EXCEPT !.step = "cache"]
        /\ \A d \in Clients \ {c} : req'[d] = req[d]
    BY <1>4, RequestsTyped DEF writeSetting, GoesTo, RequestsTyped
  <2>3. /\ req'[c] \in UpdateRequest /\ req'[c].kind = "updateConfig"
        /\ req'[c].step = "cache" /\ req'[c].key = k /\ req'[c].value = v
    BY <2>0, <2>2 DEF UpdateRequest
  <2>4. /\ setting' = [setting EXCEPT ![k] = v] /\ configCache' = configCache
        /\ crossed \subseteq crossed'
        /\ k \notin crossed' => \A d \in Clients \ {c} : ~Caching(d, k)
    BY <1>4 DEF writeSetting
  <2>5. /\ setting' \in Settings /\ setting'[k] = v
        /\ \A j \in Keys \ {k} : setting'[j] = setting[j]
    BY <2>1, <2>4 DEF ConfigInv, Settings
  <2>6. \A d \in Clients : ConfigRequestOK(req'[d])
    BY <2>2, <2>3 DEF ConfigInv, ConfigRequestOK
  <2>7. k \notin crossed' => Fresh(k)'
    BY <2>2, <2>3, <2>4, <2>5 DEF Fresh, Caching
  <2>8. \A j \in Keys \ {k} : j \notin crossed' => Fresh(j)'
    <3>1. \A j \in Keys \ {k}, d \in Clients : Caching(d, j)' <=> Caching(d, j)
      BY <2>2, <2>3 DEF Caching
    <3>2. \A j \in Keys \ {k}, d \in Clients : Caching(d, j) => req'[d] = req[d]
      BY <2>2, <2>1 DEF Caching
    <3> QED BY <2>4, <2>5, <3>1, <3>2 DEF ConfigInv, Fresh
  <2> QED BY <2>4, <2>5, <2>6, <2>7, <2>8 DEF ConfigInv, ConfigRequestOK
<1>5. ASSUME NEW c \in Clients, cacheValue(c) PROVE ConfigInv'
  <2> PICK k, v : k = req[c].key /\ v = req[c].value
    OBVIOUS
  <2>0. HasAnswer(req[c]) /\ ConfigRequestOK(req[c])
    BY <1>5 DEF cacheValue, At, HasAnswer, ConfigKinds, ConfigInv
  <2>1. k \in Keys /\ v \in Values \cup {{}} /\ Caching(c, k)
    BY <2>0 DEF HasAnswer, ConfigKinds, ConfigRequestOK, GetRequest, UpdateRequest, Caching
  <2>2. /\ req'[c] = Idle /\ \A d \in Clients \ {c} : req'[d] = req[d]
        /\ configCache' = [configCache EXCEPT ![k] = v]
        /\ setting' = setting /\ crossed' = crossed
    BY <1>5, RequestsTyped DEF cacheValue, Done, RequestsTyped
  <2>3. /\ configCache' \in Settings /\ configCache'[k] = v
        /\ \A j \in Keys \ {k} : configCache'[j] = configCache[j]
    BY <2>1, <2>2 DEF ConfigInv, Settings
  <2>4. \A d \in Clients : ConfigRequestOK(req'[d])
    BY <2>2 DEF ConfigInv, ConfigRequestOK, Idle
  <2>5. \A d \in Clients, j \in Keys : Caching(d, j)' <=> d # c /\ Caching(d, j)
    BY <2>2 DEF Caching, Idle
  <2>6. k \notin crossed => Fresh(k)'
    BY <2>1, <2>2, <2>3, <2>5 DEF ConfigInv, Fresh
  <2>7. \A j \in Keys \ {k} : ~Caching(c, j)
    BY DEF Caching
  <2>8. \A j \in Keys \ {k} : j \notin crossed => Fresh(j)'
    BY <2>2, <2>3, <2>5, <2>7 DEF ConfigInv, Fresh
  <2> QED BY <2>2, <2>3, <2>4, <2>6, <2>8 DEF ConfigInv, ConfigRequestOK
<1>6. CASE Restart
  <2>1. \A d \in Clients : req'[d] = Idle
    BY <1>6 DEF Restart
  <2>2. setting' = setting /\ configCache' = setting
    BY <1>6 DEF Restart
  <2> QED BY <2>1, <2>2 DEF ConfigInv, ConfigRequestOK, Idle, Fresh, Caching
<1> QED BY <1>1, <1>2, <1>3, <1>4, <1>5, <1>6, ConfigNext DEF ConfigNext

LEMMA ConfigFailKeeps ==
  ASSUME ConfigInv, RequestsTyped, NEW c \in Clients, Fail(c), UNCHANGED configVars
  PROVE  ConfigInv'
<1>1. Undisturbed
  BY RequestsTyped
     DEF Fail, Abort, Done, RequestsTyped, Undisturbed, HasAnswer, ConfigRequestOK, Idle
<1> QED BY <1>1, UndisturbedKeeps

LEMMA ConfigInvariant == Spec => []ConfigInv
<1>1. ConfigInv /\ RequestsTyped /\ [Next]_vars => ConfigInv'
  <2> SUFFICES ASSUME ConfigInv, RequestsTyped, [Next]_vars PROVE ConfigInv'
    OBVIOUS
  <2>1. CASE AccountNext /\ UNCHANGED configVars
    BY <2>1, AccountWithin, OthersKeep DEF AccountKinds, ConfigKinds
  <2>2. CASE CatalogueNext /\ UNCHANGED configVars
    BY <2>2, CatalogueWithin, OthersKeep DEF CatalogueKinds, ConfigKinds
  <2>3. CASE LogisticsNext /\ UNCHANGED configVars
    BY <2>3, LogisticsWithin, OthersKeep DEF LogisticsKinds, ConfigKinds
  <2>4. CASE (LedgerNext \/ ReaderNext) /\ UNCHANGED configVars
    BY <2>4, LedgerWithin, OthersKeep DEF LedgerKinds, ConfigKinds
  <2>5. CASE ConfigNext
    BY <2>5, ConfigNextKeeps
  <2>6. ASSUME NEW c \in Clients, Fail(c), UNCHANGED configVars PROVE ConfigInv'
    BY <2>6, ConfigFailKeeps
  <2>7. CASE UNCHANGED vars
    <3>1. Undisturbed /\ UNCHANGED configVars
      BY <2>7 DEF vars, Undisturbed
    <3> QED BY <3>1, UndisturbedKeeps
  <2> QED BY <2>1, <2>2, <2>3, <2>4, <2>5, <2>6, <2>7 DEF Next
<1> QED BY ConfigStart, <1>1, RequestsStayTyped, PTL DEF Spec

(* The answers the process gives from its map are those of the table, unless *)
(* a request that wrote a setting crossed one about to cache an older value. *)
THEOREM MapIsCurrent == Spec => []StaleOnlyAfterCrossing
<1>1. ConfigInv => StaleOnlyAfterCrossing
  BY DEF ConfigInv, Fresh, StaleOnlyAfterCrossing
<1> QED BY <1>1, ConfigInvariant, PTL

-----------------------------------------------------------------------------
(* A bill of materials changes under new orders only.  The invariant: the   *)
(* orders that a structural change has seen are those of the table, and     *)
(* none of them is open on its recipe; an order that has been completed is  *)
(* never opened again.                                                     *)

Structural(r) == DOMAIN r.patch \cap {"output", "items"} # {}

(* What updateRecipe has checked of the orders o it has seen. *)
Checked(o, r) ==
  o \in DOMAIN porder /\ (porder[o].recipe = r.recipe => ~Open(o))

RecipeRequestOK(r) ==
  /\ r.kind = "updateRecipe" /\ Structural(r) => \A o \in r.seen : Checked(o, r)
  /\ r.kind = "createRecipe" => DOMAIN r.row = {"output", "items", "active"}
  /\ r.kind = "createOrder" => DOMAIN r.row = {"recipe", "status"}

RecipesShaped ==
  \A r \in DOMAIN recipe : DOMAIN recipe[r] = {"output", "items", "active"}

OrdersShaped == \A o \in DOMAIN porder : DOMAIN porder[o] = {"recipe", "status"}

InspectedKinds == {"updateRecipe", "createRecipe", "createOrder"}

RecipeInv ==
  RecipesShaped /\ OrdersShaped /\ \A c \in Clients : RecipeRequestOK(req[c])

LEMMA RecipeStart == Init => RecipeInv
<1> SUFFICES ASSUME Init PROVE RecipeInv
  OBVIOUS
<1>1. \A c \in Clients : req[c].kind = "idle"
  BY DEF Init, RequestsInit, Idle
<1>2. \A r \in DOMAIN SeedRecipes : SeedRecipes[r] \in RecipeRow
  BY CatalogueAssumption
<1>3. RecipesShaped
  BY <1>2 DEF Init, CatalogueInit, RecipesShaped, RecipeRow
<1>4. OrdersShaped
  BY DEF Init, CatalogueInit, OrdersShaped, NoRows
<1> QED BY <1>1, <1>3, <1>4 DEF RecipeInv, RecipeRequestOK

(* Orders stay on their recipe, and the closed ones stay closed. *)
OrdersOnlyClose ==
  \A o \in DOMAIN porder :
    /\ o \in DOMAIN porder' /\ porder'[o].recipe = porder[o].recipe
    /\ ~Open(o) => ~Open(o)'

(* A step that changes no recipe, and requests but for some it starts or ends. *)
LEMMA RecipesKept ==
  ASSUME RecipeInv, OrdersOnlyClose, OrdersShaped', UNCHANGED recipe,
         \A d \in Clients :
           req'[d] = req[d] \/ req'[d].kind \notin InspectedKinds
  PROVE  RecipeInv'
<1>1. ASSUME NEW d \in Clients PROVE RecipeRequestOK(req[d])'
  <2>1. CASE req'[d] = req[d]
    <3>1. RecipeRequestOK(req[d])
      BY DEF RecipeInv
    <3>2. \A o : Checked(o, req[d]) => Checked(o, req[d])'
      BY <2>1 DEF Checked, OrdersOnlyClose
    <3> QED BY <2>1, <3>1, <3>2 DEF RecipeRequestOK, Structural
  <2>2. CASE req'[d].kind \notin InspectedKinds
    BY <2>2 DEF RecipeRequestOK, InspectedKinds
  <2> QED BY <2>1, <2>2
<1> QED BY <1>1 DEF RecipeInv, RecipesShaped

LEMMA ApartFromRecipes ==
  ASSUME NEW K, RecipeInv, Within(K), K \cap CatalogueKinds = {}, UNCHANGED catalogueVars
  PROVE  RecipeInv'
<1>1. UNCHANGED <<recipe, porder>>
  BY DEF catalogueVars
<1>2. OrdersOnlyClose
  BY <1>1 DEF OrdersOnlyClose, Open
<1>3. OrdersShaped'
  BY <1>1 DEF RecipeInv, OrdersShaped
<1>4. \A d \in Clients :
        req'[d] = req[d] \/ req'[d].kind \notin InspectedKinds
  BY DEF Within, CatalogueKinds, InspectedKinds
<1> QED BY <1>1, <1>2, <1>3, <1>4, RecipesKept

LEMMA RecipeRequestKeeps ==
  ASSUME RecipeInv, RequestsTyped, NEW c \in Clients, RecipeRequest(c)
  PROVE  RecipeInv'
<1>1. ASSUME NEW r \in Recipes, NEW p \in Products, NEW S \in BillChoices,
             ArriveCreateRecipe(c, r, p, S)
      PROVE  RecipeInv'
  <2>1. /\ req' = [req EXCEPT ![c] = [kind |-> "createRecipe", step |-> "insert",
              recipe |-> r, row |-> [output |-> p, items |-> S, active |-> TRUE]]]
        /\ porder' = porder /\ recipe' = recipe
    BY <1>1 DEF ArriveCreateRecipe, Becomes, catalogueVars
  <2>2. ASSUME NEW d \in Clients PROVE RecipeRequestOK(req[d])'
    BY <2>1, RequestsTyped
       DEF RequestsTyped, RecipeInv, RecipeRequestOK, Structural, Checked, Open
  <2> QED BY <2>1, <2>2 DEF RecipeInv, RecipesShaped, OrdersShaped
<1>2. ASSUME NEW r \in DOMAIN recipe, NEW patch, ArriveUpdateRecipe(c, r, patch)
      PROVE  RecipeInv'
  <2>1. /\ req' = [req EXCEPT ![c] = [kind |-> "updateRecipe", step |-> "update",
              recipe |-> r, patch |-> patch, seen |-> DOMAIN porder]]
        /\ porder' = porder /\ recipe' = recipe
        /\ DOMAIN patch \cap {"output", "items"} # {} => BlockingOrders(r) = {}
    BY <1>2 DEF ArriveUpdateRecipe, Becomes, catalogueVars
  <2>2. ASSUME NEW d \in Clients PROVE RecipeRequestOK(req[d])'
    <3>1. CASE d = c
      <4>1. req'[d] = [kind |-> "updateRecipe", step |-> "update",
              recipe |-> r, patch |-> patch, seen |-> DOMAIN porder]
        BY <2>1, <3>1, RequestsTyped DEF RequestsTyped
      <4> QED BY <2>1, <4>1
              DEF RecipeRequestOK, Structural, Checked, Open, BlockingOrders
    <3>2. CASE d # c
      BY <2>1, <3>2, RequestsTyped
         DEF RequestsTyped, RecipeInv, RecipeRequestOK, Structural, Checked, Open
    <3> QED BY <3>1, <3>2
  <2> QED BY <2>1, <2>2 DEF RecipeInv, RecipesShaped, OrdersShaped
<1>3. ASSUME NEW o, NEW p, ArriveProductionOrder(c, o, p) PROVE RecipeInv'
  <2>1. UNCHANGED <<recipe, porder>>
    BY <1>3 DEF ArriveProductionOrder, catalogueVars
  <2>2. PICK r, st : req' = [req EXCEPT ![c] = [kind |-> "createOrder",
            step |-> "insert", porder |-> o, row |-> [recipe |-> r, status |-> st]]]
    BY <1>3 DEF ArriveProductionOrder, Becomes
  <2>3. ASSUME NEW d \in Clients PROVE RecipeRequestOK(req[d])'
    BY <2>1, <2>2, RequestsTyped
       DEF RequestsTyped, RecipeInv, RecipeRequestOK, Structural, Checked, Open
  <2> QED BY <2>1, <2>3 DEF RecipeInv, RecipesShaped, OrdersShaped
<1>4. ASSUME Done(c) PROVE
        \A d \in Clients :
          req'[d] = req[d] \/ req'[d].kind \notin InspectedKinds
  BY <1>4, RequestsTyped DEF Done, RequestsTyped, Idle, InspectedKinds
<1>5. CASE createRecipe(c)
  <2> PICK r, row : r = req[c].recipe /\ row = req[c].row
    OBVIOUS
  <2>1. /\ porder' = porder /\ Done(c)
        /\ recipe' = [k \in DOMAIN recipe \cup {r} |-> IF k = r THEN row ELSE recipe[k]]
        /\ DOMAIN row = {"output", "items", "active"}
    BY <1>5 DEF createRecipe, At, With, RecipeInv, RecipeRequestOK
  <2>2. RecipesShaped'
    BY <2>1 DEF RecipeInv, RecipesShaped
  <2>3. \A d \in Clients : RecipeRequestOK(req[d])'
    BY <2>1, <1>4 DEF RecipeInv, InspectedKinds, RecipeRequestOK, Structural, Checked, Open
  <2> QED BY <2>1, <2>2, <2>3 DEF RecipeInv, OrdersShaped
<1>6. CASE updateRecipe(c)
  <2> PICK r, patch : r = req[c].recipe /\ patch = req[c].patch
    OBVIOUS
  <2>1. /\ porder' = porder /\ Done(c)
        /\ recipe' = [recipe EXCEPT ![r] = Patched(@, patch)]
    BY <1>6 DEF updateRecipe
  <2>2. RecipesShaped'
    BY <2>1 DEF RecipeInv, RecipesShaped, Patched
  <2>3. \A d \in Clients : RecipeRequestOK(req[d])'
    BY <2>1, <1>4 DEF RecipeInv, InspectedKinds, RecipeRequestOK, Structural, Checked, Open
  <2> QED BY <2>1, <2>2, <2>3 DEF RecipeInv, OrdersShaped
<1>7. CASE createProductionOrder(c)
  <2> PICK o, row : o = req[c].porder /\ row = req[c].row
    OBVIOUS
  <2>1. /\ recipe' = recipe /\ Done(c) /\ o \notin DOMAIN porder
        /\ porder' = [k \in DOMAIN porder \cup {o} |-> IF k = o THEN row ELSE porder[k]]
    BY <1>7 DEF createProductionOrder, With
  <2>2. OrdersOnlyClose
    BY <2>1 DEF OrdersOnlyClose, Open
  <2>3. DOMAIN row = {"recipe", "status"}
    BY <1>7 DEF createProductionOrder, At, RecipeInv, RecipeRequestOK
  <2>4. OrdersShaped'
    BY <2>1, <2>3 DEF RecipeInv, OrdersShaped
  <2> QED BY <2>1, <2>2, <2>4, <1>4, RecipesKept
<1> QED BY <1>1, <1>2, <1>3, <1>5, <1>6, <1>7 DEF RecipeRequest

LEMMA CatalogueNextKeeps ==
  ASSUME RecipeInv, RequestsTyped, CatalogueNext
  PROVE  RecipeInv'
<1>1. ASSUME UNCHANGED <<recipe, porder>>,
             \A d \in Clients :
               req'[d] = req[d] \/ req'[d].kind \notin InspectedKinds
      PROVE  RecipeInv'
  <2>1. OrdersOnlyClose /\ OrdersShaped'
    BY <1>1 DEF OrdersOnlyClose, Open, RecipeInv, OrdersShaped
  <2> QED BY <1>1, <2>1, RecipesKept
<1>2. ASSUME NEW u, removeUnit(u) PROVE RecipeInv'
  BY <1>1, <1>2 DEF removeUnit, Immediate
<1>3. ASSUME NEW p, removeProduct(p) \/ restoreProduct(p) PROVE RecipeInv'
  BY <1>1, <1>3 DEF removeProduct, restoreProduct, Immediate
<1>4. ASSUME NEW l, updateBatch(l) PROVE RecipeInv'
  BY <1>1, <1>4 DEF updateBatch, Immediate
<1>5. ASSUME NEW l, NEW p, createBatch(l, p) PROVE RecipeInv'
  BY <1>1, <1>5 DEF createBatch, Immediate
<1>6. ASSUME NEW s, createSupplier(s) \/ removeSupplier(s) PROVE RecipeInv'
  BY <1>1, <1>6 DEF createSupplier, removeSupplier, Immediate
<1>7. ASSUME NEW o \in DOMAIN porder, startOrder(o) \/ completeOrder(o) PROVE RecipeInv'
  <2>1. /\ req' = req /\ recipe' = recipe /\ Open(o)
        /\ \E st : porder' = [porder EXCEPT ![o].status = st]
    BY <1>7 DEF startOrder, completeOrder, Immediate, Open
  <2>2. /\ DOMAIN porder' = DOMAIN porder
        /\ \A k \in DOMAIN porder \ {o} : porder'[k] = porder[k]
        /\ porder'[o].recipe = porder[o].recipe /\ DOMAIN porder'[o] = DOMAIN porder[o]
    BY <2>1 DEF RecipeInv, OrdersShaped
  <2>3. OrdersOnlyClose /\ OrdersShaped'
    BY <2>1, <2>2 DEF OrdersOnlyClose, Open, RecipeInv, OrdersShaped
  <2> QED BY <2>1, <2>3, RecipesKept
<1>8. ASSUME NEW c \in Clients, ProductRequest(c) PROVE RecipeInv'
  <2>1. UNCHANGED <<recipe, porder>>
    BY <1>8 DEF ProductRequest, ArriveCreateUnit, ArriveUpdateUnit, ArriveCreateProduct,
         ArriveUpdateProduct, writeUnit, createProduct, updateProduct, catalogueVars
  <2>2. ASSUME NEW r, Becomes(c, r), r.kind \notin InspectedKinds PROVE RecipeInv'
    <3>1. \A d \in Clients : req'[d] = req[d] \/ req'[d].kind \notin InspectedKinds
      BY <2>2, RequestsTyped DEF Becomes, RequestsTyped
    <3> QED BY <1>1, <2>1, <3>1
  <2>3. ASSUME Done(c) PROVE RecipeInv'
    <3>1. \A d \in Clients : req'[d] = req[d] \/ req'[d].kind \notin InspectedKinds
      BY <2>3, RequestsTyped DEF Done, Idle, RequestsTyped, InspectedKinds
    <3> QED BY <1>1, <2>1, <3>1
  <2>4. CASE writeUnit(c) \/ createProduct(c) \/ updateProduct(c)
    BY <2>3, <2>4 DEF writeUnit, createProduct, updateProduct
  <2>5. ASSUME NEW u, NEW name, ArriveCreateUnit(c, u, name) \/ ArriveUpdateUnit(c, u, name)
        PROVE  RecipeInv'
    BY <2>2, <2>5 DEF ArriveCreateUnit, ArriveUpdateUnit, InspectedKinds
  <2>6. ASSUME NEW p, NEW u, ArriveCreateProduct(c, p, u) PROVE RecipeInv'
    BY <2>2, <2>6 DEF ArriveCreateProduct, InspectedKinds
  <2>7. ASSUME NEW p, ArriveUpdateProduct(c, p) PROVE RecipeInv'
    BY <2>2, <2>7 DEF ArriveUpdateProduct, InspectedKinds
  <2> QED BY <1>8, <2>4, <2>5, <2>6, <2>7 DEF ProductRequest
<1> QED BY <1>2, <1>3, <1>4, <1>5, <1>6, <1>7, <1>8, RecipeRequestKeeps, CatalogueNext
        DEF CatalogueNext

LEMMA RecipeInvariant == Spec => [](RecipeInv /\ RequestsTyped)
<1>1. RecipeInv /\ RequestsTyped /\ [Next]_vars => RecipeInv'
  <2> SUFFICES ASSUME RecipeInv, RequestsTyped, [Next]_vars PROVE RecipeInv'
    OBVIOUS
  <2>0. ASSUME UNCHANGED catalogueVars,
               \A d \in Clients : req'[d] = req[d] \/ req'[d].kind \notin InspectedKinds
        PROVE  RecipeInv'
    <3>1. OrdersOnlyClose /\ OrdersShaped' /\ UNCHANGED recipe
      BY <2>0 DEF OrdersOnlyClose, Open, RecipeInv, OrdersShaped, catalogueVars
    <3> QED BY <2>0, <3>1, RecipesKept
  <2>1. CASE AccountNext /\ UNCHANGED catalogueVars
    BY <2>1, AccountWithin, ApartFromRecipes DEF AccountKinds, CatalogueKinds
  <2>2. CASE CatalogueNext
    BY <2>2, CatalogueNextKeeps
  <2>3. CASE LogisticsNext /\ UNCHANGED catalogueVars
    BY <2>3, LogisticsWithin, ApartFromRecipes DEF LogisticsKinds, CatalogueKinds
  <2>4. CASE (LedgerNext \/ ReaderNext) /\ UNCHANGED catalogueVars
    BY <2>4, LedgerWithin, ApartFromRecipes DEF LedgerKinds, CatalogueKinds
  <2>5. CASE ConfigNext /\ UNCHANGED catalogueVars
    <3>1. CASE Within(ConfigKinds)
      BY <2>5, <3>1, ApartFromRecipes DEF ConfigKinds, CatalogueKinds
    <3>2. CASE Restarted
      BY <2>0, <2>5, <3>2 DEF Restarted, Idle, InspectedKinds
    <3> QED BY <2>5, <3>1, <3>2, ConfigWithin
  <2>6. ASSUME NEW c \in Clients, Fail(c), UNCHANGED catalogueVars PROVE RecipeInv'
    <3>1. \A d \in Clients : req'[d] = req[d] \/ req'[d].kind \notin InspectedKinds
      BY <2>6, FailWithin, RequestsTyped
         DEF Done, RequestsTyped, InspectedKinds, Idle
    <3> QED BY <2>0, <2>6, <3>1
  <2>7. CASE UNCHANGED vars
    BY <2>0, <2>7 DEF vars
  <2> QED BY <2>1, <2>2, <2>3, <2>4, <2>5, <2>6, <2>7 DEF Next
<1> QED BY RecipeStart, <1>1, RequestsStayTyped, PTL DEF Spec

-----------------------------------------------------------------------------
(* Only updateRecipe changes a bill, and only what its patch names. *)
SameBill(r) ==
  recipe'[r].output = recipe[r].output /\ recipe'[r].items = recipe[r].items

LEMMA OnlyUpdatesChangeBills ==
  ASSUME RecipeInv, CatalogueNext, NEW r \in DOMAIN recipe, ~SameBill(r)
  PROVE  \E c \in Clients : /\ req[c].kind = "updateRecipe" /\ req[c].recipe = r
                            /\ Structural(req[c])
<1>1. ASSUME UNCHANGED recipe PROVE FALSE
  BY <1>1 DEF SameBill
<1>2. ASSUME NEW c \in Clients, createRecipe(c) PROVE FALSE
  BY <1>2 DEF createRecipe, With, SameBill
<1>3. ASSUME NEW c \in Clients, ~updateRecipe(c), ~createRecipe(c),
             ProductRequest(c) \/ RecipeRequest(c)
      PROVE  FALSE
  BY <1>1, <1>3 DEF ProductRequest, RecipeRequest, ArriveCreateUnit, ArriveUpdateUnit,
     ArriveCreateProduct, ArriveUpdateProduct, writeUnit, createProduct, updateProduct,
     ArriveCreateRecipe, ArriveUpdateRecipe, ArriveProductionOrder,
     createProductionOrder, catalogueVars
<1>4. PICK c \in Clients : updateRecipe(c)
  BY <1>1, <1>2, <1>3, CatalogueNext
     DEF CatalogueNext, removeUnit, removeProduct, restoreProduct, updateBatch,
         createBatch, createSupplier, removeSupplier, startOrder, completeOrder
<1>5. /\ req[c].kind = "updateRecipe"
      /\ recipe' = [recipe EXCEPT ![req[c].recipe] = Patched(@, req[c].patch)]
  BY <1>4 DEF updateRecipe, At
<1>6. req[c].recipe = r
  BY <1>5 DEF SameBill
<1>7. Structural(req[c])
  BY <1>5, <1>6 DEF SameBill, Structural, Patched, RecipeInv, RecipesShaped
<1> QED BY <1>5, <1>6, <1>7

(* A bill changes only under orders that came after the check: whoever runs  *)
(* updateRecipe, the orders that existed when it looked are closed.         *)
THEOREM OrdersKeepTheirBills == Spec => BillsChangeOnlyUnderNewOrders
<1> DEFINE Change ==
      \A r \in DOMAIN recipe :
        \/ recipe'[r].output = recipe[r].output /\ recipe'[r].items = recipe[r].items
        \/ \E c \in Clients :
             /\ req[c].kind = "updateRecipe" /\ req[c].recipe = r
             /\ \A o \in req[c].seen : porder[o].recipe = r => ~Open(o)
<1>1. RecipeInv /\ RequestsTyped /\ [Next]_vars => [Change]_catalogueVars
  <2> SUFFICES ASSUME RecipeInv, [Next]_vars, ~UNCHANGED catalogueVars,
                      NEW r \in DOMAIN recipe, ~SameBill(r)
               PROVE  \E c \in Clients :
                        /\ req[c].kind = "updateRecipe" /\ req[c].recipe = r
                        /\ \A o \in req[c].seen : porder[o].recipe = r => ~Open(o)
    BY DEF SameBill
  <2>1. CatalogueNext
    BY DEF Next, vars
  <2>2. PICK c \in Clients : /\ req[c].kind = "updateRecipe" /\ req[c].recipe = r
                             /\ Structural(req[c])
    BY <2>1, OnlyUpdatesChangeBills
  <2> QED BY <2>2 DEF RecipeInv, RecipeRequestOK, Checked
<1> QED BY <1>1, RecipeInvariant, PTL DEF Spec, BillsChangeOnlyUnderNewOrders

-----------------------------------------------------------------------------
(* Sessions belong to accounts that have been handed over.  The link is the *)
(* password: an account has one only if its address is its own, a login     *)
(* needs a password, and an address never becomes a placeholder again.      *)
(* Requests that have read an account carry the fact on to what they write. *)

Fields == {"role", "status", "email", "password", "store"}
Own(u) == u \in DOMAIN account /\ account[u].email # Placeholder(u)

AccountRequestOK(r) ==
  /\ r.kind \in {"login", "refresh", "reset"} => Own(r.user)
  /\ r.kind = "refresh" => DOMAIN r = {"kind", "step", "token", "user"}
  /\ r.kind = "reset" => DOMAIN r = {"kind", "step", "code", "user"}
  /\ r.kind \in {"approve", "reject"} => r.user \in DOMAIN account
  /\ r.kind = "approve" => r.email.suffix # 0
  /\ r.kind = "createUser" => DOMAIN r.row = Fields /\ r.row.email.suffix # 0

AccountsOK ==
  \A u \in DOMAIN account :
    DOMAIN account[u] = Fields /\ (account[u].password # "unknown" => Own(u))

CodeShape == [user : SUBSET Users, expiresAt : Nat, isUsed : BOOLEAN]
CodesOK ==
  /\ instant \in Nat /\ code \in Seq(CodeShape)
  /\ \A i \in DOMAIN code : code[i].user \subseteq DOMAIN account
SessionsOK == \A t \in DOMAIN session : Own(session[t].user)

AccountInv ==
  /\ AccountsOK /\ SessionsOK /\ CodesOK
  /\ \A c \in Clients : AccountRequestOK(req[c])

LEMMA AccountStart == Init => AccountInv
<1> SUFFICES ASSUME Init PROVE AccountInv
  OBVIOUS
<1>1. \A c \in Clients : req[c].kind = "idle"
  BY DEF Init, RequestsInit, Idle
<1>2. /\ DOMAIN account = {} /\ DOMAIN session = {}
      /\ code = << >> /\ instant = 0
  BY DEF Init, AccountInit
<1> QED BY <1>1, <1>2 DEF AccountInv, AccountsOK, SessionsOK, CodesOK, AccountRequestOK

LEMMA NoPlaceholder ==
  ASSUME NEW u, NEW email, email.suffix # 0
  PROVE  email # Placeholder(u)
BY DEF Placeholder

(* A step that leaves the accounts alone. *)
LEMMA AccountsKept ==
  ASSUME AccountInv, UNCHANGED account, SessionsOK', CodesOK',
         \A d \in Clients : req'[d] = req[d] \/ AccountRequestOK(req'[d])
  PROVE  AccountInv'
<1>1. \A u : Own(u)' <=> Own(u)
  BY DEF Own, Placeholder
<1>2. \A d \in Clients : AccountRequestOK(req'[d])
  BY DEF AccountInv
<1>3. \A d \in Clients : AccountRequestOK(req[d])'
  BY <1>1, <1>2 DEF AccountRequestOK, Own
<1> QED BY <1>1, <1>3 DEF AccountInv, AccountsOK

(* A step that leaves the tables of the service alone. *)
LEMMA AccountTablesKept ==
  ASSUME AccountInv, UNCHANGED <<instant, account, session, code>>,
         \A d \in Clients : req'[d] = req[d] \/ AccountRequestOK(req'[d])
  PROVE  AccountInv'
<1>1. SessionsOK' /\ CodesOK'
  BY DEF AccountInv, SessionsOK, CodesOK, Own, Placeholder
<1> QED BY <1>1, AccountsKept

LEMMA ApartFromAccounts ==
  ASSUME NEW K, AccountInv, Within(K), K \cap AccountKinds = {}, UNCHANGED accountVars
  PROVE  AccountInv'
<1>1. \A d \in Clients : req'[d] = req[d] \/ AccountRequestOK(req'[d])
  BY DEF Within, AccountRequestOK, AccountKinds
<1> QED BY <1>1, AccountTablesKept DEF accountVars

(* A statement that writes accounts, of which none is deleted and none gets  *)
(* a placeholder for an address.                                           *)
LEMMA AccountsWritten ==
  ASSUME AccountInv, AccountsOK', UNCHANGED <<instant, session, code>>,
         \A u \in DOMAIN account : u \in DOMAIN account' /\ (Own(u) => Own(u)'),
         \A d \in Clients : req'[d] = req[d] \/ req'[d] = Idle
           \/ /\ req'[d].kind = "reset" /\ req[d].kind = "reset"
              /\ req'[d].user = req[d].user /\ DOMAIN req'[d] = DOMAIN req[d]
  PROVE  AccountInv'
<1>1. SessionsOK'
  BY DEF AccountInv, SessionsOK, Own
<1>2. CodesOK'
  BY DEF AccountInv, CodesOK
<1>3. ASSUME NEW d \in Clients PROVE AccountRequestOK(req[d])'
  <2>1. \A u : Own(u) => Own(u)'
    BY DEF Own
  <2> QED BY <2>1 DEF AccountInv, AccountRequestOK, Idle
<1> QED BY <1>1, <1>2, <1>3 DEF AccountInv

LEMMA StoreNextKeeps ==
  ASSUME AccountInv, RequestsTyped, NEW s,
         \/ createStore(s) \/ removeStore(s)
         \/ \E c \in Clients : ArriveUpdateStore(c, s) \/ updateStore(c)
  PROVE  AccountInv'
<1>1. UNCHANGED <<instant, account, session, code>>
  BY DEF createStore, removeStore, ArriveUpdateStore, updateStore, accountVars
<1>2. ASSUME NEW c \in Clients, ArriveUpdateStore(c, s)
      PROVE  \A d \in Clients : req'[d] = req[d] \/ AccountRequestOK(req'[d])
  BY <1>2, RequestsTyped
     DEF ArriveUpdateStore, Becomes, RequestsTyped, AccountRequestOK
<1>3. ASSUME NEW c \in Clients, updateStore(c)
      PROVE  \A d \in Clients : req'[d] = req[d] \/ AccountRequestOK(req'[d])
  BY <1>3, RequestsTyped DEF updateStore, Done, Idle, RequestsTyped, AccountRequestOK
<1>4. \A d \in Clients : req'[d] = req[d] \/ AccountRequestOK(req'[d])
  BY <1>2, <1>3 DEF createStore, removeStore, Immediate
<1> QED BY <1>1, <1>4, AccountTablesKept

LEMMA StaffRequestKeeps ==
  ASSUME AccountInv, RequestsTyped, NEW c \in Clients, StaffRequest(c)
  PROVE  AccountInv'
<1>a. ASSUME UNCHANGED accountVars, NEW r, Becomes(c, r), AccountRequestOK(r)
      PROVE  AccountInv'
  <2>1. \A d \in Clients : req'[d] = req[d] \/ AccountRequestOK(req'[d])
    BY <1>a, RequestsTyped DEF Becomes, RequestsTyped
  <2> QED BY <1>a, <2>1, AccountTablesKept DEF accountVars
<1>b. ASSUME Done(c)
      PROVE  \A d \in Clients : req'[d] = req[d] \/ req'[d] = Idle
  BY <1>b, RequestsTyped DEF Done, RequestsTyped
<1>1. ASSUME NEW S, NEW s, ArriveStaffRequest(c, S, s) PROVE AccountInv'
  BY <1>1, <1>a DEF ArriveStaffRequest, AccountRequestOK
<1>2. ASSUME NEW u, ArriveRejectStaff(c, u) PROVE AccountInv'
  BY <1>2, <1>a DEF ArriveRejectStaff, IsPendingStaff, Exists, AccountRequestOK
<1>3. ASSUME NEW u, ArriveApproveStaff(c, u) PROVE AccountInv'
  <2>1. PICK n \in 1..MaxSuffix :
          Becomes(c, [kind |-> "approve", step |-> "update", user |-> u,
                      email |-> formatStaffEmail(BaseOf[u], n)])
    BY <1>3 DEF ArriveApproveStaff, FreeSuffixes
  <2>2. formatStaffEmail(BaseOf[u], n).suffix # 0
    BY AccountAssumption DEF formatStaffEmail
  <2> QED BY <1>3, <2>1, <2>2, <1>a
          DEF ArriveApproveStaff, IsPendingStaff, Exists, AccountRequestOK
<1>4. ASSUME NEW u, ArriveCreateUser(c, u) PROVE AccountInv'
  <2>1. PICK role \in RoleChoices \ {"admin", Staff}, email \in AddressChoices,
             S \in {{}} \cup {{k} : k \in DOMAIN store} :
          Becomes(c, [kind |-> "createUser", step |-> "insert", user |-> u,
                      row |-> [role |-> role, status |-> "active", email |-> email,
                               password |-> "chosen", store |-> S]])
    BY <1>4 DEF ArriveCreateUser
  <2> QED BY <1>4, <2>1, <1>a, AccountAssumption
          DEF ArriveCreateUser, AccountRequestOK, Fields
<1>5. CASE insertStaffUsers(c)
  <2> PICK S, s : S = req[c].users /\ s = req[c].store
    OBVIOUS
  <2>1. /\ UNCHANGED <<instant, session, code>> /\ Done(c)
        /\ account' = [u \in DOMAIN account \cup S |->
                         IF u \in DOMAIN account THEN account[u]
                         ELSE PendingRow(u, s, "unknown")]
    BY <1>5 DEF insertStaffUsers, Exists
  <2>2. \A u \in DOMAIN account : u \in DOMAIN account' /\ account'[u] = account[u]
    BY <2>1
  <2>3. \A u \in DOMAIN account' \ DOMAIN account :
          DOMAIN account'[u] = Fields /\ account'[u].password = "unknown"
    BY <2>1 DEF PendingRow, Fields
  <2>4. \A u \in DOMAIN account : Own(u) => Own(u)'
    BY <2>2 DEF Own, Placeholder
  <2>5. AccountsOK'
    BY <2>2, <2>3, <2>4 DEF AccountInv, AccountsOK
  <2> QED BY <2>1, <2>2, <2>4, <2>5, <1>b, AccountsWritten
<1>6. ASSUME NEW u \in DOMAIN account, Done(c), UNCHANGED <<instant, session, code>>,
             DOMAIN account' = DOMAIN account, DOMAIN account'[u] = Fields,
             \A k \in DOMAIN account \ {u} : account'[k] = account[k],
             \/ /\ account'[u].email = account[u].email
                /\ account'[u].password = account[u].password
             \/ account'[u].email # Placeholder(u)
      PROVE  AccountInv'
  <2>1. \A k \in DOMAIN account : Own(k) => Own(k)'
    BY <1>6 DEF Own, Placeholder
  <2>2. AccountsOK'
    BY <1>6 DEF AccountInv, AccountsOK, Own, Placeholder
  <2> QED BY <1>6, <2>1, <2>2, <1>b, AccountsWritten
<1>7. CASE rejectStaff(c)
  <2> PICK u : u = req[c].user
    OBVIOUS
  <2>1. /\ UNCHANGED <<instant, session, code>> /\ Done(c) /\ u \in DOMAIN account
        /\ account' = [account EXCEPT ![u].status = "rejected"]
    BY <1>7 DEF rejectStaff, At, AccountInv, AccountRequestOK
  <2>2. DOMAIN account[u] = Fields
    BY <2>1 DEF AccountInv, AccountsOK
  <2>3. /\ DOMAIN account' = DOMAIN account /\ DOMAIN account'[u] = Fields
        /\ \A k \in DOMAIN account \ {u} : account'[k] = account[k]
        /\ account'[u].email = account[u].email
        /\ account'[u].password = account[u].password
    BY <2>1, <2>2 DEF Fields
  <2> QED BY <2>1, <2>3, <1>6
<1>8. CASE approveStaff(c)
  <2> PICK u, email : u = req[c].user /\ email = req[c].email
    OBVIOUS
  <2>1. /\ UNCHANGED <<instant, session, code>> /\ Done(c) /\ u \in DOMAIN account
        /\ account' = [account EXCEPT ![u].email = email, ![u].password = "default",
                                      ![u].status = "active"]
        /\ email.suffix # 0
    BY <1>8 DEF approveStaff, At, AccountInv, AccountRequestOK
  <2>2. DOMAIN account[u] = Fields
    BY <2>1 DEF AccountInv, AccountsOK
  <2>3. /\ DOMAIN account' = DOMAIN account /\ DOMAIN account'[u] = Fields
        /\ \A k \in DOMAIN account \ {u} : account'[k] = account[k]
        /\ account'[u].email = email
    BY <2>1, <2>2 DEF Fields
  <2> QED BY <2>1, <2>3, <1>6, NoPlaceholder
<1>9. CASE createUser(c)
  <2> PICK u, row : u = req[c].user /\ row = req[c].row
    OBVIOUS
  <2>1. /\ UNCHANGED <<instant, session, code>> /\ Done(c) /\ u \notin DOMAIN account
        /\ account' = [k \in DOMAIN account \cup {u} |->
                         IF k = u THEN row ELSE account[k]]
        /\ DOMAIN row = Fields /\ row.email.suffix # 0
    BY <1>9 DEF createUser, Insert, Exists, At, AccountInv, AccountRequestOK
  <2>2. \A k \in DOMAIN account : k \in DOMAIN account' /\ account'[k] = account[k]
    BY <2>1
  <2>3. account'[u].email # Placeholder(u)
    BY <2>1, NoPlaceholder
  <2>4. AccountsOK'
    BY <2>1, <2>2, <2>3 DEF AccountInv, AccountsOK, Own, Placeholder
  <2> QED BY <2>1, <2>2, <2>4, <1>b, AccountsWritten DEF Own, Placeholder
<1> QED BY <1>1, <1>2, <1>3, <1>4, <1>5, <1>7, <1>8, <1>9 DEF StaffRequest

LEMMA ByHandKeeps ==
  ASSUME AccountInv, RequestsTyped, NEW u, updateUserByAdmin(u)
  PROVE  AccountInv'
<1>1. PICK st, role : account' = [account EXCEPT ![u].status = st, ![u].role = role]
  BY DEF updateUserByAdmin
<1>2. /\ UNCHANGED <<instant, session, code>> /\ req' = req /\ u \in DOMAIN account
  BY DEF updateUserByAdmin, Immediate, Exists
<1>3. DOMAIN account[u] = Fields
  BY <1>2 DEF AccountInv, AccountsOK
<1>4. /\ DOMAIN account' = DOMAIN account /\ DOMAIN account'[u] = Fields
      /\ \A k \in DOMAIN account \ {u} : account'[k] = account[k]
      /\ account'[u].email = account[u].email
      /\ account'[u].password = account[u].password
  BY <1>1, <1>2, <1>3 DEF Fields
<1>5. AccountsOK' /\ \A k \in DOMAIN account : Own(k) => Own(k)'
  BY <1>2, <1>4 DEF AccountInv, AccountsOK, Own, Placeholder
<1> QED BY <1>2, <1>4, <1>5, AccountsWritten

(* A token is issued to the user a request has read, and tokens go. *)
LEMMA SessionRequestKeeps ==
  ASSUME AccountInv, RequestsTyped, NEW c \in Clients, SessionRequest(c)
  PROVE  AccountInv'
<1>a. ASSUME UNCHANGED accountVars, NEW r, Becomes(c, r), AccountRequestOK(r)
      PROVE  AccountInv'
  <2>1. \A d \in Clients : req'[d] = req[d] \/ AccountRequestOK(req'[d])
    BY <1>a, RequestsTyped DEF Becomes, RequestsTyped
  <2> QED BY <1>a, <2>1, AccountTablesKept DEF accountVars
<1>b. ASSUME Done(c)
      PROVE  \A d \in Clients : req'[d] = req[d] \/ req'[d] = Idle
  BY <1>b, RequestsTyped DEF Done, RequestsTyped
<1>c. AccountRequestOK(Idle)
  BY DEF AccountRequestOK, Idle
<1>1. ASSUME NEW u, ArriveLogin(c, u) PROVE AccountInv'
  BY <1>1, <1>a DEF ArriveLogin, Exists, AccountInv, AccountsOK, AccountRequestOK
<1>2. ASSUME NEW t \in DOMAIN session, ArriveRefresh(c, t) PROVE AccountInv'
  BY <1>2, <1>a DEF ArriveRefresh, AccountInv, SessionsOK, AccountRequestOK
<1>3. CASE deleteRefreshToken(c)
  <2>1. /\ UNCHANGED <<instant, account, code>>
        /\ \A t \in DOMAIN session' : t \in DOMAIN session /\ session'[t] = session[t]
    BY <1>3 DEF deleteRefreshToken, Without
  <2>2. req[c].kind = "refresh" /\ AccountRequestOK(req[c])
    BY <1>3 DEF deleteRefreshToken, At, AccountInv
  <2>3. \A d \in Clients : req'[d] = req[d] \/ AccountRequestOK(req'[d])
    BY <1>3, <2>2, RequestsTyped
       DEF deleteRefreshToken, GoesTo, RequestsTyped, AccountRequestOK
  <2>4. SessionsOK' /\ CodesOK'
    BY <2>1 DEF AccountInv, SessionsOK, CodesOK, Own, Placeholder
  <2> QED BY <2>1, <2>3, <2>4, AccountsKept
<1>4. CASE saveRefreshToken(c)
  <2> PICK u : u = req[c].user
    OBVIOUS
  <2>1. Own(u)
    BY <1>4 DEF saveRefreshToken, At, AccountInv, AccountRequestOK
  <2>2. /\ UNCHANGED <<instant, account, code>> /\ Done(c)
        /\ session' = [t \in DOMAIN session \cup {issued'} |->
             IF t = issued' THEN [user |-> u, expiresAt |-> instant + SessionLife]
             ELSE session[t]]
    BY <1>4 DEF saveRefreshToken
  <2>3. \A t \in DOMAIN session' : Own(session'[t].user)
    BY <2>1, <2>2 DEF AccountInv, SessionsOK
  <2>4. SessionsOK' /\ CodesOK'
    BY <2>2, <2>3 DEF AccountInv, SessionsOK, CodesOK, Own, Placeholder
  <2> QED BY <2>2, <2>4, <1>b, <1>c, AccountsKept
<1>5. ASSUME NEW i \in DOMAIN code, ArriveReset(c, i) PROVE AccountInv'
  <2>1. PICK u \in code[i].user : account[u].email # Placeholder(u) /\
          Becomes(c, [kind |-> "reset", step |-> "password", code |-> i, user |-> u])
    <3>1. PICK u : u \in code[i].user
      BY <1>5 DEF ArriveReset, Deleted
    <3> QED BY <1>5, <3>1 DEF ArriveReset
  <2>2. Own(u)
    BY <2>1 DEF AccountInv, CodesOK, Own
  <2> QED BY <1>5, <2>1, <2>2, <1>a DEF ArriveReset, AccountRequestOK
<1>6. CASE updateUserPassword(c)
  <2> PICK u : u = req[c].user
    OBVIOUS
  <2>1. req[c].kind = "reset" /\ Own(u) /\ AccountRequestOK(req[c])
    BY <1>6 DEF updateUserPassword, At, AccountInv, AccountRequestOK
  <2>2. /\ UNCHANGED <<instant, session, code>> /\ u \in DOMAIN account
        /\ account' = [account EXCEPT ![u].password = "chosen"]
    BY <1>6, <2>1 DEF updateUserPassword, Own
  <2>3. DOMAIN account[u] = Fields
    BY <2>2 DEF AccountInv, AccountsOK
  <2>4. /\ DOMAIN account' = DOMAIN account /\ DOMAIN account'[u] = Fields
        /\ \A k \in DOMAIN account \ {u} : account'[k] = account[k]
        /\ account'[u].email = account[u].email
    BY <2>2, <2>3 DEF Fields
  <2>5. \A k \in DOMAIN account : Own(k) => Own(k)'
    BY <2>4 DEF Own, Placeholder
  <2>6. AccountsOK'
    BY <2>1, <2>4, <2>5 DEF AccountInv, AccountsOK
  <2>7. \A d \in Clients : req'[d] = req[d]
          \/ /\ req'[d].kind = "reset" /\ req[d].kind = "reset"
             /\ req'[d].user = req[d].user /\ DOMAIN req'[d] = DOMAIN req[d]
    BY <1>6, <2>1, RequestsTyped
       DEF updateUserPassword, GoesTo, RequestsTyped, AccountRequestOK
  <2> QED BY <2>2, <2>4, <2>5, <2>6, <2>7, AccountsWritten
<1>7. CASE markOtpAsUsed(c)
  <2> PICK i : i = req[c].code
    OBVIOUS
  <2>1. /\ UNCHANGED <<instant, session, account>> /\ Done(c)
        /\ code' = [code EXCEPT ![i].isUsed = TRUE]
    BY <1>7 DEF markOtpAsUsed
  <2>2. DOMAIN code' = DOMAIN code
        /\ \A k \in DOMAIN code : code'[k] \in CodeShape /\ code'[k].user = code[k].user
    <3>1. \A k \in DOMAIN code : code[k] \in CodeShape
      BY DEF AccountInv, CodesOK
    <3> QED BY <2>1, <3>1 DEF CodeShape
  <2>3. code' \in Seq(CodeShape)
    <3>1. DOMAIN code = 1..Len(code) /\ Len(code) \in Nat
      BY DEF AccountInv, CodesOK
    <3>2. code' = [k \in 1..Len(code) |-> code'[k]]
      BY <2>1, <3>1
    <3> QED BY <2>2, <3>1, <3>2, SMT
  <2>4. SessionsOK' /\ CodesOK'
    BY <2>1, <2>2, <2>3 DEF AccountInv, SessionsOK, CodesOK, Own, Placeholder
  <2> QED BY <2>1, <2>4, <1>b, <1>c, AccountsKept
<1> QED BY <1>1, <1>2, <1>3, <1>4, <1>5, <1>6, <1>7 DEF SessionRequest

LEMMA JobsKeep ==
  ASSUME AccountInv, RequestsTyped,
         \/ \E u \in Users : forgotPassword(u)
         \/ \E t \in DOMAIN session : logout(t)
         \/ clearExpiredTokens \/ clearExpiredOtp \/ Tick
  PROVE  AccountInv'
<1>1. ASSUME NEW u \in Users, forgotPassword(u) PROVE AccountInv'
  <2>1. /\ UNCHANGED <<account, session, instant>> /\ req' = req /\ u \in DOMAIN account
        /\ code' = Append(code, [user |-> {u}, expiresAt |-> instant + CodeLife,
                                 isUsed |-> FALSE])
    BY <1>1 DEF forgotPassword, Immediate, Exists
  <2>2. [user |-> {u}, expiresAt |-> instant + CodeLife, isUsed |-> FALSE] \in CodeShape
    BY AccountAssumption DEF AccountInv, CodesOK, CodeShape
  <2>3. CodesOK'
    BY <2>1, <2>2 DEF AccountInv, CodesOK
  <2>4. SessionsOK'
    BY <2>1 DEF AccountInv, SessionsOK, Own, Placeholder
  <2> QED BY <2>1, <2>3, <2>4, AccountsKept
<1>2. CASE (\E t \in DOMAIN session : logout(t)) \/ clearExpiredTokens
  <2>1. /\ UNCHANGED <<instant, account, code>> /\ req' = req
        /\ \A t \in DOMAIN session' : t \in DOMAIN session /\ session'[t] = session[t]
    BY <1>2 DEF logout, clearExpiredTokens, Without, Immediate
  <2>2. SessionsOK' /\ CodesOK'
    BY <2>1 DEF AccountInv, SessionsOK, CodesOK, Own, Placeholder
  <2> QED BY <2>1, <2>2, AccountsKept
<1>3. CASE clearExpiredOtp
  <2>1. /\ UNCHANGED <<instant, account, session>> /\ req' = req
        /\ code' = [i \in DOMAIN code |->
              IF code[i].expiresAt < instant THEN [code[i] EXCEPT !.user = {}] ELSE code[i]]
    BY <1>3 DEF clearExpiredOtp, Immediate
  <2>2. ASSUME NEW i \in DOMAIN code
        PROVE  code'[i] \in CodeShape /\ code'[i].user \subseteq code[i].user
    <3>1. code[i] \in CodeShape
      BY DEF AccountInv, CodesOK
    <3>2. code'[i] = code[i] \/ code'[i] = [code[i] EXCEPT !.user = {}]
      BY <2>1
    <3> QED BY <3>1, <3>2 DEF CodeShape
  <2>3. DOMAIN code' = DOMAIN code /\ DOMAIN code = 1..Len(code) /\ Len(code) \in Nat
    BY <2>1 DEF AccountInv, CodesOK
  <2>4. code' \in Seq(CodeShape)
    <3>1. code' = [i \in 1..Len(code) |-> code'[i]]
      BY <2>1, <2>3
    <3> QED BY <2>2, <2>3, <3>1, SMT
  <2>5. SessionsOK' /\ CodesOK'
    BY <2>1, <2>2, <2>3, <2>4 DEF AccountInv, SessionsOK, CodesOK, Own, Placeholder
  <2> QED BY <2>1, <2>5, AccountsKept
<1>4. CASE Tick
  <2>1. /\ UNCHANGED <<account, session, code>> /\ req' = req /\ instant' = instant + 1
    BY <1>4 DEF Tick, Immediate
  <2>2. SessionsOK' /\ CodesOK'
    BY <2>1 DEF AccountInv, SessionsOK, CodesOK, Own, Placeholder
  <2> QED BY <2>1, <2>2, AccountsKept
<1> QED BY <1>1, <1>2, <1>3, <1>4

LEMMA AccountInvariant == Spec => []AccountInv
<1>1. AccountInv /\ RequestsTyped /\ [Next]_vars => AccountInv'
  <2> SUFFICES ASSUME AccountInv, RequestsTyped, [Next]_vars PROVE AccountInv'
    OBVIOUS
  <2>0. ASSUME UNCHANGED accountVars,
               \A d \in Clients : req'[d] = req[d] \/ AccountRequestOK(req'[d])
        PROVE  AccountInv'
    BY <2>0, AccountTablesKept DEF accountVars
  <2>1. CASE AccountNext
    BY <2>1, StoreNextKeeps, StaffRequestKeeps, SessionRequestKeeps, ByHandKeeps, JobsKeep
       DEF AccountNext, StoreRequest
  <2>2. CASE CatalogueNext /\ UNCHANGED accountVars
    BY <2>2, CatalogueWithin, ApartFromAccounts DEF AccountKinds, CatalogueKinds
  <2>3. CASE LogisticsNext /\ UNCHANGED accountVars
    BY <2>3, LogisticsWithin, ApartFromAccounts DEF AccountKinds, LogisticsKinds
  <2>4. CASE (LedgerNext \/ ReaderNext) /\ UNCHANGED accountVars
    BY <2>4, LedgerWithin, ApartFromAccounts DEF AccountKinds, LedgerKinds
  <2>5. CASE ConfigNext /\ UNCHANGED accountVars
    <3>1. CASE Within(ConfigKinds)
      BY <2>5, <3>1, ApartFromAccounts DEF AccountKinds, ConfigKinds
    <3>2. CASE Restarted
      BY <2>0, <2>5, <3>2 DEF Restarted, Idle, AccountRequestOK
    <3> QED BY <2>5, <3>1, <3>2, ConfigWithin
  <2>6. ASSUME NEW c \in Clients, Fail(c), UNCHANGED accountVars PROVE AccountInv'
    <3>1. \A d \in Clients : req'[d] = req[d] \/ AccountRequestOK(req'[d])
      BY <2>6, FailWithin, RequestsTyped
         DEF Done, RequestsTyped, AccountRequestOK, Idle
    <3> QED BY <2>0, <2>6, <3>1
  <2>7. CASE UNCHANGED vars
    BY <2>0, <2>7 DEF vars
  <2> QED BY <2>1, <2>2, <2>3, <2>4, <2>5, <2>6, <2>7 DEF Next
<1> QED BY AccountStart, <1>1, RequestsStayTyped, PTL DEF Spec

(* Nobody holds a session for an account whose address is still the one the  *)
(* request gave it: neither before the approval, nor after a status set by   *)
(* hand, nor through a reset, however the requests overlap.                 *)
THEOREM SessionsAreOfOwners == Spec => []OnlyHandedOverAccountsSignIn
<1>1. AccountInv => OnlyHandedOverAccountsSignIn
  BY DEF AccountInv, SessionsOK, Own, OnlyHandedOverAccountsSignIn
<1> QED BY <1>1, AccountInvariant, PTL

-----------------------------------------------------------------------------
(* The ledger and the stock.                                               *)

(* Whether an entry of the ledger counts for the quantity of a row, and what *)
(* the entries of l say of it together.                                      *)
Counts(e, r) == e.at = r[1] /\ e.batch = r[2] /\ Moved(e)
ChangeOf(l, r) == [i \in DOMAIN l |-> IF Counts(l[i], r) THEN l[i].change ELSE 0]
Booked(l, r) == SumOver(ChangeOf(l, r), DOMAIN l)

Entries == Seq(TransactionRow)

LEMMA EntriesFinite ==
  ASSUME NEW l \in Entries
  PROVE  /\ Len(l) \in Nat /\ DOMAIN l = 1..Len(l) /\ IsFiniteSet(DOMAIN l)
         /\ \A i \in DOMAIN l : l[i] \in TransactionRow /\ l[i].change \in Int
         /\ \A r : Ints(ChangeOf(l, r), DOMAIN l) /\ Booked(l, r) \in Int
<1>1. Len(l) \in Nat /\ DOMAIN l = 1..Len(l)
  BY DEF Entries
<1>2. IsFiniteSet(DOMAIN l)
  BY <1>1, FS_Interval
<1>3. \A i \in DOMAIN l : l[i] \in TransactionRow /\ l[i].change \in Int
  <2>1. \A i \in DOMAIN l : l[i] \in TransactionRow
    BY <1>1 DEF Entries
  <2> QED
    BY <2>1 DEF TransactionRow
<1>4. ASSUME NEW r PROVE Ints(ChangeOf(l, r), DOMAIN l)
  BY <1>3 DEF Ints, ChangeOf
<1> QED
  BY <1>1, <1>2, <1>3, <1>4, SumType DEF Booked

(* What the reports read of the ledger is this sum. *)
LEMMA ChangesAreBooked ==
  ASSUME ledger \in Entries, NEW r
  PROVE  Changes({r[1]}, LAMBDA e : e.batch = r[2] /\ Moved(e)) = Booked(ledger, r)
<1> DEFINE P == {k \in DOMAIN ledger :
                   ledger[k].at \in {r[1]} /\ (ledger[k].batch = r[2] /\ Moved(ledger[k]))}
           f == [i \in P |-> ledger[i].change]
<1>1. Changes({r[1]}, LAMBDA e : e.batch = r[2] /\ Moved(e)) = Total(f)
  BY DEF Changes
<1>2. Total(f) = SumOver(f, P)
  BY TotalIsSum
<1>3. \A i \in DOMAIN ledger : ledger[i].change \in Int
  BY EntriesFinite
<1>4. Ints(f, P) /\ P \subseteq DOMAIN ledger
  BY <1>3 DEF Ints
<1>5. \A i \in DOMAIN ledger : ChangeOf(ledger, r)[i] = IF i \in P THEN f[i] ELSE 0
  BY DEF ChangeOf, Counts
<1>6. IsFiniteSet(DOMAIN ledger)
  BY EntriesFinite
<1> HIDE DEF P, f
<1>7. SumOver(ChangeOf(ledger, r), DOMAIN ledger) = SumOver(f, P)
  BY <1>4, <1>5, <1>6, SumOfSome
<1> QED
  BY <1>1, <1>2, <1>7 DEF Booked

(* What is written behind it adds up. *)
LEMMA BookedMore ==
  ASSUME NEW l \in Entries, NEW m \in Entries, NEW r
  PROVE  l \o m \in Entries /\ Booked(l \o m, r) = Booked(l, r) + Booked(m, r)
<1> DEFINE n == Len(l)
           all == ChangeOf(l \o m, r)
           key == [k \in DOMAIN m |-> n + k]
           Later == {key[k] : k \in DOMAIN m}
<1>1. /\ l \o m \in Entries /\ DOMAIN (l \o m) = 1..(n + Len(m))
      /\ \A i \in DOMAIN l : (l \o m)[i] = l[i]
      /\ \A i \in DOMAIN m : (l \o m)[n + i] = m[i]
      /\ n \in Nat /\ DOMAIN l = 1..n /\ Len(m) \in Nat /\ DOMAIN m = 1..Len(m)
  BY DEF Entries
<1>2. /\ IsFiniteSet(DOMAIN l) /\ IsFiniteSet(DOMAIN m)
      /\ Ints(ChangeOf(l, r), DOMAIN l) /\ Ints(ChangeOf(m, r), DOMAIN m)
      /\ Ints(all, DOMAIN (l \o m)) /\ IsFiniteSet(DOMAIN (l \o m))
  BY <1>1, EntriesFinite
<1>3. \A i \in DOMAIN l : i \in DOMAIN (l \o m) /\ all[i] = ChangeOf(l, r)[i]
  BY <1>1 DEF ChangeOf
<1>4. \A k \in DOMAIN m : /\ key[k] \in DOMAIN (l \o m)
                          /\ all[key[k]] = ChangeOf(m, r)[k] /\ ChangeOf(m, r)[k] \in Int
  BY <1>1, <1>2 DEF ChangeOf, Ints
<1>5. \A x, y \in DOMAIN m : key[x] = key[y] => x = y
  BY <1>1
<1>6. ASSUME NEW i \in DOMAIN (l \o m), i \notin DOMAIN l PROVE i \in Later
  <2>1. i - n \in DOMAIN m /\ key[i - n] = i
    BY <1>1, <1>6
  <2> QED
    BY <2>1
<1>7. DOMAIN l \cup Later = DOMAIN (l \o m) /\ DOMAIN l \cap Later = {}
  BY <1>1, <1>6
<1>8. SumOver(all, DOMAIN l) = Booked(l, r)
  BY <1>2, <1>3, SumSame DEF Booked
<1> HIDE DEF key, all, n
<1>9. IsFiniteSet(Later) /\ SumOver(all, Later) = Booked(m, r)
  BY <1>2, <1>4, <1>5, SumRenamed DEF Booked
<1> HIDE DEF Later
<1>10. Ints(all, DOMAIN l) /\ Ints(all, Later)
  BY <1>2, <1>7 DEF Ints
<1>11. SumOver(all, DOMAIN l \cup Later) = SumOver(all, DOMAIN l) + SumOver(all, Later)
  BY <1>2, <1>7, <1>9, <1>10, SumUnion
<1>12. SumOver(all, DOMAIN l \cup Later) = SumOver(all, DOMAIN (l \o m))
  BY <1>7, Zenon
<1>13. Booked(l \o m, r) = SumOver(all, DOMAIN (l \o m))
  BY DEF Booked, all
<1> QED
  BY <1>1, <1>8, <1>9, <1>11, <1>12, <1>13

(* Entries of other rows, reservations and releases leave a row alone. *)
LEMMA BookedNothing ==
  ASSUME NEW m \in Entries, NEW r, \A i \in DOMAIN m : ~Counts(m[i], r)
  PROVE  Booked(m, r) = 0
<1>1. \A i \in DOMAIN m : ChangeOf(m, r)[i] = 0
  BY DEF ChangeOf
<1> QED
  BY <1>1, EntriesFinite, SumOfZeros DEF Booked

LEMMA BookedOne ==
  ASSUME NEW e \in TransactionRow, NEW r
  PROVE  /\ <<e>> \in Entries
         /\ Booked(<<e>>, r) = IF Counts(e, r) THEN e.change ELSE 0
<1>1. DOMAIN <<e>> = {1} /\ <<e>>[1] = e /\ <<e>> \in Entries
  BY DEF Entries
<1>2. ChangeOf(<<e>>, r)[1] = IF Counts(e, r) THEN e.change ELSE 0
  BY <1>1 DEF ChangeOf
<1>3. ChangeOf(<<e>>, r)[1] \in Int
  BY <1>2 DEF TransactionRow
<1>4. SumOver(ChangeOf(<<e>>, r), {1}) = ChangeOf(<<e>>, r)[1]
  BY <1>3, SumSingle
<1> QED
  BY <1>1, <1>2, <1>4 DEF Booked

-----------------------------------------------------------------------------
(* The rows of the stock, of the ledger and of what is held.               *)
InventoryTyped ==
  /\ inventory = [r \in DOMAIN inventory |-> inventory[r]]
  /\ DOMAIN inventory \subseteq Places \X Batches
  /\ \A r \in DOMAIN inventory : inventory[r] \in InventoryRow /\ Known(r[2])

StatusTyped ==
  /\ batchStatus \in [Batches -> BatchStatus \cup {"none"}]
  /\ IsFiniteSet({b \in Batches : Known(b)})

HoldsTyped ==
  /\ hold \in Seq(HoldRow)
  /\ \A i \in DOMAIN hold : Stocked(<<"kitchen", hold[i].batch>>)

LedgerTyped ==
  /\ InventoryTyped /\ StatusTyped /\ HoldsTyped
  /\ day \in 0..LastDay
  /\ ledger \in Entries /\ claimItem \in Seq(ClaimItemRow)
  /\ doubtful \subseteq DOMAIN inventory

(* A row that is not there is explained by no entries, too: a credit may    *)
(* create it.                                                              *)
Balanced ==
  \A r \in (Places \X Batches) \ doubtful : RowOf(r).quantity = Booked(ledger, r)

(* What a request has read and not used yet. *)
ReportOK(r) ==
  /\ r.listed \in BOOLEAN /\ r.actual \in Nat /\ r.damaged \in Nat
  /\ IF r.listed THEN r.damaged <= r.actual ELSE r.damaged = 0
  /\ r.listed /\ RowsWith(r.line) = {r.line} => r.actual <= hold[r.line].quantity
  /\ r.step = "write" => r.quantity \in Int

LedgerRequestOK(r) ==
  /\ r.kind \in {"receive", "claim"} => r.line \in DOMAIN hold
  /\ r.kind = "receive" => ReportOK(r)
  /\ r.kind = "claim" => /\ r.missing \in Nat /\ r.damaged \in Nat
                         /\ Stocked(<<"shop", hold[r.line].batch>>)

LedgerInv ==
  /\ LedgerTyped /\ Balanced
  /\ served \in Scenarios /\ \A c \in Clients : LedgerRequestOK(req[c])

-----------------------------------------------------------------------------
(* Steps in parts.  Statuses: a batch that is known stays known.            *)
StatusStep ==
  /\ StatusTyped' /\ \A b \in Batches : Known(b) => Known(b)'

LEMMA StatusKept ==
  ASSUME StatusTyped, batchStatus' = batchStatus
  PROVE  StatusStep
BY DEF StatusTyped, StatusStep, Known

LEMMA StatusSet ==
  ASSUME StatusTyped, NEW b \in Batches, NEW status \in BatchStatus,
         batchStatus' = [batchStatus EXCEPT ![b] = status]
  PROVE  StatusStep /\ Known(b)'
<1>1. /\ batchStatus' \in [Batches -> BatchStatus \cup {"none"}]
      /\ \A k \in Batches : batchStatus'[k] = IF k = b THEN status ELSE batchStatus[k]
  BY DEF StatusTyped
<1>2. status # "none"
  BY DEF BatchStatus
<1>3. {k \in Batches : Known(k)'} = {k \in Batches : Known(k)} \cup {b}
  BY <1>1, <1>2 DEF Known
<1>4. IsFiniteSet({k \in Batches : Known(k)} \cup {b})
  BY FS_AddElement DEF StatusTyped
<1>5. IsFiniteSet({k \in Batches : Known(k)'})
  BY <1>3, <1>4, Zenon
<1>6. \A k \in Batches : Known(k) => Known(k)'
  BY <1>1, <1>2 DEF Known
<1> QED
  BY <1>1, <1>2, <1>5, <1>6 DEF StatusStep, StatusTyped, Known

(* Rows: one written, or all of them by a function. *)
InventoryStep ==
  /\ InventoryTyped' /\ DOMAIN inventory \subseteq DOMAIN inventory'

LEMMA QuantitySet ==
  ASSUME NEW row \in InventoryRow, NEW q \in Int
  PROVE  /\ [row EXCEPT !.quantity = q] \in InventoryRow
         /\ [row EXCEPT !.quantity = q].quantity = q
BY DEF InventoryRow

LEMMA ReservedSet ==
  ASSUME NEW row \in InventoryRow, NEW n \in Nat
  PROVE  /\ [row EXCEPT !.reserved = n] \in InventoryRow
         /\ [row EXCEPT !.reserved = n].quantity = row.quantity
BY DEF InventoryRow

LEMMA AnyRow ==
  ASSUME InventoryTyped, NEW r
  PROVE  RowOf(r) \in InventoryRow /\ RowOf(r).quantity \in Int /\ RowOf(r).reserved \in Nat
<1>1. [quantity |-> 0, reserved |-> 0] \in InventoryRow
  BY DEF InventoryRow
<1>2. RowOf(r) \in InventoryRow
  BY <1>1 DEF InventoryTyped, RowOf, Stocked
<1> QED
  BY <1>2 DEF InventoryRow

LEMMA InventoryKept ==
  ASSUME InventoryTyped, StatusStep, inventory' = inventory
  PROVE  InventoryStep /\ \A r : RowOf(r)' = RowOf(r)
<1>1. \A r \in DOMAIN inventory : Known(r[2])'
  BY DEF InventoryTyped, StatusStep
<1> QED
  BY <1>1 DEF InventoryStep, InventoryTyped, RowOf, Stocked

LEMMA RowWritten ==
  ASSUME InventoryTyped, StatusStep, NEW at \in Places, NEW b \in Batches, Known(b)',
         NEW row \in InventoryRow, inventory' = Upserted(<<at, b>>, row)
  PROVE  /\ InventoryStep /\ <<at, b>> \in DOMAIN inventory'
         /\ \A r : RowOf(r)' = IF r = <<at, b>> THEN row ELSE RowOf(r)
<1>1. /\ DOMAIN inventory' = DOMAIN inventory \cup {<<at, b>>}
      /\ inventory' = [r \in DOMAIN inventory' |-> inventory'[r]]
      /\ \A r \in DOMAIN inventory' :
           inventory'[r] = IF r = <<at, b>> THEN row ELSE inventory[r]
  BY DEF Upserted
<1>2. \A r \in DOMAIN inventory : r[2] \in Batches /\ Known(r[2])'
  BY DEF InventoryTyped, StatusStep
<1>3. InventoryTyped'
  BY <1>1, <1>2 DEF InventoryTyped
<1> QED
  BY <1>1, <1>3 DEF InventoryStep, RowOf, Stocked

LEMMA RowsRewritten ==
  ASSUME InventoryTyped, StatusStep, NEW rows, inventory' = rows,
         rows = [r \in DOMAIN inventory |-> rows[r]],
         \A r \in DOMAIN inventory : rows[r] \in InventoryRow
  PROVE  /\ InventoryStep /\ DOMAIN inventory' = DOMAIN inventory
         /\ \A r : RowOf(r)' = IF Stocked(r) THEN rows[r] ELSE RowOf(r)
<1>1. DOMAIN rows = DOMAIN inventory
  BY Zenon
<1>2. \A r \in DOMAIN inventory : Known(r[2])'
  BY DEF InventoryTyped, StatusStep
<1> QED
  BY <1>1, <1>2 DEF InventoryStep, InventoryTyped, RowOf, Stocked

(* Holds: more of them, or others of their columns. *)
HoldStep ==
  /\ hold' \in Seq(HoldRow)
  /\ DOMAIN hold \subseteq DOMAIN hold'
  /\ \A i \in DOMAIN hold :
       /\ hold'[i].batch = hold[i].batch /\ hold'[i].quantity = hold[i].quantity
       /\ hold'[i].order = hold[i].order

LEMMA HoldStepKeeps ==
  ASSUME LedgerTyped, HoldStep, InventoryStep,
         \A i \in DOMAIN hold' \ DOMAIN hold : Stocked(<<"kitchen", hold'[i].batch>>)
  PROVE  HoldsTyped'
<1>1. \A i \in DOMAIN hold' : <<"kitchen", hold'[i].batch>> \in DOMAIN inventory'
  BY DEF LedgerTyped, HoldsTyped, HoldStep, InventoryStep, Stocked
<1> QED
  BY <1>1 DEF HoldsTyped, HoldStep, Stocked

LEMMA HoldFacts ==
  ASSUME hold \in Seq(HoldRow)
  PROVE  /\ Len(hold) \in Nat /\ DOMAIN hold = 1..Len(hold) /\ IsFiniteSet(DOMAIN hold)
         /\ \A i \in DOMAIN hold :
              /\ hold[i] \in HoldRow /\ hold[i].quantity \in Nat /\ hold[i].batch \in Batches
              /\ hold[i].order \in Nat /\ hold[i].receipts \in Nat
<1>1. Len(hold) \in Nat /\ DOMAIN hold = 1..Len(hold)
  OBVIOUS
<1>2. IsFiniteSet(DOMAIN hold)
  BY <1>1, FS_Interval
<1>3. \A i \in DOMAIN hold : hold[i] \in HoldRow
  BY <1>1
<1> QED
  BY <1>1, <1>2, <1>3 DEF HoldRow

LEMMA HoldsKept ==
  ASSUME hold \in Seq(HoldRow), hold' = hold
  PROVE  HoldStep
BY DEF HoldStep

LEMMA StatusesOfHolds ==
  ASSUME hold \in Seq(HoldRow), NEW S, NEW status,
         status \in {"in_transit", "completed", "released", "consumed"},
         HoldsBecome(S, status)
  PROVE  HoldStep /\ DOMAIN hold' = DOMAIN hold
<1>1. /\ DOMAIN hold' = DOMAIN hold
      /\ \A i \in DOMAIN hold :
           hold'[i] = IF i \in S THEN [hold[i] EXCEPT !.status = status] ELSE hold[i]
      /\ hold' = [i \in DOMAIN hold |-> hold'[i]]
  BY DEF HoldsBecome
<1>2. \A row \in HoldRow : LET new == [row EXCEPT !.status = status]
                           IN new \in HoldRow /\ new.batch = row.batch
                              /\ new.quantity = row.quantity /\ new.order = row.order
  BY DEF HoldRow
<1>3. \A i \in DOMAIN hold : /\ hold'[i] \in HoldRow /\ hold'[i].batch = hold[i].batch
                             /\ hold'[i].quantity = hold[i].quantity
                             /\ hold'[i].order = hold[i].order
  BY <1>1, <1>2, HoldFacts
<1>4. hold' \in [1..Len(hold) -> HoldRow] /\ Len(hold) \in Nat
  BY <1>1, <1>3, HoldFacts
<1> QED
  BY <1>1, <1>3, <1>4 DEF HoldStep

(* The two books: m is what a step writes in the ledger. *)
BooksStep(m) ==
  /\ m \in Entries /\ ledger' = ledger \o m /\ doubtful \subseteq doubtful'
  /\ \A r \in (Places \X Batches) \ doubtful' :
       RowOf(r)'.quantity = RowOf(r).quantity + Booked(m, r)

LEMMA BooksStepBalances ==
  ASSUME LedgerTyped, Balanced, NEW m, BooksStep(m)
  PROVE  ledger' \in Entries /\ Balanced'
<1>1. m \in Entries /\ ledger \in Entries /\ ledger' = ledger \o m
  BY DEF BooksStep, LedgerTyped
<1>2. ASSUME NEW r \in (Places \X Batches) \ doubtful'
      PROVE  RowOf(r)'.quantity = Booked(ledger', r)
  <2>1. RowOf(r).quantity = Booked(ledger, r)
    BY DEF BooksStep, Balanced
  <2>2. RowOf(r)'.quantity = RowOf(r).quantity + Booked(m, r)
    BY DEF BooksStep
  <2> QED
    BY <1>1, <2>1, <2>2, BookedMore
<1> QED
  BY <1>1, <1>2, BookedMore DEF Balanced

(* A step that writes nothing of the ledger and moves no stock. *)
LEMMA QuietBooks ==
  ASSUME LedgerTyped, ledger' = ledger, doubtful' = doubtful,
         \A r \in Places \X Batches : RowOf(r)'.quantity = RowOf(r).quantity
  PROVE  BooksStep(<<>>)
<1>1. <<>> \in Entries /\ ledger \o <<>> = ledger
  BY DEF Entries, LedgerTyped
<1>2. \A r : Booked(<<>>, r) = 0
  BY <1>1, BookedNothing
<1>3. \A r \in Places \X Batches : RowOf(r).quantity \in Int
  BY AnyRow DEF LedgerTyped
<1> QED
  BY <1>1, <1>2, <1>3 DEF BooksStep

(* What a step of the ledger endpoints does, in one. *)
LedgerStep ==
  /\ StatusStep /\ InventoryStep /\ HoldStep
  /\ \A i \in DOMAIN hold' \ DOMAIN hold : Stocked(<<"kitchen", hold'[i].batch>>)
  /\ claimItem' \in Seq(ClaimItemRow)
  /\ doubtful' \subseteq DOMAIN inventory'
  /\ day' \in 0..LastDay
  /\ \E m : BooksStep(m)

LEMMA LedgerStepKeeps ==
  ASSUME LedgerTyped, Balanced, LedgerStep
  PROVE  LedgerTyped' /\ Balanced'
<1>1. PICK m : BooksStep(m)
  BY DEF LedgerStep
<1>2. ledger' \in Entries /\ Balanced'
  BY <1>1, BooksStepBalances
<1>3. HoldsTyped'
  BY HoldStepKeeps DEF LedgerStep
<1> QED
  BY <1>2, <1>3 DEF LedgerStep, LedgerTyped, StatusStep, InventoryStep

(* Steps that take nothing out of the kitchen on a truck: what the ledger,   *)
(* the holds and the claims say of the goods that have left stays the same. *)
Out == {"in_transit", "completed"}

OffTheRoad(e) ==
  /\ e.at = "kitchen" /\ e.type # "export"
  /\ e.type = "adjust_loss" => e.change <= 0

Aside ==
  \E m \in Entries : ledger' = ledger \o m /\ \A i \in DOMAIN m : OffTheRoad(m[i])

HoldsAside ==
  /\ DOMAIN hold \subseteq DOMAIN hold'
  /\ \A i \in DOMAIN hold' :
       IF i \in DOMAIN hold
       THEN \/ hold'[i] = hold[i]
            \/ /\ hold[i].status \notin Out /\ hold'[i].status \notin Out
               /\ hold'[i].receipts = hold[i].receipts
       ELSE hold'[i].status \notin Out

QuietStep == Aside /\ HoldsAside /\ claimItem' = claimItem

LEMMA AsideTogether ==
  ASSUME NEW l \in Entries, NEW m \in Entries,
         \A i \in DOMAIN l : OffTheRoad(l[i]), \A i \in DOMAIN m : OffTheRoad(m[i])
  PROVE  \A i \in DOMAIN (l \o m) : OffTheRoad((l \o m)[i])
<1>1. /\ DOMAIN (l \o m) = 1..(Len(l) + Len(m))
      /\ Len(l) \in Nat /\ DOMAIN l = 1..Len(l) /\ Len(m) \in Nat /\ DOMAIN m = 1..Len(m)
      /\ \A i \in DOMAIN l : (l \o m)[i] = l[i]
      /\ \A i \in DOMAIN m : (l \o m)[Len(l) + i] = m[i]
  BY DEF Entries
<1>2. ASSUME NEW i \in DOMAIN (l \o m), i \notin DOMAIN l PROVE OffTheRoad((l \o m)[i])
  <2>1. i - Len(l) \in DOMAIN m /\ Len(l) + (i - Len(l)) = i
    BY <1>1, <1>2
  <2> QED
    BY <1>1, <2>1
<1>3. ASSUME NEW i \in DOMAIN l PROVE OffTheRoad((l \o m)[i])
  BY <1>1
<1> QED
  BY <1>2, <1>3

LEMMA NothingAside ==
  ASSUME LedgerTyped, ledger' = ledger
  PROVE  Aside
<1>1. ledger \o <<>> = ledger /\ <<>> \in Entries /\ DOMAIN <<>> = {}
  BY DEF LedgerTyped, Entries
<1> QED
  BY <1>1 DEF Aside

LEMMA HoldsStayAside ==
  ASSUME hold' = hold
  PROVE  HoldsAside
BY DEF HoldsAside

LEMMA StatusesAside ==
  ASSUME hold \in Seq(HoldRow), NEW S \in SUBSET DOMAIN hold,
         \A i \in S : hold[i].status \notin Out,
         NEW status \in {"released", "consumed"}, HoldsBecome(S, status)
  PROVE  HoldsAside
<1>1. /\ DOMAIN hold' = DOMAIN hold
      /\ \A i \in DOMAIN hold :
           hold'[i] = IF i \in S THEN [hold[i] EXCEPT !.status = status] ELSE hold[i]
  BY DEF HoldsBecome
<1>2. \A row \in HoldRow : LET new == [row EXCEPT !.status = status]
                           IN new.status = status /\ new.receipts = row.receipts
  BY DEF HoldRow
<1>3. \A i \in DOMAIN hold : hold[i] \in HoldRow
  BY HoldFacts
<1>4. status \notin Out
  BY DEF Out
<1> QED
  BY <1>1, <1>2, <1>3, <1>4 DEF HoldsAside

(* Entries. *)
LEMMA EntryTyped ==
  ASSUME LedgerTyped, NEW at \in Places, NEW b \in Batches, NEW type \in TransactionType,
         NEW change \in Int, NEW reference \in Nat
  PROVE  LET e == Entry(<<at, b>>, type, change, reference)
         IN /\ e \in TransactionRow /\ e.at = at /\ e.batch = b /\ e.type = type
            /\ e.change = change
            /\ \A r \in Places \X Batches :
                 Counts(e, r) <=> r = <<at, b>> /\ type \notin {"reservation", "release"}
<1>1. Started \in Nat
  <2>1. CASE ledger = <<>>
    BY <2>1 DEF Started
  <2>2. CASE ledger # <<>>
    <3>1. Len(ledger) \in Nat /\ DOMAIN ledger = 1..Len(ledger)
      BY EntriesFinite DEF LedgerTyped
    <3>2. Len(ledger) \in DOMAIN ledger
      BY <2>2, <3>1 DEF LedgerTyped, Entries
    <3>3. ledger[Len(ledger)] \in TransactionRow
      BY <3>2, EntriesFinite DEF LedgerTyped
    <3> QED
      BY <2>2, <3>3 DEF Started, Last, TransactionRow
  <2> QED
    BY <2>1, <2>2
<1> QED
  BY <1>1 DEF Entry, TransactionRow, Counts, Moved

(* One entry of one row. *)
LEMMA OneEntry ==
  ASSUME LedgerTyped, NEW at \in Places, NEW b \in Batches, NEW type \in TransactionType,
         NEW change \in Int, NEW reference \in Nat,
         type \notin {"reservation", "release"}
  PROVE  LET m == <<Entry(<<at, b>>, type, change, reference)>>
         IN /\ m \in Entries
            /\ \A r \in Places \X Batches :
                 Booked(m, r) = IF r = <<at, b>> THEN change ELSE 0
<1>1. PICK e : e = Entry(<<at, b>>, type, change, reference)
  OBVIOUS
<1>2. /\ e \in TransactionRow /\ e.change = change
      /\ \A r \in Places \X Batches : Counts(e, r) <=> r = <<at, b>>
  BY <1>1, EntryTyped
<1>3. <<e>> \in Entries /\ \A r : Booked(<<e>>, r) = IF Counts(e, r) THEN e.change ELSE 0
  BY <1>2, BookedOne
<1>4. \A r \in Places \X Batches : Booked(<<e>>, r) = IF r = <<at, b>> THEN change ELSE 0
  BY <1>2, <1>3
<1> QED
  BY <1>1, <1>3, <1>4

(* Reservations and releases: entries that count for no row. *)
LEMMA QuietEntries ==
  ASSUME NEW n \in Nat, NEW m \in [1..n -> TransactionRow],
         \A i \in 1..n : m[i].type \in {"reservation", "release"}
  PROVE  m \in Entries /\ \A r : Booked(m, r) = 0
<1>1. m \in Entries /\ DOMAIN m = 1..n
  BY DEF Entries
<1>2. \A r : \A i \in DOMAIN m : ~Counts(m[i], r)
  BY <1>1 DEF Counts, Moved
<1> QED
  BY <1>1, <1>2, BookedNothing

(* What is held of a batch by the rows of S. *)
HoldsIn(S, b) == [i \in S |-> IF hold[i].batch = b THEN hold[i].quantity ELSE 0]

LEMMA HeldIsSum ==
  ASSUME hold \in Seq(HoldRow), NEW S \in SUBSET DOMAIN hold, NEW b
  PROVE  /\ IsFiniteSet(S) /\ Nats(HoldsIn(S, b), S)
         /\ HeldIn(S, b) = SumOver(HoldsIn(S, b), S) /\ HeldIn(S, b) \in Nat
<1>1. PICK P : P = {k \in S : hold[k].batch = b}
  OBVIOUS
<1>2. PICK f : f = [i \in P |-> hold[i].quantity]
  OBVIOUS
<1>3. IsFiniteSet(S) /\ P \subseteq S /\ \A i \in S : hold[i].quantity \in Nat
  BY <1>1, HoldFacts, FS_Subset
<1>4. HeldIn(S, b) = Total(f) /\ DOMAIN f = P
  BY <1>1, <1>2 DEF HeldIn
<1>5. HeldIn(S, b) = SumOver(f, P)
  BY <1>4, TotalIsSum
<1>6. Ints(f, P) /\ Nats(HoldsIn(S, b), S)
  BY <1>2, <1>3 DEF Ints, Nats, HoldsIn
<1>7. \A i \in S : HoldsIn(S, b)[i] = IF i \in P THEN f[i] ELSE 0
  BY <1>1, <1>2 DEF HoldsIn
<1>8. SumOver(HoldsIn(S, b), S) = SumOver(f, P)
  BY <1>3, <1>6, <1>7, SumOfSome
<1>9. SumOver(HoldsIn(S, b), S) \in Nat
  BY <1>3, <1>6, SumGrows
<1> QED
  BY <1>3, <1>5, <1>6, <1>8, <1>9

(* The debits of held rows: together what is held of each batch. *)
LEMMA DebitsBooked ==
  ASSUME LedgerTyped, NEW S \in SUBSET DOMAIN hold,
         NEW type \in {"export", "production_consume"}
  PROVE  /\ Debits(S, type) \in Entries
         /\ type # "export" => \A i \in DOMAIN Debits(S, type) : OffTheRoad(Debits(S, type)[i])
         /\ \A r \in Places \X Batches :
              Booked(Debits(S, type), r) = IF r[1] = "kitchen" THEN 0 - HeldIn(S, r[2]) ELSE 0
<1>1. /\ IsFiniteSet(S) /\ "kitchen" \in Places /\ type \in TransactionType
      /\ type \notin {"reservation", "release"}
      /\ \A i \in S : hold[i].batch \in Batches /\ hold[i].quantity \in Nat
  BY HoldFacts, FS_Subset DEF LedgerTyped, HoldsTyped, Places, TransactionType
<1>2. PICK s : s = SetToSeq(S)
  OBVIOUS
<1>3. PICK n : n = Cardinality(S)
  OBVIOUS
<1>4. /\ n \in Nat /\ s \in [1..n -> S] /\ IsInjective(s)
      /\ \A x \in S : \E k \in 1..n : s[k] = x
  BY <1>1, <1>2, <1>3, SetToSeqPlaces
<1>5. PICK m : m = Debits(S, type)
  OBVIOUS
<1>6. m = [i \in 1..n |-> Entry(<<"kitchen", hold[s[i]].batch>>, type,
                               0 - hold[s[i]].quantity, 0)]
  BY <1>2, <1>4, <1>5 DEF Debits
<1>7. ASSUME NEW i \in 1..n
      PROVE  /\ m[i] \in TransactionRow /\ m[i].change = 0 - hold[s[i]].quantity
             /\ m[i].at = "kitchen" /\ m[i].type = type
             /\ \A r \in Places \X Batches : Counts(m[i], r) <=> r = <<"kitchen", hold[s[i]].batch>>
  <2>1. s[i] \in S /\ 0 - hold[s[i]].quantity \in Int /\ 0 \in Nat
    BY <1>1, <1>4
  <2>2. hold[s[i]].batch \in Batches
    BY <1>1, <2>1
  <2>3. m[i] = Entry(<<"kitchen", hold[s[i]].batch>>, type, 0 - hold[s[i]].quantity, 0)
    BY <1>6
  <2> QED
    BY <1>1, <2>1, <2>2, <2>3, EntryTyped
<1>8. m \in Entries /\ DOMAIN m = 1..n
  <2>1. m \in [1..n -> TransactionRow]
    BY <1>6, <1>7
  <2> QED
    BY <1>4, <2>1 DEF Entries
<1>9. ASSUME NEW r \in Places \X Batches
      PROVE  Booked(m, r) = IF r[1] = "kitchen" THEN 0 - HeldIn(S, r[2]) ELSE 0
  <2>1. PICK g : g = [i \in S |-> IF r = <<"kitchen", hold[i].batch>>
                                  THEN 0 - hold[i].quantity ELSE 0]
    OBVIOUS
  <2>2. \A k \in 1..n : s[k] \in S /\ g[s[k]] = ChangeOf(m, r)[k] /\ ChangeOf(m, r)[k] \in Int
    BY <1>1, <1>4, <1>7, <1>8, <2>1 DEF ChangeOf
  <2>3. \A x, y \in 1..n : s[x] = s[y] => x = y
    BY <1>4 DEF IsInjective
  <2>4. IsFiniteSet(1..n)
    BY <1>4, FS_Interval
  <2>5. SumOver(g, {s[k] : k \in 1..n}) = SumOver(ChangeOf(m, r), 1..n)
    <3>1. PICK D : D = 1..n
      OBVIOUS
    <3>2. PICK f : f = ChangeOf(m, r)
      OBVIOUS
    <3>3. /\ IsFiniteSet(D) /\ \A x, y \in D : s[x] = s[y] => x = y
          /\ \A x \in D : g[s[x]] = f[x] /\ f[x] \in Int
      BY <2>2, <2>3, <2>4, <3>1, <3>2
    <3>4. SumOver(g, {s[x] : x \in D}) = SumOver(f, D)
      BY <3>3, SumRenamed
    <3> QED
      BY <3>1, <3>2, <3>4
  <2>6. {s[k] : k \in 1..n} = S
    BY <1>4
  <2>7. Booked(m, r) = SumOver(g, S)
    BY <1>8, <2>5, <2>6 DEF Booked
  <2>8. CASE r[1] = "kitchen"
    <3>1. \A i \in S : g[i] = 0 - HoldsIn(S, r[2])[i]
      <4>1. r = <<"kitchen", r[2]>>
        BY <2>8
      <4> QED
        BY <1>1, <2>1, <4>1 DEF HoldsIn
    <3>2. Nats(HoldsIn(S, r[2]), S) /\ HeldIn(S, r[2]) = SumOver(HoldsIn(S, r[2]), S)
      BY HeldIsSum DEF LedgerTyped, HoldsTyped
    <3>3. Ints(HoldsIn(S, r[2]), S)
      BY <3>2 DEF Nats, Ints
    <3> QED
      BY <1>1, <2>7, <2>8, <3>1, <3>2, <3>3, SumNegated
  <2>9. CASE r[1] # "kitchen"
    <3>1. \A i \in S : g[i] = 0
      BY <2>1, <2>9
    <3> QED
      BY <1>1, <2>7, <2>9, <3>1, SumOfZeros
  <2> QED
    BY <2>8, <2>9
<1>10. type # "export" => \A i \in DOMAIN m : OffTheRoad(m[i])
  BY <1>7, <1>8 DEF OffTheRoad
<1> QED
  BY <1>5, <1>8, <1>9, <1>10

LEMMA FunctionIsSequence ==
  ASSUME NEW T, NEW k \in Nat, NEW p \in [1..k -> T]
  PROVE  p \in Seq(T) /\ Len(p) = k /\ DOMAIN p = 1..k
OBVIOUS

(* A reservation takes from batches in the kitchen. *)
LEMMA TakesTyped ==
  ASSUME NEW z \in Nat, NEW s, DOMAIN s = 1..z, NEW n \in Int,
         \A i \in 1..z : Spare(<<"kitchen", s[i]>>) \in Int
  PROVE  DOMAIN Takes(s, n) = 1..z /\ \A i \in 1..z : Takes(s, n)[i] \in Nat
<1>1. ASSUME NEW i \in 1..z PROVE Takes(s, n)[i] \in Nat
  <2>1. PICK f : f = [j \in 1..(i - 1) |-> Spare(<<"kitchen", s[j]>>)]
    OBVIOUS
  <2>2. i - 1 \in Nat /\ \A j \in 1..(i - 1) : j \in 1..z
    OBVIOUS
  <2>3. IsFiniteSet(1..(i - 1)) /\ Ints(f, 1..(i - 1)) /\ DOMAIN f = 1..(i - 1)
    BY <2>1, <2>2, FS_Interval DEF Ints
  <2>4. Total(f) \in Int
    BY <2>3, TotalIsSum, SumType
  <2>5. Spare(<<"kitchen", s[i]>>) \in Int
    OBVIOUS
  <2>6. Takes(s, n)[i] = Maximum(0, Minimum(Spare(<<"kitchen", s[i]>>), n - Total(f)))
    BY <2>1 DEF Takes
  <2> QED
    BY <2>4, <2>5, <2>6 DEF Maximum, Minimum
<1> QED
  BY <1>1 DEF Takes

LEMMA PickedTyped ==
  ASSUME NEW z \in Nat, NEW B, NEW s \in [1..z -> B], NEW takes,
         \A i \in 1..z : takes[i] \in Int
  PROVE  Picked(s, takes) \in Seq([batch : B, quantity : Nat])
<1>1. PICK G : G = {k \in DOMAIN s : takes[k] > 0}
  OBVIOUS
<1>2. PICK e : e = [k \in G |-> [batch |-> s[k], quantity |-> takes[k]]]
  OBVIOUS
<1>3. PICK R : R = [batch : B, quantity : Nat]
  OBVIOUS
<1>4. \A k \in G : e[k] \in R /\ e[k] = [batch |-> s[k], quantity |-> takes[k]]
  BY <1>1, <1>2, <1>3
<1>5. IsFiniteSet(G)
  <2>1. G \subseteq 1..z /\ IsFiniteSet(1..z)
    BY <1>1, FS_Interval
  <2> QED
    BY <2>1, FS_Subset
<1>6. PICK given : given = SetToSeq(G)
  OBVIOUS
<1>7. \A i \in DOMAIN given : given[i] \in G
  BY <1>5, <1>6, SetToSeqPlaces
<1>8. Picked(s, takes) = [i \in DOMAIN given |-> [batch |-> s[given[i]], quantity |-> takes[given[i]]]]
  BY <1>1, <1>6 DEF Picked
<1>9. Picked(s, takes) = [i \in DOMAIN given |-> e[given[i]]]
  BY <1>4, <1>7, <1>8
<1>10. PICK m : m = Picked(s, takes)
  OBVIOUS
<1>11. m = [i \in DOMAIN SetToSeq(G) |-> e[SetToSeq(G)[i]]]
  BY <1>6, <1>9, <1>10
<1>12. \A k \in G : e[k] \in R
  BY <1>4
<1>13. m \in Seq(R)
  BY <1>5, <1>11, <1>12, ListTyped
<1> QED
  BY <1>3, <1>10, <1>13

(* What a reservation does to the rows, and what it keeps.                 *)
Take == [batch : Batches, quantity : Nat]

LEMMA ReservingStep ==
  ASSUME LedgerTyped, StatusStep, NEW takes \in Seq(Take), Reserving(takes)
  PROVE  /\ InventoryStep /\ DOMAIN inventory' = DOMAIN inventory
         /\ \A r : RowOf(r)'.quantity = RowOf(r).quantity
<1> DEFINE From(r) == {i \in DOMAIN takes : <<"kitchen", takes[i].batch>> = r}
           Sum(r) == Total([i \in From(r) |-> takes[i].quantity])
<1>1. DOMAIN takes = 1..Len(takes) /\ Len(takes) \in Nat /\ IsFiniteSet(DOMAIN takes)
  BY FS_Interval
<1>2. \A i \in DOMAIN takes : takes[i] \in Take
  BY <1>1
<1>3. \A i \in DOMAIN takes : takes[i].quantity \in Nat
  BY <1>2 DEF Take
<1>4. ASSUME NEW r PROVE Sum(r) \in Nat
  <2>1. PICK F : F = From(r)
    OBVIOUS
  <2>2. PICK f : f = [i \in F |-> takes[i].quantity]
    OBVIOUS
  <2>3. IsFiniteSet(F) /\ Nats(f, F) /\ DOMAIN f = F /\ F \in SUBSET F
    BY <1>1, <1>3, <2>1, <2>2, FS_Subset DEF Nats
  <2>4. Total(f) \in Nat
    BY <2>3, TotalIsSum, SumGrows
  <2> QED
    BY <2>1, <2>2, <2>4
<1>5. inventory' = [r \in DOMAIN inventory |-> [inventory[r] EXCEPT !.reserved = @ + Sum(r)]]
  BY DEF Reserving
<1> HIDE DEF From, Sum
<1>6. ASSUME NEW r \in DOMAIN inventory
      PROVE  inventory'[r] \in InventoryRow /\ inventory'[r].quantity = inventory[r].quantity
  <2>1. inventory[r] \in InventoryRow /\ inventory[r].quantity \in Int
        /\ inventory[r].reserved \in Nat
    BY DEF LedgerTyped, InventoryTyped, InventoryRow
  <2>2. inventory[r].reserved + Sum(r) \in Nat
    BY <1>4, <2>1
  <2>3. inventory'[r] = [inventory[r] EXCEPT !.reserved = inventory[r].reserved + Sum(r)]
    BY <1>5
  <2> QED
    BY <2>1, <2>2, <2>3, ReservedSet
<1>7. PICK rows : rows = inventory'
  OBVIOUS
<1>8. /\ rows = [r \in DOMAIN inventory |-> rows[r]]
      /\ \A r \in DOMAIN inventory :
           rows[r] \in InventoryRow /\ rows[r].quantity = inventory[r].quantity
  BY <1>5, <1>6, <1>7
<1>9. /\ InventoryStep /\ DOMAIN inventory' = DOMAIN inventory
      /\ \A r : RowOf(r)' = IF Stocked(r) THEN rows[r] ELSE RowOf(r)
  BY <1>7, <1>8, RowsRewritten DEF LedgerTyped
<1> QED
  BY <1>8, <1>9 DEF RowOf, Stocked

LEMMA KeepStep ==
  ASSUME hold \in Seq(HoldRow), NEW takes \in Seq(Take), Keep(takes, "reserved") \/ Keep(takes, "cooking")
  PROVE  /\ HoldStep
         /\ \A i \in DOMAIN hold' \ DOMAIN hold :
              \E j \in DOMAIN takes : hold'[i].batch = takes[j].batch
         /\ HoldsAside
<1>1. /\ Len(hold) \in Nat /\ DOMAIN hold = 1..Len(hold)
      /\ Len(takes) \in Nat /\ DOMAIN takes = 1..Len(takes)
  OBVIOUS
<1>2. PICK status \in {"reserved", "cooking"} : Keep(takes, status)
  OBVIOUS
<1>3. PICK new : new = [i \in DOMAIN takes |->
         [batch |-> takes[i].batch, quantity |-> takes[i].quantity,
          order |-> NextOrder, status |-> status, receipts |-> 0]]
  OBVIOUS
<1>4. hold' = hold \o new
  BY <1>2, <1>3 DEF Keep
<1>5. \A i \in DOMAIN takes : takes[i] \in Take
  BY <1>1
<1>6. NextOrder \in Nat
  BY <1>1 DEF NextOrder
<1>7. \A i \in DOMAIN takes : new[i] \in HoldRow /\ new[i].batch = takes[i].batch
  BY <1>3, <1>5, <1>6 DEF Take, HoldRow
<1>8. new \in [1..Len(takes) -> HoldRow]
  BY <1>1, <1>3, <1>7
<1>9. new \in Seq(HoldRow) /\ Len(new) = Len(takes)
  BY <1>1, <1>8, FunctionIsSequence
<1>10. /\ hold' \in Seq(HoldRow) /\ DOMAIN hold' = 1..(Len(hold) + Len(takes))
       /\ \A i \in 1..Len(hold) : hold'[i] = hold[i]
       /\ \A i \in 1..Len(takes) : hold'[Len(hold) + i] = new[i]
  <2>1. /\ hold \o new \in Seq(HoldRow) /\ DOMAIN (hold \o new) = 1..(Len(hold) + Len(new))
        /\ \A i \in 1..Len(hold) : (hold \o new)[i] = hold[i]
        /\ \A i \in 1..Len(new) : (hold \o new)[Len(hold) + i] = new[i]
    BY <1>9
  <2> QED
    BY <1>4, <1>9, <2>1
<1>11. HoldStep
  BY <1>1, <1>10 DEF HoldStep
<1>12. ASSUME NEW i \in DOMAIN hold' \ DOMAIN hold
       PROVE  \E j \in DOMAIN takes : hold'[i].batch = takes[j].batch
  <2>1. i - Len(hold) \in 1..Len(takes)
    BY <1>1, <1>10
  <2>2. hold'[Len(hold) + (i - Len(hold))] = new[i - Len(hold)] /\ Len(hold) + (i - Len(hold)) = i
    BY <1>1, <1>10, <2>1
  <2> QED
    BY <1>1, <1>7, <2>1, <2>2
<1>13. HoldsAside
  <2>1. ASSUME NEW i \in DOMAIN hold' \ DOMAIN hold PROVE hold'[i].status \notin Out
    <3>1. i - Len(hold) \in 1..Len(takes)
      BY <1>1, <1>10
    <3>2. hold'[Len(hold) + (i - Len(hold))] = new[i - Len(hold)] /\ Len(hold) + (i - Len(hold)) = i
      BY <1>1, <1>10, <3>1
    <3>3. new[i - Len(hold)].status = status
      BY <1>1, <1>3, <3>1
    <3> QED
      BY <3>2, <3>3 DEF Out
  <2> QED
    BY <1>1, <1>10, <1>11, <2>1 DEF HoldsAside, HoldStep
<1> QED
  BY <1>11, <1>12, <1>13

(* The batches a reservation is offered: finitely many, with a row each.    *)
LEMMA OffersOfLedger ==
  ASSUME LedgerTyped, NEW S, S \subseteq {b \in Batches : Known(b)},
         \A b \in S : Stocked(<<"kitchen", b>>), NEW s \in FefoOrders(S)
  PROVE  /\ \A n \in Nat : Picked(s, Takes(s, n)) \in Seq([batch : S, quantity : Nat])
         /\ \A n, m \in Nat : PickedForLines(s, n, m) \in Seq([batch : S, quantity : Nat])
<1>1. S \in SUBSET Batches /\ IsFiniteSet(S)
  BY FS_Subset DEF LedgerTyped, StatusTyped
<1>2. \A b \in S : Spare(<<"kitchen", b>>) \in Int
  <2>1. InventoryTyped
    BY DEF LedgerTyped
  <2>2. ASSUME NEW b \in S PROVE Spare(<<"kitchen", b>>) \in Int
    <3>1. PICK r : r = <<"kitchen", b>>
      OBVIOUS
    <3>2. RowOf(r).quantity \in Int /\ RowOf(r).reserved \in Nat
      BY <2>1, AnyRow
    <3> QED
      BY <3>1, <3>2 DEF Spare
  <2> QED
    BY <2>2
<1>3. PICK z : z = Cardinality(S)
  OBVIOUS
<1>4. z \in Nat /\ s \in [1..z -> S] /\ DOMAIN s = 1..z
  BY <1>1, <1>3, FS_CardinalityType DEF FefoOrders, SetToSeqs
<1>5. \A i \in 1..z : Spare(<<"kitchen", s[i]>>) \in Int
  BY <1>2, <1>4
<1>6. \A n \in Int : \A i \in 1..z : Takes(s, n)[i] \in Nat
  BY <1>4, <1>5, TakesTyped
<1>7. ASSUME NEW n \in Nat
      PROVE  Picked(s, Takes(s, n)) \in Seq([batch : S, quantity : Nat])
  <2>1. \A i \in 1..z : Takes(s, n)[i] \in Int
    BY <1>6
  <2> QED
    BY <1>4, <2>1, PickedTyped
<1>8. ASSUME NEW n \in Nat, NEW m \in Nat
      PROVE  PickedForLines(s, n, m) \in Seq([batch : S, quantity : Nat])
  <2>1. PICK f, g : f = Takes(s, n) /\ g = Takes(s, n + m)
    OBVIOUS
  <2>2. PICK h : h = [k \in DOMAIN s |-> g[k] - f[k]]
    OBVIOUS
  <2>3. \A i \in 1..z : f[i] \in Int /\ g[i] \in Int
    BY <1>6, <2>1
  <2>4. \A i \in 1..z : h[i] \in Int
    BY <1>4, <2>2, <2>3
  <2>5. PICK R : R = [batch : S, quantity : Nat]
    OBVIOUS
  <2>6. Picked(s, f) \in Seq(R) /\ Picked(s, h) \in Seq(R)
    BY <1>4, <2>3, <2>4, <2>5, PickedTyped
  <2>7. PickedForLines(s, n, m) = Picked(s, f) \o Picked(s, h)
    BY <2>1, <2>2 DEF PickedForLines
  <2> QED
    BY <2>5, <2>6, <2>7
<1> QED
  BY <1>7, <1>8

(* The rows that are kept are of batches with a row in the kitchen. *)
LEMMA TakesOfLedger ==
  ASSUME NEW S \in SUBSET Batches, \A b \in S : Stocked(<<"kitchen", b>>),
         NEW takes \in Seq([batch : S, quantity : Nat])
  PROVE  /\ takes \in Seq(Take)
         /\ \A i \in DOMAIN takes : Stocked(<<"kitchen", takes[i].batch>>)
<1>1. PICK k : k = Len(takes)
  OBVIOUS
<1>2. /\ k \in Nat /\ DOMAIN takes = 1..k
      /\ \A i \in 1..k : takes[i] \in [batch : S, quantity : Nat]
  <2>1. PICK R : R = [batch : S, quantity : Nat]
    OBVIOUS
  <2>2. takes \in Seq(R)
    BY <2>1
  <2>3. k \in Nat /\ DOMAIN takes = 1..k /\ \A i \in 1..k : takes[i] \in R
    BY <1>1, <2>2
  <2> QED
    BY <2>1, <2>3
<1>3. \A i \in 1..k : takes[i] \in Take /\ Stocked(<<"kitchen", takes[i].batch>>)
  BY <1>2 DEF Take
<1>4. takes \in [1..k -> Take]
  <2>1. PICK T : T = Take
    OBVIOUS
  <2>2. \A i \in 1..k : takes[i] \in T
    BY <1>3, <2>1
  <2>3. takes = [i \in 1..k |-> takes[i]]
    <3>1. PICK R : R = [batch : S, quantity : Nat]
      OBVIOUS
    <3>2. takes \in Seq(R)
      BY <3>1
    <3> QED
      BY <1>1, <3>2
  <2>4. takes \in [1..k -> T]
    BY <2>2, <2>3, Zenon
  <2> QED
    BY <2>1, <2>4
<1> QED
  BY <1>2, <1>3, <1>4, FunctionIsSequence

-----------------------------------------------------------------------------
(* The endpoints, one by one.  The parts a step leaves alone:              *)
LEMMA RestKept ==
  ASSUME LedgerTyped
  PROVE  /\ batchStatus' = batchStatus => StatusStep
         /\ hold' = hold => HoldStep /\ DOMAIN hold' = DOMAIN hold
         /\ claimItem' = claimItem => claimItem' \in Seq(ClaimItemRow)
         /\ day' = day => day' \in 0..LastDay
         /\ doubtful' = doubtful /\ InventoryStep => doubtful' \subseteq DOMAIN inventory'
  BY StatusKept, HoldsKept DEF LedgerTyped, HoldsTyped, InventoryStep

(* A row of the stock and entries of the ledger, written side by side.       *)
LEMMA RowAndList ==
  ASSUME LedgerTyped, StatusStep,
         NEW at \in Places, NEW b \in Batches, Known(b)', NEW q \in Int, NEW n \in Nat,
         inventory' = Upserted(<<at, b>>, [quantity |-> q, reserved |-> n]),
         NEW change \in Int, NEW m \in Entries, ledger' = ledger \o m,
         \A k \in Places \X Batches : Booked(m, k) = IF k = <<at, b>> THEN change ELSE 0,
         doubtful \subseteq doubtful',
         <<at, b>> \notin doubtful' => q = RowOf(<<at, b>>).quantity + change
  PROVE  /\ InventoryStep /\ <<at, b>> \in DOMAIN inventory'
         /\ BooksStep(m)
<1>1. PICK r : r = <<at, b>>
  OBVIOUS
<1>2. PICK row : row = [quantity |-> q, reserved |-> n]
  OBVIOUS
<1>3. row \in InventoryRow /\ row.quantity = q
  BY <1>2 DEF InventoryRow
<1>4. inventory' = Upserted(<<at, b>>, row) /\ InventoryTyped
  BY <1>2 DEF LedgerTyped
<1>5. /\ InventoryStep /\ <<at, b>> \in DOMAIN inventory'
      /\ \A k : RowOf(k)' = IF k = <<at, b>> THEN row ELSE RowOf(k)
  BY <1>3, <1>4, RowWritten
<1>6. ASSUME NEW k \in (Places \X Batches) \ doubtful'
      PROVE  RowOf(k)'.quantity = RowOf(k).quantity + Booked(m, k)
  <2>1. RowOf(k).quantity \in Int
    BY <1>4, AnyRow
  <2>2. CASE k = r
    <3>1. Booked(m, k) = change /\ RowOf(k)' = row /\ q = RowOf(k).quantity + change
      BY <1>1, <1>5, <2>2
    <3> QED
      BY <1>3, <3>1
  <2>3. CASE k # r
    <3>1. Booked(m, k) = 0 /\ RowOf(k)' = RowOf(k)
      BY <1>1, <1>5, <2>3
    <3> QED
      BY <2>1, <3>1
  <2> QED
    BY <2>2, <2>3
<1> QED
  BY <1>5, <1>6 DEF BooksStep

LEMMA RowAndEntry ==
  ASSUME LedgerTyped, StatusStep,
         NEW at \in Places, NEW b \in Batches, Known(b)', NEW q \in Int, NEW n \in Nat,
         inventory' = Upserted(<<at, b>>, [quantity |-> q, reserved |-> n]),
         NEW type \in TransactionType, type \notin {"reservation", "release"},
         NEW change \in Int,
         ledger' = ledger \o <<Entry(<<at, b>>, type, change, 0)>>,
         doubtful \subseteq doubtful',
         <<at, b>> \notin doubtful' => q = RowOf(<<at, b>>).quantity + change
  PROVE  /\ InventoryStep /\ <<at, b>> \in DOMAIN inventory'
         /\ \E m : BooksStep(m)
<1>1. PICK m : m = <<Entry(<<at, b>>, type, change, 0)>>
  OBVIOUS
<1>2. 0 \in Nat
  OBVIOUS
<1>3. /\ m \in Entries
      /\ \A k \in Places \X Batches : Booked(m, k) = IF k = <<at, b>> THEN change ELSE 0
  BY <1>1, <1>2, OneEntry
<1>4. ledger' = ledger \o m
  BY <1>1
<1>5. InventoryStep /\ <<at, b>> \in DOMAIN inventory' /\ BooksStep(m)
  BY <1>3, <1>4, RowAndList
<1> QED
  BY <1>5

(* One entry of a row of the kitchen, and nothing else of what has left it. *)
LEMMA OneAside ==
  ASSUME LedgerTyped, NEW b \in Batches, NEW type \in TransactionType, type # "export",
         NEW change \in Int, type = "adjust_loss" => change <= 0,
         ledger' = ledger \o <<Entry(<<"kitchen", b>>, type, change, 0)>>,
         hold' = hold, claimItem' = claimItem
  PROVE  QuietStep
<1>1. PICK e : e = Entry(<<"kitchen", b>>, type, change, 0)
  OBVIOUS
<1>2. "kitchen" \in Places /\ 0 \in Nat
  BY DEF Places
<1>3. e \in TransactionRow /\ e.at = "kitchen" /\ e.type = type /\ e.change = change
  BY <1>1, <1>2, EntryTyped
<1>4. OffTheRoad(e)
  BY <1>3 DEF OffTheRoad
<1>5. <<e>> \in Entries /\ \A i \in DOMAIN <<e>> : OffTheRoad(<<e>>[i])
  BY <1>3, <1>4 DEF Entries
<1>6. Aside
  BY <1>1, <1>5 DEF Aside
<1> QED
  BY <1>6, HoldsStayAside DEF QuietStep

LEMMA ImportKeeps ==
  ASSUME LedgerTyped, NEW b \in Deliveries, NEW n \in ImportAmounts, import(b, n)
  PROVE  LedgerStep /\ QuietStep
<1>1. b \in Batches /\ n \in Nat /\ "kitchen" \in Places /\ "import" \in TransactionType
      /\ "available" \in BatchStatus /\ InventoryTyped /\ StatusTyped
  BY LedgerAssumption DEF Places, TransactionType, BatchStatus, LedgerTyped
<1>2. PICK r : r = <<"kitchen", b>>
  OBVIOUS
<1>3. batchStatus' = [batchStatus EXCEPT ![b] = "available"]
  BY DEF import
<1>4. StatusStep /\ Known(b)'
  BY <1>1, <1>3, StatusSet
<1>5. RowOf(r) \in InventoryRow /\ RowOf(r).quantity \in Int /\ RowOf(r).reserved \in Nat
  BY <1>1, AnyRow
<1>6. [RowOf(r) EXCEPT !.quantity = @ + n]
        = [quantity |-> RowOf(r).quantity + n, reserved |-> RowOf(r).reserved]
  BY <1>5 DEF InventoryRow
<1>7. inventory' = Upserted(r, [quantity |-> RowOf(r).quantity + n,
                               reserved |-> RowOf(r).reserved])
  BY <1>2, <1>6 DEF import, Credited
<1>8. ledger' = ledger \o <<Entry(r, "import", n, 0)>>
  BY <1>2 DEF import, createInventoryTransaction
<1>9. doubtful' = doubtful /\ day' = day /\ hold' = hold /\ claimItem' = claimItem
  BY DEF import
<1>10. RowOf(r).quantity + n \in Int /\ n \in Int
  BY <1>1, <1>5
<1>11. InventoryStep /\ \E m : BooksStep(m)
  BY <1>1, <1>2, <1>4, <1>5, <1>7, <1>8, <1>9, <1>10, RowAndEntry
<1>12. ledger' = ledger \o <<Entry(<<"kitchen", b>>, "import", n, 0)>> /\ LedgerTyped
  BY <1>2, <1>8
<1>13. QuietStep
  BY <1>1, <1>9, <1>10, <1>12, OneAside
<1> QED
  BY <1>4, <1>9, <1>11, <1>13, RestKept DEF LedgerStep

(* The statements on one row, as one write. *)
LEMMA RowStatements ==
  ASSUME InventoryTyped, NEW r \in DOMAIN inventory, NEW q \in Int
  PROVE  /\ [inventory EXCEPT ![r].quantity = q]
              = Upserted(r, [quantity |-> q, reserved |-> inventory[r].reserved])
         /\ [inventory EXCEPT ![r] = [quantity |-> 0, reserved |-> 0]]
              = Upserted(r, [quantity |-> 0, reserved |-> 0])
         /\ RowOf(r) = inventory[r] /\ inventory[r].reserved \in Nat
         /\ inventory[r].quantity \in Int
         /\ \E at \in Places, b \in Batches : r = <<at, b>> /\ Known(b)
<1>1. inventory[r] \in InventoryRow /\ r \in Places \X Batches /\ Known(r[2])
  BY DEF InventoryTyped
<1>2. \A k \in DOMAIN inventory : inventory[k] \in InventoryRow
  BY DEF InventoryTyped
<1>3. [inventory[r] EXCEPT !.quantity = q]
        = [quantity |-> q, reserved |-> inventory[r].reserved]
  BY <1>1 DEF InventoryRow
<1>4. [inventory EXCEPT ![r].quantity = q]
        = [k \in DOMAIN inventory |->
             IF k = r THEN [inventory[r] EXCEPT !.quantity = q] ELSE inventory[k]]
  BY DEF InventoryTyped
<1>5. DOMAIN inventory \cup {r} = DOMAIN inventory
  OBVIOUS
<1>6. [inventory EXCEPT ![r].quantity = q]
        = Upserted(r, [quantity |-> q, reserved |-> inventory[r].reserved])
  BY <1>3, <1>4, <1>5 DEF Upserted
<1>7. [inventory EXCEPT ![r] = [quantity |-> 0, reserved |-> 0]]
        = Upserted(r, [quantity |-> 0, reserved |-> 0])
  BY <1>5 DEF Upserted, InventoryTyped
<1>8. \E at \in Places, b \in Batches : r = <<at, b>> /\ Known(b)
  BY <1>1
<1>9. RowOf(r) = inventory[r] /\ inventory[r].reserved \in Nat /\ inventory[r].quantity \in Int
  BY <1>1 DEF RowOf, Stocked, InventoryRow
<1> QED
  BY <1>6, <1>7, <1>8, <1>9

LEMMA AdjustKeeps ==
  ASSUME LedgerTyped, NEW b \in Batches, NEW n \in CountedAmounts, adjustKitchenInventory(b, n)
  PROVE  LedgerStep /\ QuietStep
<1>1. PICK r : r = <<"kitchen", b>>
  OBVIOUS
<1>2. /\ r \in DOMAIN inventory /\ n \in Int /\ InventoryTyped /\ "kitchen" \in Places
  BY <1>1, LedgerAssumption DEF adjustKitchenInventory, Stocked, LedgerTyped, Places
<1>3. /\ [inventory EXCEPT ![r].quantity = n]
           = Upserted(r, [quantity |-> n, reserved |-> inventory[r].reserved])
      /\ RowOf(r) = inventory[r] /\ inventory[r].reserved \in Nat
      /\ inventory[r].quantity \in Int
  BY <1>2, RowStatements
<1>4. PICK d : d = n - RowOf(r).quantity
  OBVIOUS
<1>5. d \in Int /\ n = RowOf(r).quantity + d
  BY <1>2, <1>3, <1>4
<1>6. PICK type : type = IF d < 0 THEN "adjust_loss" ELSE "adjust_surplus"
  OBVIOUS
<1>7. type \in TransactionType /\ type \notin {"reservation", "release"}
  BY <1>6 DEF TransactionType
<1>8. ledger' = ledger \o <<Entry(r, type, d, 0)>>
  BY <1>1, <1>4, <1>6 DEF adjustKitchenInventory, createInventoryTransaction
<1>9. inventory' = Upserted(r, [quantity |-> n, reserved |-> inventory[r].reserved])
  BY <1>1, <1>3 DEF adjustKitchenInventory, updateInventoryPhysicalOnly
<1>10. /\ doubtful' = doubtful /\ day' = day /\ hold' = hold /\ claimItem' = claimItem
       /\ batchStatus' = batchStatus
  BY DEF adjustKitchenInventory
<1>11. StatusStep /\ Known(b)'
  <2>1. StatusStep
    BY <1>10, RestKept
  <2> QED
    BY <1>1, <1>2, <2>1 DEF InventoryTyped, StatusStep
<1>12. InventoryStep /\ \E m : BooksStep(m)
  BY <1>1, <1>2, <1>3, <1>5, <1>7, <1>8, <1>9, <1>10, <1>11, RowAndEntry
<1>13. /\ ledger' = ledger \o <<Entry(<<"kitchen", b>>, type, d, 0)>> /\ LedgerTyped
       /\ type # "export" /\ (type = "adjust_loss" => d <= 0)
  BY <1>1, <1>5, <1>6, <1>8
<1>14. QuietStep
  BY <1>5, <1>7, <1>10, <1>13, OneAside
<1> QED
  BY <1>10, <1>11, <1>12, <1>14, RestKept DEF LedgerStep

LEMMA WasteKeeps ==
  ASSUME LedgerTyped, NEW b \in Batches, NEW status \in {"damaged", "empty"},
         reportWaste(b, status)
  PROVE  LedgerStep /\ QuietStep
<1>1. PICK r : r = <<"kitchen", b>>
  OBVIOUS
<1>2. /\ r \in DOMAIN inventory /\ InventoryTyped /\ StatusTyped /\ "kitchen" \in Places
      /\ status \in BatchStatus /\ "waste" \in TransactionType
      /\ "waste" \notin {"reservation", "release"} /\ 0 \in Int /\ 0 \in Nat
  BY <1>1 DEF reportWaste, Stocked, LedgerTyped, Places, BatchStatus, TransactionType
<1>3. /\ [inventory EXCEPT ![r] = [quantity |-> 0, reserved |-> 0]]
           = Upserted(r, [quantity |-> 0, reserved |-> 0])
      /\ RowOf(r) = inventory[r] /\ inventory[r].quantity \in Int
  BY <1>2, RowStatements
<1>4. PICK d : d = 0 - inventory[r].quantity
  OBVIOUS
<1>5. d \in Int /\ 0 = RowOf(r).quantity + d
  BY <1>3, <1>4
<1>6. ledger' = ledger \o <<Entry(r, "waste", d, 0)>>
  BY <1>1, <1>4 DEF reportWaste, createInventoryTransaction
<1>7. inventory' = Upserted(r, [quantity |-> 0, reserved |-> 0])
  BY <1>1, <1>3 DEF reportWaste, zeroOutInventoryForBatch
<1>8. /\ doubtful' = doubtful /\ day' = day /\ hold' = hold /\ claimItem' = claimItem
      /\ batchStatus' = [batchStatus EXCEPT ![b] = status]
  BY DEF reportWaste
<1>9. StatusStep /\ Known(b)'
  BY <1>2, <1>8, StatusSet
<1>10. InventoryStep /\ \E m : BooksStep(m)
  BY <1>1, <1>2, <1>5, <1>6, <1>7, <1>8, <1>9, RowAndEntry
<1>11. ledger' = ledger \o <<Entry(<<"kitchen", b>>, "waste", d, 0)>> /\ LedgerTyped
  BY <1>1, <1>6
<1>12. QuietStep
  BY <1>2, <1>5, <1>8, <1>11, OneAside
<1> QED
  BY <1>8, <1>9, <1>10, <1>12, RestKept DEF LedgerStep

LEMMA CorrectKeeps ==
  ASSUME LedgerTyped, NEW b \in Batches, NEW n \in CountedAmounts,
         NEW status \in {batchStatus[b], "active"}, correctBatch(b, n, status)
  PROVE  LedgerStep /\ QuietStep
<1>1. PICK r : r = <<"kitchen", b>>
  OBVIOUS
<1>2. /\ n \in Int /\ InventoryTyped /\ StatusTyped /\ "kitchen" \in Places
      /\ "adjustment" \in TransactionType /\ "adjustment" \notin {"reservation", "release"}
  BY LedgerAssumption DEF LedgerTyped, Places, TransactionType
<1>3. status \in BatchStatus
  BY <1>2 DEF correctBatch, Known, StatusTyped, BatchStatus
<1>4. RowOf(r) \in InventoryRow /\ RowOf(r).quantity \in Int /\ RowOf(r).reserved \in Nat
  BY <1>2, AnyRow
<1>5. [RowOf(r) EXCEPT !.quantity = n] = [quantity |-> n, reserved |-> RowOf(r).reserved]
  BY <1>4 DEF InventoryRow
<1>6. inventory' = Upserted(r, [quantity |-> n, reserved |-> RowOf(r).reserved])
  BY <1>1, <1>5 DEF correctBatch
<1>7. ledger' = ledger \o <<Entry(r, "adjustment", n, 0)>>
  BY <1>1 DEF correctBatch, createInventoryTransaction
<1>8. /\ day' = day /\ hold' = hold /\ claimItem' = claimItem
      /\ batchStatus' = [batchStatus EXCEPT ![b] = status]
      /\ doubtful' = IF RowOf(r).quantity = 0 THEN doubtful ELSE doubtful \cup {r}
  BY <1>1 DEF correctBatch
<1>9. StatusStep /\ Known(b)'
  BY <1>2, <1>3, <1>8, StatusSet
<1>10. doubtful \subseteq doubtful' /\ (r \notin doubtful' => n = RowOf(r).quantity + n)
  BY <1>2, <1>4, <1>8
<1>11. /\ InventoryStep /\ r \in DOMAIN inventory' /\ \E m : BooksStep(m)
  BY <1>1, <1>2, <1>4, <1>6, <1>7, <1>9, <1>10, RowAndEntry
<1>12. doubtful' \subseteq DOMAIN inventory'
  BY <1>8, <1>11 DEF LedgerTyped, InventoryStep
<1>13. ledger' = ledger \o <<Entry(<<"kitchen", b>>, "adjustment", n, 0)>> /\ LedgerTyped
  BY <1>1, <1>7
<1>14. QuietStep
  BY <1>2, <1>8, <1>13, OneAside
<1> QED
  BY <1>8, <1>9, <1>11, <1>12, <1>14, RestKept DEF LedgerStep

(* Rows rewritten all at once. *)
LEMMA RowsAndEntries ==
  ASSUME LedgerTyped, StatusStep, NEW rows, inventory' = rows,
         rows = [r \in DOMAIN inventory |-> rows[r]],
         \A r \in DOMAIN inventory : rows[r] \in InventoryRow,
         NEW m \in Entries, ledger' = ledger \o m, doubtful' = doubtful,
         \A r \in DOMAIN inventory : rows[r].quantity = inventory[r].quantity + Booked(m, r),
         \A r \in (Places \X Batches) \ DOMAIN inventory : Booked(m, r) = 0
  PROVE  InventoryStep /\ BooksStep(m)
<1>1. InventoryTyped
  BY DEF LedgerTyped
<1>2. /\ InventoryStep
      /\ \A r : RowOf(r)' = IF Stocked(r) THEN rows[r] ELSE RowOf(r)
  BY <1>1, RowsRewritten
<1>3. ASSUME NEW r \in Places \X Batches
      PROVE  RowOf(r)'.quantity = RowOf(r).quantity + Booked(m, r)
  <2>1. RowOf(r).quantity \in Int
    BY <1>1, AnyRow
  <2>2. CASE Stocked(r)
    BY <1>2, <2>2 DEF RowOf, Stocked
  <2>3. CASE ~Stocked(r)
    <3>1. Booked(m, r) = 0 /\ RowOf(r)' = RowOf(r)
      BY <1>2, <2>3 DEF Stocked
    <3> QED
      BY <2>1, <3>1
  <2> QED
    BY <2>2, <2>3
<1> QED
  BY <1>2, <1>3 DEF BooksStep

LEMMA ReserveKeeps ==
  ASSUME LedgerTyped, NEW a \in Articles, NEW n \in OrderAmounts, NEW more \in Nat,
         lockStockForOrder(a, n, more)
  PROVE  LedgerStep /\ QuietStep
<1>1. PICK S : S = findBatchesForFEFOWithShelfBuffer(a, day + MinShelfLife[a])
  OBVIOUS
<1>2. S \subseteq {b \in Batches : Known(b)} /\ \A b \in S : Stocked(<<"kitchen", b>>)
  BY <1>1 DEF findBatchesForFEFOWithShelfBuffer, BatchesOf
<1>3. PICK s \in FefoOrders(S) :
        LET line == PickedForLines(s, n, more)
        IN /\ Reserving(line) /\ Keep(line, "reserved")
           /\ createInventoryTransaction(
                [i \in DOMAIN line |-> Entry(<<"kitchen", line[i].batch>>, "reservation",
                                             line[i].quantity, NextOrder)])
  BY <1>1 DEF lockStockForOrder
<1>4. PICK takes : takes = PickedForLines(s, n, more)
  OBVIOUS
<1>5. n \in Nat /\ S \in SUBSET Batches
  BY <1>2, LedgerAssumption
<1>6. takes \in Seq(Take) /\ \A i \in DOMAIN takes : Stocked(<<"kitchen", takes[i].batch>>)
  <2>1. takes \in Seq([batch : S, quantity : Nat])
    BY <1>2, <1>4, <1>5, OffersOfLedger
  <2> QED
    BY <1>2, <1>5, <2>1, TakesOfLedger
<1>7. /\ doubtful' = doubtful /\ day' = day /\ claimItem' = claimItem
      /\ batchStatus' = batchStatus
  BY DEF lockStockForOrder
<1>8. StatusStep
  BY <1>7, RestKept
<1>9. /\ InventoryStep /\ DOMAIN inventory' = DOMAIN inventory
      /\ \A r : RowOf(r)'.quantity = RowOf(r).quantity
  BY <1>3, <1>4, <1>6, <1>8, ReservingStep
<1>10. /\ HoldStep
       /\ \A i \in DOMAIN hold' \ DOMAIN hold :
            \E j \in DOMAIN takes : hold'[i].batch = takes[j].batch
       /\ HoldsAside
  BY <1>3, <1>4, <1>6, KeepStep DEF LedgerTyped, HoldsTyped
<1>11. \A i \in DOMAIN hold' \ DOMAIN hold : Stocked(<<"kitchen", hold'[i].batch>>)
  BY <1>6, <1>10
<1>12. PICK k : k = Len(takes)
  OBVIOUS
<1>13. k \in Nat /\ DOMAIN takes = 1..k /\ \A i \in 1..k : takes[i] \in Take
  BY <1>6, <1>12
<1>14. PICK batch : batch = [i \in 1..k |-> takes[i].batch]
  OBVIOUS
<1>15. PICK change : change = [i \in 1..k |-> takes[i].quantity]
  OBVIOUS
<1>16. PICK m : m = [i \in 1..k |-> Entry(<<"kitchen", batch[i]>>, "reservation", change[i],
                                          NextOrder)]
  OBVIOUS
<1>17. \A i \in 1..k : batch[i] \in Batches /\ change[i] \in Int
  BY <1>13, <1>14, <1>15 DEF Take
<1>18. NextOrder \in Nat
  BY HoldFacts DEF NextOrder, LedgerTyped, HoldsTyped
<1>19. /\ m \in Entries /\ \A r \in Places \X Batches : Booked(m, r) = 0
       /\ \A i \in DOMAIN m : OffTheRoad(m[i])
  <2>1. ASSUME NEW i \in 1..k
        PROVE  m[i] \in TransactionRow /\ m[i].type = "reservation" /\ m[i].at = "kitchen"
    <3>1. batch[i] \in Batches /\ change[i] \in Int /\ NextOrder \in Nat
          /\ "kitchen" \in Places /\ "reservation" \in TransactionType
      BY <1>17, <1>18 DEF Places, TransactionType
    <3>2. m[i] = Entry(<<"kitchen", batch[i]>>, "reservation", change[i], NextOrder)
      BY <1>16
    <3> QED
      BY <3>1, <3>2, EntryTyped
  <2>2. m \in [1..k -> TransactionRow] /\ \A i \in 1..k : m[i].type \in {"reservation", "release"}
    BY <1>16, <2>1
  <2>3. \A i \in DOMAIN m : OffTheRoad(m[i])
    BY <1>16, <2>1 DEF OffTheRoad
  <2> QED
    BY <1>13, <2>2, <2>3, QuietEntries
<1>20. m = [i \in DOMAIN takes |-> Entry(<<"kitchen", takes[i].batch>>, "reservation",
                                        takes[i].quantity, NextOrder)]
  BY <1>13, <1>14, <1>15, <1>16
<1>21. ledger' = ledger \o m
  BY <1>3, <1>4, <1>20 DEF createInventoryTransaction
<1>22. \A r \in Places \X Batches : RowOf(r).quantity \in Int
  BY AnyRow DEF LedgerTyped
<1>23. BooksStep(m)
  BY <1>7, <1>9, <1>19, <1>21, <1>22 DEF BooksStep
<1>24. QuietStep
  BY <1>7, <1>10, <1>19, <1>21 DEF QuietStep, Aside
<1> QED
  BY <1>7, <1>8, <1>9, <1>10, <1>11, <1>23, <1>24, RestKept DEF LedgerStep

LEMMA ReleaseKeeps ==
  ASSUME LedgerTyped, NEW order \in Nat, releaseStock(order)
  PROVE  LedgerStep /\ QuietStep
<1>1. PICK R : R = {i \in DOMAIN ledger : ledger[i].type = "reservation"
                                          /\ ledger[i].reference = order}
  OBVIOUS
<1>2. /\ R \subseteq DOMAIN ledger /\ IsFiniteSet(R)
      /\ \A i \in R : ledger[i] \in TransactionRow /\ ledger[i].change \in Int
  BY <1>1, EntriesFinite, FS_Subset DEF LedgerTyped
<1>3. PICK s : s = SetToSeq(R)
  OBVIOUS
<1>4. PICK n : n = Cardinality(R)
  OBVIOUS
<1>5. n \in Nat /\ s \in [1..n -> R]
  BY <1>2, <1>3, <1>4, SetToSeqPlaces
<1> DEFINE Back(r) == Total([i \in {k \in R : <<"kitchen", ledger[k].batch>> = r}
                              |-> ledger[i].change])
<1>6. /\ inventory' = [r \in DOMAIN inventory |->
             [inventory[r] EXCEPT !.reserved = Maximum(@ - Back(r), 0)]]
      /\ createInventoryTransaction(
             [i \in DOMAIN s |-> Entry(<<"kitchen", ledger[s[i]].batch>>, "release",
                                       ledger[s[i]].change, order)])
      /\ HoldsBecome(HoldsOf(order, "reserved"), "released")
  BY <1>1, <1>3 DEF releaseStock
<1>7. /\ doubtful' = doubtful /\ day' = day /\ claimItem' = claimItem
      /\ batchStatus' = batchStatus
  BY DEF releaseStock
<1>8. ASSUME NEW r PROVE Back(r) \in Int
  <2>1. PICK F : F = {k \in R : <<"kitchen", ledger[k].batch>> = r}
    OBVIOUS
  <2>2. PICK f : f = [i \in F |-> ledger[i].change]
    OBVIOUS
  <2>3. IsFiniteSet(F) /\ Ints(f, F) /\ DOMAIN f = F
    BY <1>2, <2>1, <2>2, FS_Subset DEF Ints
  <2>4. Total(f) \in Int
    BY <2>3, TotalIsSum, SumType
  <2> QED
    BY <2>1, <2>2, <2>4
<1> HIDE DEF Back
<1>9. StatusStep /\ HoldStep /\ DOMAIN hold' = DOMAIN hold
  BY <1>6, <1>7, RestKept, StatusesOfHolds DEF LedgerTyped, HoldsTyped
<1>10. PICK rows : rows = inventory'
  OBVIOUS
<1>11. ASSUME NEW r \in DOMAIN inventory
       PROVE  rows[r] \in InventoryRow /\ rows[r].quantity = inventory[r].quantity
              /\ inventory[r].quantity \in Int
  <2>1. inventory[r] \in InventoryRow /\ inventory[r].quantity \in Int
        /\ inventory[r].reserved \in Nat
    BY DEF LedgerTyped, InventoryTyped, InventoryRow
  <2>2. PICK k : k = Maximum(inventory[r].reserved - Back(r), 0)
    OBVIOUS
  <2>3. k \in Nat
    BY <1>8, <2>1, <2>2 DEF Maximum
  <2>4. rows[r] = [inventory[r] EXCEPT !.reserved = k]
    BY <1>6, <1>10, <2>2
  <2> QED
    BY <2>1, <2>3, <2>4, ReservedSet
<1>12. rows = [r \in DOMAIN inventory |-> rows[r]]
  BY <1>6, <1>10
<1>13. PICK batch : batch = [i \in 1..n |-> ledger[s[i]].batch]
  OBVIOUS
<1>14. PICK change : change = [i \in 1..n |-> ledger[s[i]].change]
  OBVIOUS
<1>15. PICK m : m = [i \in 1..n |-> Entry(<<"kitchen", batch[i]>>, "release", change[i], order)]
  OBVIOUS
<1>16. \A i \in 1..n : batch[i] \in Batches /\ change[i] \in Int
  BY <1>2, <1>5, <1>13, <1>14 DEF TransactionRow
<1>17. /\ m \in Entries /\ \A r \in Places \X Batches : Booked(m, r) = 0
       /\ \A i \in DOMAIN m : OffTheRoad(m[i])
  <2>1. ASSUME NEW i \in 1..n
        PROVE  m[i] \in TransactionRow /\ m[i].type = "release" /\ m[i].at = "kitchen"
    <3>1. batch[i] \in Batches /\ change[i] \in Int /\ order \in Nat
          /\ "kitchen" \in Places /\ "release" \in TransactionType
      BY <1>16 DEF Places, TransactionType
    <3>2. m[i] = Entry(<<"kitchen", batch[i]>>, "release", change[i], order)
      BY <1>15
    <3> QED
      BY <3>1, <3>2, EntryTyped
  <2>2. m \in [1..n -> TransactionRow] /\ \A i \in 1..n : m[i].type \in {"reservation", "release"}
    BY <1>15, <2>1
  <2>3. \A i \in DOMAIN m : OffTheRoad(m[i])
    BY <1>15, <2>1 DEF OffTheRoad
  <2> QED
    BY <1>5, <2>2, <2>3, QuietEntries
<1>18. m = [i \in DOMAIN s |-> Entry(<<"kitchen", ledger[s[i]].batch>>, "release",
                                     ledger[s[i]].change, order)]
  BY <1>5, <1>13, <1>14, <1>15
<1>19. ledger' = ledger \o m
  BY <1>6, <1>18 DEF createInventoryTransaction
<1>20. \A r \in DOMAIN inventory : r \in Places \X Batches
  BY DEF LedgerTyped, InventoryTyped
<1>21. \A r \in DOMAIN inventory : rows[r].quantity = inventory[r].quantity + Booked(m, r)
  BY <1>11, <1>17, <1>20
<1>22. InventoryStep /\ BooksStep(m)
  BY <1>7, <1>9, <1>10, <1>11, <1>12, <1>17, <1>19, <1>21, RowsAndEntries
<1>23. HoldsAside
  <2>1. PICK S : S = HoldsOf(order, "reserved")
    OBVIOUS
  <2>2. S \in SUBSET DOMAIN hold /\ \A i \in S : hold[i].status \notin Out
    BY <2>1 DEF HoldsOf, Out
  <2>3. HoldsBecome(S, "released") /\ "released" \in {"released", "consumed"}
    BY <1>6, <2>1
  <2> QED
    BY <2>2, <2>3, StatusesAside DEF LedgerTyped, HoldsTyped
<1>24. QuietStep
  BY <1>7, <1>17, <1>19, <1>23 DEF QuietStep, Aside
<1> QED
  BY <1>7, <1>9, <1>22, <1>24, RestKept DEF LedgerStep

(* Held goods that leave the rows and are written off, all together; a row   *)
(* that is not there holds nothing.                                        *)
LEMMA HeldRowsStocked ==
  ASSUME HoldsTyped, NEW S \in SUBSET DOMAIN hold, NEW b, ~Stocked(<<"kitchen", b>>)
  PROVE  HeldIn(S, b) = 0
<1>1. \A i \in S : HoldsIn(S, b)[i] = 0
  BY DEF HoldsTyped, HoldsIn
<1>2. IsFiniteSet(S) /\ HeldIn(S, b) = SumOver(HoldsIn(S, b), S)
  BY HeldIsSum DEF HoldsTyped
<1> QED
  BY <1>1, <1>2, SumOfZeros

LEMMA WrittenOff ==
  ASSUME LedgerTyped, NEW S \in SUBSET DOMAIN hold, NEW r \in DOMAIN inventory,
         NEW q, q = IF r[1] = "kitchen" THEN HeldIn(S, r[2]) ELSE 0
  PROVE  LET row == [quantity |-> inventory[r].quantity - q,
                     reserved |-> Maximum(inventory[r].reserved - q, 0)]
         IN row \in InventoryRow /\ row.quantity = inventory[r].quantity + (0 - q) /\ q \in Nat
<1>1. q \in Nat
  BY HeldIsSum DEF LedgerTyped, HoldsTyped
<1>2. inventory[r].quantity \in Int /\ inventory[r].reserved \in Nat
  BY DEF LedgerTyped, InventoryTyped, InventoryRow
<1>3. Maximum(inventory[r].reserved - q, 0) \in Nat
  BY <1>1, <1>2 DEF Maximum
<1> QED
  BY <1>1, <1>2, <1>3 DEF InventoryRow

LEMMA ExportKeeps ==
  ASSUME LedgerTyped, NEW order \in Nat, export(order)
  PROVE  LedgerStep
<1>1. PICK S : S = HoldsOf(order, "reserved")
  OBVIOUS
<1>2. S \in SUBSET DOMAIN hold
  BY <1>1 DEF HoldsOf
<1>3. PICK m : m = Debits(S, "export")
  OBVIOUS
<1>4. /\ doubtful' = doubtful /\ day' = day /\ claimItem' = claimItem
      /\ batchStatus' = batchStatus
  BY DEF export
<1>5. StatusStep /\ HoldStep /\ DOMAIN hold' = DOMAIN hold
  <2>1. HoldsBecome(S, "in_transit")
    BY <1>1 DEF export
  <2> QED
    BY <1>4, <2>1, RestKept, StatusesOfHolds DEF LedgerTyped, HoldsTyped
<1>6. ledger' = ledger \o m
  BY <1>1, <1>3 DEF export, createInventoryTransaction
<1>7. /\ m \in Entries
      /\ \A r \in Places \X Batches :
           Booked(m, r) = IF r[1] = "kitchen" THEN 0 - HeldIn(S, r[2]) ELSE 0
  BY <1>2, <1>3, DebitsBooked
<1>8. PICK rows : rows = inventory'
  OBVIOUS
<1>9. decreasePhysicalAndReserved(S)
  BY <1>1 DEF export
<1>10. rows = [r \in DOMAIN inventory |-> rows[r]]
  BY <1>8, <1>9 DEF decreasePhysicalAndReserved
<1>11. \A r \in DOMAIN inventory : r \in Places \X Batches
  BY DEF LedgerTyped, InventoryTyped
<1>12. ASSUME NEW r \in DOMAIN inventory
       PROVE  rows[r] \in InventoryRow
              /\ rows[r].quantity = inventory[r].quantity + Booked(m, r)
  <2>1. PICK q : q = IF r[1] = "kitchen" THEN HeldIn(S, r[2]) ELSE 0
    OBVIOUS
  <2>2. rows[r] = [quantity |-> inventory[r].quantity - q,
                   reserved |-> Maximum(inventory[r].reserved - q, 0)]
    BY <1>8, <1>9, <2>1 DEF decreasePhysicalAndReserved
  <2>3. rows[r] \in InventoryRow /\ rows[r].quantity = inventory[r].quantity + (0 - q) /\ q \in Nat
    BY <1>2, <2>1, <2>2, WrittenOff
  <2>4. Booked(m, r) = 0 - q
    BY <1>7, <1>11, <2>1
  <2> QED
    BY <2>3, <2>4
<1>13. ASSUME NEW r \in (Places \X Batches) \ DOMAIN inventory PROVE Booked(m, r) = 0
  <2>1. CASE r[1] = "kitchen"
    <3>1. r = <<"kitchen", r[2]>>
      BY <2>1
    <3>2. HeldIn(S, r[2]) = 0
      BY <1>2, <3>1, HeldRowsStocked DEF LedgerTyped, Stocked
    <3> QED
      BY <1>7, <2>1, <3>2
  <2>2. CASE r[1] # "kitchen"
    BY <1>7, <2>2
  <2> QED
    BY <2>1, <2>2
<1>14. InventoryStep /\ BooksStep(m)
  BY <1>4, <1>5, <1>6, <1>7, <1>8, <1>10, <1>12, <1>13, RowsAndEntries
<1> QED
  BY <1>4, <1>5, <1>14, RestKept DEF LedgerStep

LEMMA StartProductionKeeps ==
  ASSUME LedgerTyped, NEW a \in Articles, NEW n \in OrderAmounts, startProduction(a, n)
  PROVE  LedgerStep /\ QuietStep
<1>1. PICK S : S = {b \in BatchesOf(a) : Spare(<<"kitchen", b>>) > 0}
  OBVIOUS
<1>2. ASSUME NEW b \in S PROVE Stocked(<<"kitchen", b>>)
  BY <1>1, <1>2 DEF Spare, RowOf
<1>3. S \subseteq {b \in Batches : Known(b)}
  BY <1>1 DEF BatchesOf
<1>4. PICK s \in FefoOrders(S) :
        Reserving(Picked(s, Takes(s, n))) /\ Keep(Picked(s, Takes(s, n)), "cooking")
  BY <1>1 DEF startProduction
<1>5. PICK takes : takes = Picked(s, Takes(s, n))
  OBVIOUS
<1>6. n \in Nat /\ S \in SUBSET Batches
  BY <1>3, LedgerAssumption
<1>7. takes \in Seq(Take) /\ \A i \in DOMAIN takes : Stocked(<<"kitchen", takes[i].batch>>)
  <2>1. takes \in Seq([batch : S, quantity : Nat])
    BY <1>2, <1>3, <1>5, <1>6, OffersOfLedger
  <2> QED
    BY <1>2, <1>6, <2>1, TakesOfLedger
<1>8. /\ doubtful' = doubtful /\ day' = day /\ claimItem' = claimItem
      /\ batchStatus' = batchStatus /\ ledger' = ledger
  BY DEF startProduction
<1>9. StatusStep
  BY <1>8, RestKept
<1>10. /\ InventoryStep /\ DOMAIN inventory' = DOMAIN inventory
       /\ \A r : RowOf(r)'.quantity = RowOf(r).quantity
  BY <1>4, <1>5, <1>7, <1>9, ReservingStep
<1>11. /\ HoldStep
       /\ \A i \in DOMAIN hold' \ DOMAIN hold :
            \E j \in DOMAIN takes : hold'[i].batch = takes[j].batch
       /\ HoldsAside
  BY <1>4, <1>5, <1>7, KeepStep DEF LedgerTyped, HoldsTyped
<1>12. \A i \in DOMAIN hold' \ DOMAIN hold : Stocked(<<"kitchen", hold'[i].batch>>)
  BY <1>7, <1>11
<1>13. BooksStep(<<>>)
  BY <1>8, <1>10, QuietBooks
<1>14. QuietStep
  BY <1>8, <1>11, NothingAside DEF QuietStep
<1> QED
  BY <1>8, <1>9, <1>10, <1>11, <1>12, <1>13, <1>14, RestKept DEF LedgerStep

LEMMA NextDayKeeps ==
  ASSUME LedgerTyped, nextDay
  PROVE  LedgerStep /\ QuietStep
<1>1. /\ doubtful' = doubtful /\ claimItem' = claimItem /\ inventory' = inventory
      /\ batchStatus' = batchStatus /\ ledger' = ledger /\ hold' = hold
  BY DEF nextDay
<1>2. day' \in 0..LastDay
  BY LedgerAssumption DEF nextDay, LedgerTyped
<1>3. StatusStep /\ HoldStep /\ DOMAIN hold' = DOMAIN hold
  BY <1>1, RestKept
<1>4. InventoryStep /\ \A r : RowOf(r)' = RowOf(r)
  BY <1>1, <1>3, InventoryKept DEF LedgerTyped
<1>5. BooksStep(<<>>)
  BY <1>1, <1>4, QuietBooks
<1>6. QuietStep
  BY <1>1, NothingAside, HoldsStayAside DEF QuietStep
<1> QED
  BY <1>1, <1>2, <1>3, <1>4, <1>5, <1>6, RestKept DEF LedgerStep

LEMMA ExpireKeeps ==
  ASSUME LedgerTyped, runAutoExpireExpiredBatches
  PROVE  LedgerStep /\ QuietStep
<1>1. /\ doubtful' = doubtful /\ claimItem' = claimItem /\ day' = day
      /\ ledger' = ledger /\ hold' = hold
  BY DEF runAutoExpireExpiredBatches
<1>2. StatusStep
  <2>1. /\ batchStatus' \in [Batches -> BatchStatus \cup {"none"}]
        /\ \A b \in Batches : Known(b)' <=> Known(b)
    BY DEF runAutoExpireExpiredBatches, listBatchesToExpire, LedgerTyped, StatusTyped, BatchStatus,
           Known
  <2>2. {b \in Batches : Known(b)'} = {b \in Batches : Known(b)}
    BY <2>1
  <2>3. IsFiniteSet({b \in Batches : Known(b)'})
    BY <2>2, Zenon DEF LedgerTyped, StatusTyped
  <2> QED
    BY <2>1, <2>3 DEF StatusStep, StatusTyped, Known
<1>3. PICK rows : rows = inventory'
  OBVIOUS
<1>4. clearReservedForBatchInventory(listBatchesToExpire)
  BY DEF runAutoExpireExpiredBatches
<1>5. rows = [r \in DOMAIN inventory |-> rows[r]]
  BY <1>3, <1>4 DEF clearReservedForBatchInventory
<1>6. ASSUME NEW r \in DOMAIN inventory
      PROVE  rows[r] \in InventoryRow /\ rows[r].quantity = inventory[r].quantity
  <2>1. inventory[r] \in InventoryRow /\ 0 \in Nat
    BY DEF LedgerTyped, InventoryTyped
  <2>2. rows[r] = [inventory[r] EXCEPT !.reserved = 0] \/ rows[r] = inventory[r]
    BY <1>3, <1>4 DEF clearReservedForBatchInventory
  <2> QED
    BY <2>1, <2>2, ReservedSet
<1>7. /\ InventoryStep /\ DOMAIN inventory' = DOMAIN inventory
      /\ \A r : RowOf(r)' = IF Stocked(r) THEN rows[r] ELSE RowOf(r)
  BY <1>2, <1>3, <1>5, <1>6, RowsRewritten DEF LedgerTyped
<1>8. \A r : RowOf(r)'.quantity = RowOf(r).quantity
  BY <1>6, <1>7 DEF RowOf, Stocked
<1>9. BooksStep(<<>>)
  BY <1>1, <1>8, QuietBooks
<1>10. QuietStep
  BY <1>1, NothingAside, HoldsStayAside DEF QuietStep
<1> QED
  BY <1>1, <1>2, <1>7, <1>9, <1>10, RestKept DEF LedgerStep

LEMMA BookedEmpty == <<>> \in Entries /\ \A r : Booked(<<>>, r) = 0
<1>1. <<>> \in Entries /\ DOMAIN <<>> = {}
  BY DEF Entries
<1> QED
  BY <1>1, BookedNothing

(* What is written of an output: entries of its row, and the quantity made  *)
(* when it is the quantity planned.                                        *)
LEMMA OutputBooked ==
  ASSUME LedgerTyped, NEW b \in Batches, NEW planned \in Int, NEW actual \in Int
  PROVE  LET m == OutputEntries(b, planned, actual)
         IN /\ m \in Entries
            /\ \A r \in Places \X Batches : r # <<"kitchen", b>> => Booked(m, r) = 0
            /\ actual = planned => Booked(m, <<"kitchen", b>>) = actual
            /\ \A i \in DOMAIN m : OffTheRoad(m[i])
<1>1. /\ "kitchen" \in Places /\ {"production_output", "waste", "adjustment"} \subseteq TransactionType
      /\ "production_output" \notin {"reservation", "release"}
      /\ "waste" \notin {"reservation", "release"}
      /\ "adjustment" \notin {"reservation", "release"}
      /\ 0 \in Nat /\ actual - planned \in Int
  BY DEF Places, TransactionType
<1>2. PICK r : r = <<"kitchen", b>>
  OBVIOUS
<1>3. PICK made : made = <<Entry(r, "production_output", actual, 0)>>
  OBVIOUS
<1>4. PICK loss : loss = <<Entry(r, "waste", actual - planned, 0)>>
  OBVIOUS
<1>5. PICK more : more = <<Entry(r, "adjustment", actual - planned, 0)>>
  OBVIOUS
<1>6. made \in Entries
      /\ \A k \in Places \X Batches : Booked(made, k) = IF k = r THEN actual ELSE 0
  BY <1>1, <1>2, <1>3, OneEntry
<1>7. loss \in Entries
      /\ \A k \in Places \X Batches : Booked(loss, k) = IF k = r THEN actual - planned ELSE 0
  BY <1>1, <1>2, <1>4, OneEntry
<1>8. more \in Entries
      /\ \A k \in Places \X Batches : Booked(more, k) = IF k = r THEN actual - planned ELSE 0
  BY <1>1, <1>2, <1>5, OneEntry
<1>9. PICK second : second = IF actual < planned THEN loss ELSE <<>>
  OBVIOUS
<1>10. PICK third : third = IF actual > planned THEN more ELSE <<>>
  OBVIOUS
<1>11. OutputEntries(b, planned, actual) = made \o second \o third
  BY <1>2, <1>3, <1>4, <1>5, <1>9, <1>10 DEF OutputEntries
<1>12. /\ second \in Entries /\ third \in Entries
       /\ \A k \in Places \X Batches : k # r => Booked(second, k) = 0 /\ Booked(third, k) = 0
       /\ actual = planned => Booked(second, r) = 0 /\ Booked(third, r) = 0
  BY <1>7, <1>8, <1>9, <1>10, BookedEmpty
<1>13. /\ made \o second \in Entries
       /\ \A k : Booked(made \o second, k) = Booked(made, k) + Booked(second, k)
  BY <1>6, <1>12, BookedMore
<1>14. PICK two : two = made \o second
  OBVIOUS
<1>15. /\ two \o third \in Entries
       /\ \A k : Booked(two \o third, k) = Booked(two, k) + Booked(third, k)
  BY <1>12, <1>13, <1>14, BookedMore
<1>16. r \in Places \X Batches
  BY <1>1, <1>2
<1>17. \A k \in Places \X Batches : k # r => Booked(two \o third, k) = 0
  <2> SUFFICES ASSUME NEW k \in Places \X Batches, k # r PROVE Booked(two \o third, k) = 0
    OBVIOUS
  <2>1. Booked(made, k) = 0 /\ Booked(second, k) = 0 /\ Booked(third, k) = 0
    BY <1>6, <1>12
  <2> QED
    BY <1>13, <1>14, <1>15, <2>1
<1>18. actual = planned => Booked(two \o third, r) = actual
  <2> SUFFICES ASSUME actual = planned PROVE Booked(two \o third, r) = actual
    OBVIOUS
  <2>1. Booked(made, r) = actual /\ Booked(second, r) = 0 /\ Booked(third, r) = 0
    BY <1>6, <1>12, <1>16
  <2> QED
    BY <1>13, <1>14, <1>15, <2>1
<1>19. ASSUME NEW type \in {"production_output", "waste", "adjustment"}, NEW change \in Int
       PROVE  OffTheRoad(Entry(r, type, change, 0))
  <2>1. type \in TransactionType
    BY <1>1
  <2>2. /\ Entry(<<"kitchen", b>>, type, change, 0).at = "kitchen"
        /\ Entry(<<"kitchen", b>>, type, change, 0).type = type
    BY <1>1, <2>1, EntryTyped
  <2> QED
    BY <1>2, <2>2 DEF OffTheRoad
<1>20. /\ \A i \in DOMAIN made : OffTheRoad(made[i])
       /\ \A i \in DOMAIN second : OffTheRoad(second[i])
       /\ \A i \in DOMAIN third : OffTheRoad(third[i])
  <2>1. \A i \in DOMAIN made : OffTheRoad(made[i])
    BY <1>3, <1>19
  <2>2. \A i \in DOMAIN loss : OffTheRoad(loss[i])
    BY <1>1, <1>4, <1>19
  <2>3. \A i \in DOMAIN more : OffTheRoad(more[i])
    BY <1>1, <1>5, <1>19
  <2> QED
    BY <1>9, <1>10, <2>1, <2>2, <2>3
<1>21. \A i \in DOMAIN two : OffTheRoad(two[i])
  BY <1>6, <1>12, <1>14, <1>20, AsideTogether
<1>22. \A i \in DOMAIN (two \o third) : OffTheRoad((two \o third)[i])
  <2>1. two \in Entries
    BY <1>13, <1>14
  <2> QED
    BY <1>12, <1>20, <1>21, <2>1, AsideTogether
<1> QED
  BY <1>2, <1>11, <1>14, <1>15, <1>17, <1>18, <1>22

LEMMA FinishProductionKeeps ==
  ASSUME LedgerTyped, NEW order \in Nat, NEW b \in Batches, NEW actual \in CountedAmounts,
         finishProduction(order, b, actual)
  PROVE  LedgerStep /\ QuietStep
<1>1. PICK S : S = HoldsOf(order, "cooking")
  OBVIOUS
<1>2. S \in SUBSET DOMAIN hold
  BY <1>1 DEF HoldsOf
<1>3. PICK planned : planned = Total([i \in S |-> hold[i].quantity])
  OBVIOUS
<1>4. planned \in Int
  <2>1. PICK f : f = [i \in S |-> hold[i].quantity]
    OBVIOUS
  <2>2. IsFiniteSet(S) /\ Ints(f, S) /\ DOMAIN f = S
    BY <1>2, <2>1, HoldFacts, FS_Subset DEF Ints, LedgerTyped, HoldsTyped
  <2> QED
    BY <1>3, <2>1, <2>2, TotalIsSum, SumType
<1>5. PICK r : r = <<"kitchen", b>>
  OBVIOUS
<1>6. actual \in Int /\ "available" \in BatchStatus /\ "kitchen" \in Places /\ StatusTyped
      /\ InventoryTyped
  BY LedgerAssumption DEF BatchStatus, Places, LedgerTyped
<1>7. ~Stocked(r) /\ r \in Places \X Batches /\ RowOf(r).quantity = 0
  <2>1. ~Known(b)
    BY DEF finishProduction
  <2>2. ~Stocked(r)
    BY <1>5, <1>6, <2>1 DEF InventoryTyped, Stocked
  <2> QED
    BY <1>5, <1>6, <2>2 DEF RowOf
<1>8. /\ day' = day /\ claimItem' = claimItem
      /\ batchStatus' = [batchStatus EXCEPT ![b] = "available"]
      /\ doubtful' = IF actual = planned THEN doubtful ELSE doubtful \cup {r}
  BY <1>1, <1>3, <1>5 DEF finishProduction
<1>9. StatusStep /\ Known(b)'
  BY <1>6, <1>8, StatusSet
<1>10. HoldStep /\ DOMAIN hold' = DOMAIN hold
  <2>1. HoldsBecome(S, "consumed")
    BY <1>1 DEF finishProduction
  <2> QED
    BY <2>1, StatusesOfHolds DEF LedgerTyped, HoldsTyped
<1>11. PICK debits : debits = Debits(S, "production_consume")
  OBVIOUS
<1>12. PICK output : output = OutputEntries(b, planned, actual)
  OBVIOUS
<1>13. PICK m : m = debits \o output
  OBVIOUS
<1>14. ledger' = ledger \o m
  BY <1>1, <1>3, <1>11, <1>12, <1>13 DEF finishProduction, createInventoryTransaction
<1>15. /\ debits \in Entries
       /\ \A k \in Places \X Batches :
            Booked(debits, k) = IF k[1] = "kitchen" THEN 0 - HeldIn(S, k[2]) ELSE 0
       /\ \A i \in DOMAIN debits : OffTheRoad(debits[i])
  BY <1>2, <1>11, DebitsBooked
<1>16. /\ output \in Entries
       /\ \A k \in Places \X Batches : k # r => Booked(output, k) = 0
       /\ actual = planned => Booked(output, r) = actual
       /\ \A i \in DOMAIN output : OffTheRoad(output[i])
  BY <1>4, <1>5, <1>6, <1>12, OutputBooked
<1>17. /\ m \in Entries
       /\ \A k : Booked(m, k) = Booked(debits, k) + Booked(output, k)
  BY <1>13, <1>15, <1>16, BookedMore
<1>18. PICK rows : rows = inventory'
  OBVIOUS
<1>19. /\ rows = [k \in DOMAIN inventory \cup {r} |-> rows[k]]
       /\ rows[r] = [quantity |-> actual, reserved |-> 0]
       /\ \A k \in DOMAIN inventory :
            LET q == IF k[1] = "kitchen" THEN HeldIn(S, k[2]) ELSE 0
            IN rows[k] = [quantity |-> inventory[k].quantity - q,
                          reserved |-> Maximum(inventory[k].reserved - q, 0)]
  <2>1. rows = [k \in DOMAIN inventory \cup {r} |->
             LET q == IF k[1] = "kitchen" THEN HeldIn(S, k[2]) ELSE 0
             IN IF k = r THEN [quantity |-> actual, reserved |-> 0]
                ELSE [quantity |-> inventory[k].quantity - q,
                      reserved |-> Maximum(inventory[k].reserved - q, 0)]]
    BY <1>1, <1>5, <1>18 DEF finishProduction
  <2>2. \A k \in DOMAIN inventory : k # r
    BY <1>7 DEF Stocked
  <2> QED
    BY <2>1, <2>2
<1>20. \A k \in DOMAIN inventory : k \in Places \X Batches
  BY <1>6 DEF InventoryTyped
<1>21. ASSUME NEW k \in DOMAIN inventory
       PROVE  rows[k] \in InventoryRow
              /\ rows[k].quantity = inventory[k].quantity + Booked(debits, k)
  <2>1. PICK q : q = IF k[1] = "kitchen" THEN HeldIn(S, k[2]) ELSE 0
    OBVIOUS
  <2>2. rows[k] = [quantity |-> inventory[k].quantity - q,
                   reserved |-> Maximum(inventory[k].reserved - q, 0)]
    BY <1>19, <2>1
  <2>3. LET row == [quantity |-> inventory[k].quantity - q,
                    reserved |-> Maximum(inventory[k].reserved - q, 0)]
        IN row \in InventoryRow /\ row.quantity = inventory[k].quantity + (0 - q) /\ q \in Nat
    BY <1>2, <2>1, WrittenOff
  <2>4. Booked(debits, k) = 0 - q
    BY <1>15, <1>20, <2>1
  <2> QED
    BY <2>2, <2>3, <2>4
<1>22. rows[r] \in InventoryRow /\ rows[r].quantity = actual
  BY <1>6, <1>19 DEF InventoryRow
<1>23. InventoryStep
  <2>1. \A k \in DOMAIN inventory : k[2] \in Batches /\ Known(k[2])'
    BY <1>6, <1>9 DEF InventoryTyped, StatusStep
  <2>2. DOMAIN rows = DOMAIN inventory \cup {r}
    BY <1>19, Zenon
  <2>3. r[2] = b
    BY <1>5
  <2>4. \A k \in DOMAIN rows : k \in Places \X Batches /\ rows[k] \in InventoryRow /\ Known(k[2])'
    BY <1>7, <1>9, <1>20, <1>21, <1>22, <2>1, <2>2, <2>3
  <2>5. rows = [k \in DOMAIN rows |-> rows[k]]
    BY <1>19, <2>2
  <2>6. InventoryTyped'
    BY <1>18, <2>4, <2>5 DEF InventoryTyped
  <2> QED
    BY <1>18, <2>2, <2>6 DEF InventoryStep
<1>24. ASSUME NEW k \in (Places \X Batches) \ doubtful'
       PROVE  RowOf(k)'.quantity = RowOf(k).quantity + Booked(m, k)
  <2>1. DOMAIN inventory' = DOMAIN inventory \cup {r}
    BY <1>18, <1>19, Zenon
  <2>2. RowOf(k).quantity \in Int
    BY <1>6, AnyRow
  <2>3. CASE Stocked(k)
    <3>1. k # r /\ RowOf(k)' = rows[k] /\ RowOf(k) = inventory[k]
      BY <1>7, <1>18, <2>1, <2>3 DEF RowOf, Stocked
    <3>2. Booked(output, k) = 0 /\ rows[k].quantity = inventory[k].quantity + Booked(debits, k)
      BY <1>16, <1>21, <2>3, <3>1 DEF Stocked
    <3>3. Booked(debits, k) \in Int
      BY <1>15, EntriesFinite
    <3> QED
      BY <1>17, <3>1, <3>2, <3>3
  <2>4. CASE ~Stocked(k)
    <3>1. Booked(debits, k) = 0
      <4>1. CASE k[1] = "kitchen"
        <5>1. k = <<"kitchen", k[2]>>
          BY <4>1
        <5>2. HeldIn(S, k[2]) = 0
          BY <1>2, <2>4, <5>1, HeldRowsStocked DEF LedgerTyped
        <5> QED
          BY <1>15, <4>1, <5>2
      <4>2. CASE k[1] # "kitchen"
        BY <1>15, <4>2
      <4> QED
        BY <4>1, <4>2
    <3>2. CASE k = r
      <4>1. actual = planned
        BY <1>8, <3>2
      <4>2. Booked(m, k) = actual
        BY <1>6, <1>16, <1>17, <3>1, <3>2, <4>1
      <4>3. RowOf(k)' = rows[r]
        BY <1>18, <2>1, <3>2 DEF RowOf, Stocked
      <4> QED
        BY <1>6, <1>7, <1>22, <3>2, <4>2, <4>3
    <3>3. CASE k # r
      <4>1. Booked(m, k) = 0
        BY <1>16, <1>17, <3>1, <3>3
      <4>2. RowOf(k)' = RowOf(k)
        BY <1>18, <2>1, <2>4, <3>3 DEF RowOf, Stocked
      <4> QED
        BY <2>2, <4>1, <4>2
    <3> QED
      BY <3>2, <3>3
  <2> QED
    BY <2>3, <2>4
<1>25. doubtful \subseteq doubtful' /\ doubtful' \subseteq DOMAIN inventory'
  <2>1. DOMAIN inventory' = DOMAIN inventory \cup {r}
    BY <1>18, <1>19, Zenon
  <2> QED
    BY <1>8, <2>1 DEF LedgerTyped
<1>26. BooksStep(m)
  BY <1>14, <1>17, <1>24, <1>25 DEF BooksStep
<1>27. QuietStep
  <2>1. \A i \in DOMAIN m : OffTheRoad(m[i])
    BY <1>13, <1>15, <1>16, AsideTogether
  <2>2. HoldsBecome(S, "consumed") /\ \A i \in S : hold[i].status \notin Out
    BY <1>1 DEF finishProduction, HoldsOf, Out
  <2>3. HoldsAside
    BY <1>2, <2>2, StatusesAside DEF LedgerTyped, HoldsTyped
  <2> QED
    BY <1>8, <1>14, <1>17, <2>1, <2>3 DEF QuietStep, Aside
<1> QED
  BY <1>8, <1>9, <1>10, <1>23, <1>25, <1>26, <1>27, RestKept DEF LedgerStep

-----------------------------------------------------------------------------
(* Receipts and claims: what a request has read still holds when it writes, *)
(* but for the quantity of the row of the shop.                            *)
LEMMA RowOfShop ==
  ASSUME LedgerTyped, NEW c \in Clients, LedgerRequestOK(req[c]),
         req[c].kind \in {"receive", "claim"}
  PROVE  /\ req[c].line \in DOMAIN hold
         /\ \E b \in Batches : ShopRow(c) = <<"shop", b>> /\ Known(b)
<1>1. PICK i : i = req[c].line
  OBVIOUS
<1>2. i \in DOMAIN hold
  BY <1>1 DEF LedgerRequestOK
<1>3. PICK b : b = hold[i].batch
  OBVIOUS
<1>4. b \in Batches
  BY <1>2, <1>3, HoldFacts DEF LedgerTyped, HoldsTyped
<1>5. <<"kitchen", b>> \in DOMAIN inventory
  BY <1>2, <1>3 DEF LedgerTyped, HoldsTyped, Stocked
<1>6. Known(<<"kitchen", b>>[2])
  BY <1>5 DEF LedgerTyped, InventoryTyped
<1>7. ShopRow(c) = <<"shop", b>> /\ Known(b)
  BY <1>1, <1>3, <1>6 DEF ShopRow
<1> QED
  BY <1>1, <1>2, <1>4, <1>7

(* The rows a report speaks of are those of one batch in one shipment. *)
LEMMA RowsOfReport ==
  ASSUME hold \in Seq(HoldRow), NEW i \in DOMAIN hold
  PROVE  /\ RowsWith(i) \in SUBSET DOMAIN hold /\ IsFiniteSet(RowsWith(i)) /\ i \in RowsWith(i)
         /\ \A k \in RowsWith(i) : hold[k].batch = hold[i].batch
         /\ Sent(i) \in Nat
         /\ RowsWith(i) = {i} => Sent(i) = hold[i].quantity
<1>1. /\ RowsWith(i) \in SUBSET DOMAIN hold /\ i \in RowsWith(i)
      /\ \A k \in RowsWith(i) : hold[k].batch = hold[i].batch
  BY DEF RowsWith
<1>2. IsFiniteSet(DOMAIN hold) /\ \A k \in DOMAIN hold : hold[k].quantity \in Nat
  BY HoldFacts
<1>3. PICK R : R = RowsWith(i)
  OBVIOUS
<1>4. IsFiniteSet(R) /\ R \subseteq DOMAIN hold
  BY <1>1, <1>2, <1>3, FS_Subset
<1>5. PICK f : f = [k \in R |-> hold[k].quantity]
  OBVIOUS
<1>6. Nats(f, R) /\ DOMAIN f = R
  BY <1>2, <1>4, <1>5 DEF Nats
<1>7. Sent(i) = SumOver(f, R)
  BY <1>3, <1>5, <1>6, TotalIsSum DEF Sent
<1>8. SumOver(f, R) \in Nat
  BY <1>4, <1>6, SumGrows
<1>9. ASSUME R = {i} PROVE Sent(i) = hold[i].quantity
  <2>1. f[i] = hold[i].quantity /\ f[i] \in Int
    BY <1>2, <1>5, <1>9
  <2>2. SumOver(f, {i}) = f[i]
    BY <2>1, SumSingle
  <2> QED
    BY <1>7, <1>9, <2>1, <2>2
<1> QED
  BY <1>1, <1>3, <1>4, <1>7, <1>8, <1>9

(* What a report makes of each of them. *)
GoodIn(c) == [k \in RowsWith(req[c].line) |-> Good(c, k)]
Short(c, k) == Missing(c, k) + req[c].damaged
ShortIn(c) == [k \in RowsWith(req[c].line) |-> Short(c, k)]

LEMMA ReportTyped ==
  ASSUME LedgerTyped, NEW c \in Clients, LedgerRequestOK(req[c]), req[c].kind = "receive"
  PROVE  /\ req[c].damaged \in Nat
         /\ \A k \in DOMAIN hold : Good(c, k) \in Nat /\ Missing(c, k) \in Nat
         /\ AllGood(c) = SumOver(GoodIn(c), RowsWith(req[c].line)) /\ AllGood(c) \in Nat
<1>1. req[c].line \in DOMAIN hold /\ ReportOK(req[c])
  BY DEF LedgerRequestOK
<1>2. PICK R : R = RowsWith(req[c].line)
  OBVIOUS
<1>3. R \subseteq DOMAIN hold /\ IsFiniteSet(R)
  BY <1>1, <1>2, RowsOfReport DEF LedgerTyped, HoldsTyped
<1>4. \A k \in DOMAIN hold : hold[k].quantity \in Nat
  BY HoldFacts DEF LedgerTyped, HoldsTyped
<1>5. ASSUME NEW k \in DOMAIN hold PROVE Good(c, k) \in Nat /\ Missing(c, k) \in Nat
  BY <1>1, <1>4 DEF ReportOK, Good, Missing, Maximum
<1>6. Nats(GoodIn(c), R) /\ DOMAIN GoodIn(c) = R
  BY <1>2, <1>3, <1>5 DEF Nats, GoodIn
<1>7. AllGood(c) = SumOver(GoodIn(c), R)
  <2>1. AllGood(c) = Total(GoodIn(c))
    BY DEF AllGood, GoodIn
  <2> QED
    BY <1>6, <2>1, TotalIsSum
<1>8. SumOver(GoodIn(c), R) \in Nat
  BY <1>3, <1>6, SumGrows
<1> QED
  BY <1>1, <1>2, <1>5, <1>7, <1>8 DEF ReportOK

(* The rows "import" of a receipt weigh what it credits, under any weight    *)
(* that is a row's quantity, or nothing.                                   *)
LEMMA ImportsWeigh ==
  ASSUME LedgerTyped, NEW c \in Clients, LedgerRequestOK(req[c]), req[c].kind = "receive",
         NEW w \in [TransactionRow -> Int], NEW on \in BOOLEAN,
         \A q \in Nat : w[Entry(ShopRow(c), "import", q, 0)] = IF on THEN q ELSE 0
  PROVE  Weighed(Imports(c), w) = IF on THEN AllGood(c) ELSE 0
<1>1. PICK b \in Batches : ShopRow(c) = <<"shop", b>>
  BY RowOfShop
<1>2. req[c].line \in DOMAIN hold
  BY DEF LedgerRequestOK
<1>3. PICK R : R = RowsWith(req[c].line)
  OBVIOUS
<1>4. R \subseteq DOMAIN hold /\ IsFiniteSet(R)
  BY <1>2, <1>3, RowsOfReport DEF LedgerTyped, HoldsTyped
<1>5. /\ \A k \in R : Good(c, k) \in Nat
      /\ AllGood(c) = SumOver(GoodIn(c), R)
  BY <1>3, <1>4, ReportTyped
<1>6. PICK G : G = {k \in R : Good(c, k) > 0}
  OBVIOUS
<1>7. IsFiniteSet(G) /\ G \subseteq R
  BY <1>4, <1>6, FS_Subset
<1>8. PICK e : e = [k \in R |-> Entry(ShopRow(c), "import", Good(c, k), 0)]
  OBVIOUS
<1>9. "shop" \in Places /\ "import" \in TransactionType
  BY DEF Places, TransactionType
<1>10. \A k \in R : e[k] = Entry(ShopRow(c), "import", Good(c, k), 0) /\ e[k] \in TransactionRow
  <2> SUFFICES ASSUME NEW k \in R
               PROVE  e[k] = Entry(ShopRow(c), "import", Good(c, k), 0) /\ e[k] \in TransactionRow
    OBVIOUS
  <2>1. PICK q : q = Good(c, k)
    OBVIOUS
  <2>2. q \in Int /\ 0 \in Nat
    BY <1>5, <2>1
  <2>3. Entry(<<"shop", b>>, "import", q, 0) \in TransactionRow
    BY <1>9, <2>2, EntryTyped
  <2> QED
    BY <1>1, <1>8, <2>1, <2>3
<1>11. PICK m : m = Imports(c)
  OBVIOUS
<1>12. m = [i \in DOMAIN SetToSeq(G) |-> e[SetToSeq(G)[i]]]
  <2>1. \A i \in DOMAIN SetToSeq(G) : SetToSeq(G)[i] \in R
    BY <1>7, SetToSeqPlaces
  <2>2. m = [i \in DOMAIN SetToSeq(G) |-> Entry(ShopRow(c), "import", Good(c, SetToSeq(G)[i]), 0)]
    BY <1>3, <1>6, <1>11 DEF Imports
  <2> QED
    BY <1>10, <2>1, <2>2
<1>13. PICK g : g = [k \in G |-> IF on THEN Good(c, k) ELSE 0]
  OBVIOUS
<1>14. \A k \in G : g[k] = w[e[k]] /\ e[k] \in TransactionRow /\ g[k] \in Int
  <2> SUFFICES ASSUME NEW k \in G
               PROVE  g[k] = w[e[k]] /\ e[k] \in TransactionRow /\ g[k] \in Int
    OBVIOUS
  <2>1. PICK q \in Nat : q = Good(c, k)
    BY <1>5, <1>7
  <2>2. w[Entry(ShopRow(c), "import", q, 0)] = IF on THEN q ELSE 0
    OBVIOUS
  <2>3. e[k] = Entry(ShopRow(c), "import", q, 0) /\ e[k] \in TransactionRow
    BY <1>7, <1>10, <2>1
  <2>4. g[k] = IF on THEN q ELSE 0
    BY <1>13, <2>1
  <2> QED
    BY <2>2, <2>3, <2>4
<1>15. Weighed(m, w) = SumOver(g, G)
  BY <1>7, <1>12, <1>14, ListWeighs
<1>16. CASE on
  <2>1. Ints(g, G)
    BY <1>14 DEF Ints
  <2>2. \A k \in R : GoodIn(c)[k] = IF k \in G THEN g[k] ELSE 0
    BY <1>3, <1>5, <1>6, <1>13, <1>16 DEF GoodIn
  <2>3. SumOver(GoodIn(c), R) = SumOver(g, G)
    BY <1>4, <1>7, <2>1, <2>2, SumOfSome
  <2> QED
    BY <1>5, <1>11, <1>15, <1>16, <2>3
<1>17. CASE ~on
  <2>1. \A k \in G : g[k] = 0
    BY <1>13, <1>17
  <2>2. SumOver(g, G) = 0
    BY <1>7, <2>1, SumOfZeros
  <2> QED
    BY <1>11, <1>15, <1>17, <2>2
<1> QED
  BY <1>16, <1>17

LEMMA ImportsTyped ==
  ASSUME LedgerTyped, NEW c \in Clients, LedgerRequestOK(req[c]), req[c].kind = "receive"
  PROVE  /\ Imports(c) \in Entries
         /\ \A i \in DOMAIN Imports(c) : Imports(c)[i].type = "import"
<1>1. PICK b \in Batches : ShopRow(c) = <<"shop", b>>
  BY RowOfShop
<1>2. req[c].line \in DOMAIN hold
  BY DEF LedgerRequestOK
<1>3. PICK G : G = {k \in RowsWith(req[c].line) : Good(c, k) > 0}
  OBVIOUS
<1>4. IsFiniteSet(G) /\ G \subseteq DOMAIN hold
  <2>1. IsFiniteSet(RowsWith(req[c].line)) /\ RowsWith(req[c].line) \subseteq DOMAIN hold
    BY <1>2, RowsOfReport DEF LedgerTyped, HoldsTyped
  <2> QED
    BY <1>3, <2>1, FS_Subset
<1>5. PICK e : e = [k \in G |-> Entry(ShopRow(c), "import", Good(c, k), 0)]
  OBVIOUS
<1>6. "shop" \in Places /\ "import" \in TransactionType
  BY DEF Places, TransactionType
<1>7. \A k \in G : e[k] \in TransactionRow /\ e[k].type = "import"
  <2> SUFFICES ASSUME NEW k \in G PROVE e[k] \in TransactionRow /\ e[k].type = "import"
    OBVIOUS
  <2>1. PICK q : q = Good(c, k)
    OBVIOUS
  <2>2. q \in Int /\ 0 \in Nat
    BY <1>4, <2>1, ReportTyped
  <2>3. /\ Entry(<<"shop", b>>, "import", q, 0) \in TransactionRow
        /\ Entry(<<"shop", b>>, "import", q, 0).type = "import"
    BY <1>6, <2>2, EntryTyped
  <2> QED
    BY <1>1, <1>5, <2>1, <2>3
<1>8. PICK m : m = Imports(c)
  OBVIOUS
<1>9. m = [i \in DOMAIN SetToSeq(G) |-> e[SetToSeq(G)[i]]]
  <2>1. \A i \in DOMAIN SetToSeq(G) : SetToSeq(G)[i] \in G
    BY <1>4, SetToSeqPlaces
  <2>2. m = [i \in DOMAIN SetToSeq(G) |-> Entry(ShopRow(c), "import", Good(c, SetToSeq(G)[i]), 0)]
    BY <1>3, <1>8 DEF Imports
  <2> QED
    BY <1>5, <2>1, <2>2
<1>10. m \in Seq(TransactionRow) /\ \A i \in DOMAIN m : \E x \in G : m[i] = e[x]
  BY <1>4, <1>7, <1>9, ListTyped
<1> QED
  BY <1>7, <1>8, <1>10 DEF Entries

(* What they say of the rows of the stock. *)
CountedAt(r) == [e \in TransactionRow |-> IF Counts(e, r) THEN e.change ELSE 0]

LEMMA BookedIsWeighed ==
  ASSUME NEW m \in Entries, NEW r
  PROVE  CountedAt(r) \in [TransactionRow -> Int] /\ Booked(m, r) = Weighed(m, CountedAt(r))
<1>1. \A e \in TransactionRow : e.change \in Int
  BY DEF TransactionRow
<1>2. CountedAt(r) \in [TransactionRow -> Int]
  BY <1>1 DEF CountedAt
<1>3. \A i \in DOMAIN m : m[i] \in TransactionRow
  BY EntriesFinite
<1>4. ChangeOf(m, r) = [i \in DOMAIN m |-> CountedAt(r)[m[i]]]
  BY <1>3 DEF ChangeOf, CountedAt
<1> QED
  BY <1>2, <1>4 DEF Booked, Weighed

LEMMA ImportsBooked ==
  ASSUME LedgerTyped, NEW c \in Clients, LedgerRequestOK(req[c]), req[c].kind = "receive",
         NEW k \in Places \X Batches
  PROVE  Booked(Imports(c), k) = IF k = ShopRow(c) THEN AllGood(c) ELSE 0
<1>1. PICK b \in Batches : ShopRow(c) = <<"shop", b>>
  BY RowOfShop
<1>2. PICK w : w = CountedAt(k)
  OBVIOUS
<1>3. PICK on \in BOOLEAN : on <=> k = ShopRow(c)
  OBVIOUS
<1>4. Imports(c) \in Entries
  BY ImportsTyped
<1>5. w \in [TransactionRow -> Int] /\ Booked(Imports(c), k) = Weighed(Imports(c), w)
  BY <1>2, <1>4, BookedIsWeighed
<1>6. "shop" \in Places /\ "import" \in TransactionType /\ "import" \notin {"reservation", "release"}
  BY DEF Places, TransactionType
<1>7. \A q \in Nat : w[Entry(ShopRow(c), "import", q, 0)] = IF on THEN q ELSE 0
  <2> SUFFICES ASSUME NEW q \in Nat
               PROVE  w[Entry(ShopRow(c), "import", q, 0)] = IF on THEN q ELSE 0
    OBVIOUS
  <2>1. PICK e : e = Entry(<<"shop", b>>, "import", q, 0)
    OBVIOUS
  <2>2. q \in Int /\ 0 \in Nat
    OBVIOUS
  <2>3. e \in TransactionRow /\ e.change = q /\ (Counts(e, k) <=> k = <<"shop", b>>)
    BY <1>6, <2>1, <2>2, EntryTyped
  <2>4. w[e] = IF Counts(e, k) THEN e.change ELSE 0
    BY <1>2, <2>3 DEF CountedAt
  <2> QED
    BY <1>1, <1>3, <2>1, <2>3, <2>4
<1>8. Weighed(Imports(c), w) = IF on THEN AllGood(c) ELSE 0
  BY <1>5, <1>7, ImportsWeigh
<1> QED
  BY <1>3, <1>5, <1>8

(* The rows received are marked, and counted. *)
RowsReceived(R) ==
  hold' = [k \in DOMAIN hold |->
    IF k \in R THEN [hold[k] EXCEPT !.status = "completed", !.receipts = @ + 1] ELSE hold[k]]

LEMMA RowMarked ==
  ASSUME NEW row \in HoldRow
  PROVE  LET r == [row EXCEPT !.status = "completed", !.receipts = @ + 1]
         IN /\ r \in HoldRow /\ r.batch = row.batch /\ r.quantity = row.quantity
            /\ r.order = row.order /\ r.status = "completed" /\ r.receipts = row.receipts + 1
<1>1. row.receipts \in Nat /\ row.receipts + 1 \in Nat
  BY DEF HoldRow
<1>2. PICK n : n = row.receipts + 1
  OBVIOUS
<1>3. PICK first : first = [row EXCEPT !.status = "completed"]
  OBVIOUS
<1>4. /\ first \in HoldRow /\ first.batch = row.batch /\ first.quantity = row.quantity
      /\ first.order = row.order /\ first.status = "completed"
  BY <1>3 DEF HoldRow
<1>5. PICK r : r = [first EXCEPT !.receipts = n]
  OBVIOUS
<1>6. /\ r \in HoldRow /\ r.batch = first.batch /\ r.quantity = first.quantity
      /\ r.order = first.order /\ r.status = first.status /\ r.receipts = n
  <2>1. n \in Nat
    BY <1>1, <1>2
  <2> QED
    BY <1>4, <1>5, <2>1 DEF HoldRow
<1>7. [row EXCEPT !.status = "completed", !.receipts = @ + 1] = r
  BY <1>2, <1>3, <1>5
<1> QED
  BY <1>2, <1>4, <1>6, <1>7

LEMMA RowsCompleted ==
  ASSUME hold \in Seq(HoldRow), NEW R \in SUBSET DOMAIN hold, RowsReceived(R)
  PROVE  /\ HoldStep /\ DOMAIN hold' = DOMAIN hold
         /\ \A k \in DOMAIN hold \ R : hold'[k] = hold[k]
         /\ \A k \in R : hold'[k].status = "completed" /\ hold'[k].receipts = hold[k].receipts + 1
<1>1. Len(hold) \in Nat /\ DOMAIN hold = 1..Len(hold) /\ \A k \in DOMAIN hold : hold[k] \in HoldRow
  BY HoldFacts
<1>2. DOMAIN hold' = DOMAIN hold /\ \A k \in DOMAIN hold \ R : hold'[k] = hold[k]
  BY DEF RowsReceived
<1>3. ASSUME NEW k \in R
      PROVE  /\ hold'[k] \in HoldRow /\ hold'[k].batch = hold[k].batch
             /\ hold'[k].quantity = hold[k].quantity /\ hold'[k].order = hold[k].order
             /\ hold'[k].status = "completed" /\ hold'[k].receipts = hold[k].receipts + 1
  <2>1. PICK row \in HoldRow : row = hold[k]
    BY <1>1
  <2>2. hold'[k] = [row EXCEPT !.status = "completed", !.receipts = @ + 1]
    BY <2>1 DEF RowsReceived
  <2> QED
    BY <2>1, <2>2, RowMarked
<1>4. \A k \in DOMAIN hold :
        /\ hold'[k] \in HoldRow /\ hold'[k].batch = hold[k].batch
        /\ hold'[k].quantity = hold[k].quantity /\ hold'[k].order = hold[k].order
  BY <1>1, <1>2, <1>3
<1>5. hold' = [k \in 1..Len(hold) |-> hold'[k]]
  BY <1>1 DEF RowsReceived
<1>6. hold' \in [1..Len(hold) -> HoldRow]
  BY <1>1, <1>4, <1>5
<1>7. hold' \in Seq(HoldRow)
  BY <1>1, <1>6, FunctionIsSequence
<1>8. HoldStep
  BY <1>2, <1>4, <1>7 DEF HoldStep
<1> QED
  BY <1>2, <1>3, <1>8

LEMMA ClaimWritten ==
  ASSUME LedgerTyped, NEW items \in Seq(ClaimItemRow), createClaim(items)
  PROVE  claimItem' \in Seq(ClaimItemRow)
BY DEF LedgerTyped, createClaim

LEMMA ClaimRowTyped ==
  ASSUME NEW b \in Batches, NEW m \in Nat, NEW d \in Nat
  PROVE  [article |-> ArticleOf[b], missing |-> m, damaged |-> d] \in ClaimItemRow
BY LedgerAssumption DEF ClaimItemRow

(* The lines of the claim a receipt opens. *)
ClaimRow(c, k) ==
  [article |-> ArticleOf[ShopRow(c)[2]], missing |-> Missing(c, k), damaged |-> req[c].damaged]

ShortRows(c) == {k \in RowsWith(req[c].line) : Short(c, k) > 0}
ShortClaims(c) == [k \in ShortRows(c) |-> ClaimRow(c, k)]

LEMMA LossesListed ==
  ASSUME LedgerTyped, NEW c \in Clients, LedgerRequestOK(req[c]), req[c].kind = "receive"
  PROVE  /\ IsFiniteSet(ShortRows(c)) /\ ShortRows(c) \subseteq DOMAIN hold
         /\ \A k \in ShortRows(c) : ShortClaims(c)[k] \in ClaimItemRow
         /\ Losses(c) = [i \in DOMAIN SetToSeq(ShortRows(c)) |->
                           ShortClaims(c)[SetToSeq(ShortRows(c))[i]]]
<1>1. PICK b \in Batches : ShopRow(c) = <<"shop", b>>
  BY RowOfShop
<1>2. req[c].line \in DOMAIN hold
  BY DEF LedgerRequestOK
<1>3. PICK G : G = ShortRows(c)
  OBVIOUS
<1>4. PICK e : e = ShortClaims(c)
  OBVIOUS
<1>5. IsFiniteSet(G) /\ G \subseteq DOMAIN hold
  <2>1. IsFiniteSet(RowsWith(req[c].line)) /\ RowsWith(req[c].line) \subseteq DOMAIN hold
    BY <1>2, RowsOfReport DEF LedgerTyped, HoldsTyped
  <2> QED
    BY <1>3, <2>1, FS_Subset DEF ShortRows
<1>6. \A k \in G : e[k] = ClaimRow(c, k)
  BY <1>3, <1>4 DEF ShortClaims
<1>7. ASSUME NEW k \in G PROVE e[k] \in ClaimItemRow
  <2>1. Missing(c, k) \in Nat /\ req[c].damaged \in Nat
    BY <1>5, ReportTyped
  <2>2. [article |-> ArticleOf[b], missing |-> Missing(c, k), damaged |-> req[c].damaged]
          \in ClaimItemRow
    BY <2>1, ClaimRowTyped
  <2> QED
    BY <1>1, <1>6, <2>2 DEF ClaimRow
<1>8. \A i \in DOMAIN SetToSeq(G) : SetToSeq(G)[i] \in G
  BY <1>5, SetToSeqPlaces
<1>9. Losses(c) = [i \in DOMAIN SetToSeq(G) |-> ClaimRow(c, SetToSeq(G)[i])]
  BY <1>3 DEF Losses, ClaimRow, Short, ShortRows
<1>10. Losses(c) = [i \in DOMAIN SetToSeq(G) |-> e[SetToSeq(G)[i]]]
  BY <1>6, <1>8, <1>9
<1> QED
  BY <1>3, <1>4, <1>5, <1>7, <1>10

LEMMA LossesTyped ==
  ASSUME LedgerTyped, NEW c \in Clients, LedgerRequestOK(req[c]), req[c].kind = "receive"
  PROVE  Losses(c) \in Seq(ClaimItemRow)
<1>1. PICK G : G = ShortRows(c)
  OBVIOUS
<1>2. PICK e : e = ShortClaims(c)
  OBVIOUS
<1>3. PICK m : m = Losses(c)
  OBVIOUS
<1>4. /\ IsFiniteSet(G) /\ \A k \in G : e[k] \in ClaimItemRow
      /\ m = [i \in DOMAIN SetToSeq(G) |-> e[SetToSeq(G)[i]]]
  BY <1>1, <1>2, <1>3, LossesListed
<1>5. m \in Seq(ClaimItemRow)
  BY <1>4, ListTyped
<1> QED
  BY <1>3, <1>5

LEMMA ReceiptKeeps ==
  ASSUME LedgerTyped, NEW c \in Clients, LedgerRequestOK(req[c]), receiveShipment(c)
  PROVE  LedgerStep
<1>1. req[c].kind = "receive" /\ req[c].step = "write"
  BY DEF receiveShipment, At
<1>2. PICK R : R = RowsWith(req[c].line)
  OBVIOUS
<1>3. R \subseteq DOMAIN hold
  <2>1. req[c].line \in DOMAIN hold
    BY <1>1 DEF LedgerRequestOK
  <2> QED
    BY <1>2, <2>1, RowsOfReport DEF LedgerTyped, HoldsTyped
<1>4. PICK b \in Batches : ShopRow(c) = <<"shop", b>> /\ Known(b)
  BY <1>1, RowOfShop
<1>5. PICK r : r = <<"shop", b>>
  OBVIOUS
<1>6. PICK good : good = AllGood(c)
  OBVIOUS
<1>7. good \in Nat /\ req[c].quantity \in Int
  BY <1>1, <1>6, ReportTyped DEF LedgerRequestOK, ReportOK
<1>8. PICK m : m = Imports(c)
  OBVIOUS
<1>9. /\ m \in Entries /\ ledger' = ledger \o m
      /\ \A k \in Places \X Batches : Booked(m, k) = IF k = r THEN good ELSE 0
  <2>1. ledger' = ledger \o m
    BY <1>8 DEF receiveShipment, createInventoryTransaction
  <2> QED
    BY <1>1, <1>4, <1>5, <1>6, <1>8, <2>1, ImportsTyped, ImportsBooked
<1>10. /\ day' = day /\ batchStatus' = batchStatus
       /\ RowsReceived(R) /\ createClaim(Losses(c))
       /\ doubtful' = IF good > 0 /\ req[c].quantity # RowOf(r).quantity
                      THEN doubtful \cup {r} ELSE doubtful
  BY <1>2, <1>4, <1>5, <1>6 DEF receiveShipment, RowsReceived
<1>11. StatusStep /\ Known(b)'
  <2>1. StatusStep
    BY <1>10, RestKept
  <2> QED
    BY <1>4, <2>1 DEF StatusStep
<1>12. HoldStep /\ DOMAIN hold' = DOMAIN hold
  BY <1>3, <1>10, RowsCompleted DEF LedgerTyped, HoldsTyped
<1>13. claimItem' \in Seq(ClaimItemRow)
  <2>1. Losses(c) \in Seq(ClaimItemRow)
    BY <1>1, LossesTyped
  <2> QED
    BY <1>10, <2>1, ClaimWritten
<1>14. InventoryTyped /\ "shop" \in Places
  BY DEF LedgerTyped, Places
<1>15. CASE good = 0
  <2>1. inventory' = inventory /\ doubtful' = doubtful
    <3>1. upsertInventory(c)
      BY DEF receiveShipment
    <3>2. inventory' = inventory
      BY <1>6, <1>15, <3>1 DEF upsertInventory
    <3>3. doubtful' = IF good > 0 /\ req[c].quantity # RowOf(r).quantity
                      THEN doubtful \cup {r} ELSE doubtful
      BY <1>10
    <3>4. ~(good > 0)
      BY <1>15
    <3> QED
      BY <3>2, <3>3, <3>4, Zenon
  <2>2. InventoryStep /\ \A k : RowOf(k)' = RowOf(k)
    BY <1>11, <1>14, <2>1, InventoryKept
  <2>3. \A k \in Places \X Batches : RowOf(k).quantity \in Int
    BY <1>14, AnyRow
  <2>4. BooksStep(m)
    BY <1>9, <1>15, <2>1, <2>2, <2>3 DEF BooksStep
  <2> QED
    BY <1>10, <1>11, <1>12, <1>13, <2>1, <2>2, <2>4, RestKept DEF LedgerStep
<1>16. CASE good # 0
  <2>1. RowOf(r) \in InventoryRow /\ RowOf(r).quantity \in Int /\ RowOf(r).reserved \in Nat
    BY <1>14, AnyRow
  <2>2. PICK q : q = req[c].quantity + good
    OBVIOUS
  <2>3. q \in Int /\ good \in Int
    BY <1>7, <2>2
  <2>4. [RowOf(r) EXCEPT !.quantity = q] = [quantity |-> q, reserved |-> RowOf(r).reserved]
    BY <2>1 DEF InventoryRow
  <2>5. inventory' = Upserted(r, [quantity |-> q, reserved |-> RowOf(r).reserved])
    <3>1. upsertInventory(c)
      BY DEF receiveShipment
    <3> QED
      BY <1>4, <1>5, <1>6, <1>16, <2>2, <2>4, <3>1 DEF upsertInventory
  <2>6. doubtful \subseteq doubtful' /\ (r \notin doubtful' => q = RowOf(r).quantity + good)
    BY <1>7, <1>10, <1>16, <2>2
  <2>7. InventoryStep /\ r \in DOMAIN inventory' /\ BooksStep(m)
    <3>1. PICK n \in Nat : n = RowOf(r).reserved
      BY <2>1
    <3>2. inventory' = Upserted(<<"shop", b>>, [quantity |-> q, reserved |-> n])
      BY <1>5, <2>5, <3>1
    <3>3. \A k \in Places \X Batches : Booked(m, k) = IF k = <<"shop", b>> THEN good ELSE 0
      BY <1>5, <1>9
    <3>4. <<"shop", b>> \notin doubtful' => q = RowOf(<<"shop", b>>).quantity + good
      BY <1>5, <2>6
    <3>5. doubtful \subseteq doubtful'
      BY <2>6
    <3>6. m \in Entries /\ ledger' = ledger \o m
      BY <1>9
    <3>7. InventoryStep /\ <<"shop", b>> \in DOMAIN inventory' /\ BooksStep(m)
      BY <1>11, <1>14, <2>3, <3>2, <3>3, <3>4, <3>5, <3>6, RowAndList
    <3> QED
      BY <1>5, <3>7
  <2>8. doubtful' \subseteq DOMAIN inventory'
    BY <1>10, <2>7 DEF LedgerTyped, InventoryStep
  <2> QED
    BY <1>10, <1>11, <1>12, <1>13, <2>7, <2>8, RestKept DEF LedgerStep
<1> QED
  BY <1>15, <1>16

LEMMA ClaimKeeps ==
  ASSUME LedgerTyped, NEW c \in Clients, LedgerRequestOK(req[c]), createManualClaim(c)
  PROVE  LedgerStep
<1>1. req[c].kind = "claim"
  BY DEF createManualClaim, At
<1>2. req[c].missing \in Nat /\ req[c].damaged \in Nat
  BY <1>1 DEF LedgerRequestOK
<1>3. PICK b \in Batches : ShopRow(c) = <<"shop", b>> /\ Known(b)
  BY <1>1, RowOfShop
<1>4. PICK r : r = <<"shop", b>>
  OBVIOUS
<1>5. PICK lost : lost = 0 - (req[c].missing + req[c].damaged)
  OBVIOUS
<1>6. /\ day' = day /\ batchStatus' = batchStatus /\ hold' = hold /\ doubtful' = doubtful
      /\ createClaim(<<[article |-> ArticleOf[b], missing |-> req[c].missing,
                        damaged |-> req[c].damaged]>>)
      /\ adjustBatchQuantity(r, lost)
      /\ ledger' = ledger \o <<Entry(r, "adjustment", lost, 0)>>
  BY <1>3, <1>4, <1>5 DEF createManualClaim, createInventoryTransaction
<1>7. r \in DOMAIN inventory
  BY <1>1, <1>3, <1>4 DEF LedgerRequestOK, ShopRow, Stocked
<1>8. InventoryTyped /\ "shop" \in Places /\ "adjustment" \in TransactionType
      /\ "adjustment" \notin {"reservation", "release"} /\ lost \in Int
  BY <1>2, <1>5 DEF LedgerTyped, Places, TransactionType
<1>9. PICK q : q = inventory[r].quantity + lost
  OBVIOUS
<1>10. inventory[r].quantity \in Int
  BY <1>7, <1>8, RowStatements
<1>11. q \in Int
  BY <1>8, <1>9, <1>10
<1>12. /\ [inventory EXCEPT ![r].quantity = q]
            = Upserted(r, [quantity |-> q, reserved |-> inventory[r].reserved])
       /\ RowOf(r) = inventory[r] /\ inventory[r].reserved \in Nat
  BY <1>7, <1>8, <1>11, RowStatements
<1>13. inventory' = Upserted(r, [quantity |-> q, reserved |-> inventory[r].reserved])
  BY <1>6, <1>9, <1>12 DEF adjustBatchQuantity
<1>14. q = RowOf(r).quantity + lost /\ doubtful \subseteq doubtful'
  BY <1>6, <1>9, <1>12
<1>15. StatusStep /\ Known(b)'
  <2>1. StatusStep
    BY <1>6, RestKept
  <2> QED
    BY <1>3, <2>1 DEF StatusStep
<1>16. InventoryStep /\ \E m : BooksStep(m)
  BY <1>4, <1>6, <1>8, <1>11, <1>12, <1>13, <1>14, <1>15, RowAndEntry
<1>17. claimItem' \in Seq(ClaimItemRow)
  <2>1. PICK row : row = [article |-> ArticleOf[b], missing |-> req[c].missing,
                          damaged |-> req[c].damaged]
    OBVIOUS
  <2>2. row \in ClaimItemRow
    BY <1>2, <2>1, ClaimRowTyped
  <2>3. <<row>> \in Seq(ClaimItemRow) /\ createClaim(<<row>>)
    BY <1>6, <2>1, <2>2
  <2> QED
    BY <2>3, ClaimWritten
<1> QED
  BY <1>6, <1>15, <1>16, <1>17, RestKept DEF LedgerStep

-----------------------------------------------------------------------------
(* No step changes the set of endpoints that are called together. *)
LEMMA ServedByAccounts == ASSUME AccountNext PROVE served' = served
<1>1. ASSUME NEW c \in Clients, StoreRequest(c) \/ StaffRequest(c) PROVE served' = served
  BY <1>1 DEF StoreRequest, StaffRequest, ArriveUpdateStore, updateStore, ArriveStaffRequest,
     insertStaffUsers, ArriveRejectStaff, ArriveApproveStaff, ArriveCreateUser, rejectStaff,
     approveStaff, createUser, Becomes, Serves, At
<1>2. ASSUME NEW c \in Clients, SessionRequest(c) PROVE served' = served
  <2>1. ASSUME NEW i \in DOMAIN code, ArriveReset(c, i) PROVE served' = served
    <3>1. PICK u : u \in code[i].user
      BY <2>1 DEF ArriveReset, Deleted
    <3> QED
      BY <2>1, <3>1 DEF ArriveReset, Becomes, Serves
  <2> QED
    BY <1>2, <2>1 DEF SessionRequest, ArriveLogin, ArriveRefresh, deleteRefreshToken,
       saveRefreshToken, updateUserPassword, markOtpAsUsed, Becomes, Serves, At
<1> QED
  BY <1>1, <1>2 DEF AccountNext, createStore, removeStore, updateUserByAdmin, forgotPassword,
     logout, clearExpiredTokens, clearExpiredOtp, Tick, Immediate, Serves

LEMMA ServedByCatalogue == ASSUME CatalogueNext PROVE served' = served
<1>1. ASSUME NEW c \in Clients, ProductRequest(c) PROVE served' = served
  BY <1>1 DEF ProductRequest, ArriveCreateUnit, ArriveUpdateUnit, ArriveCreateProduct,
     ArriveUpdateProduct, writeUnit, createProduct, updateProduct, Becomes, Serves, At
<1>2. ASSUME NEW c \in Clients, RecipeRequest(c) PROVE served' = served
  BY <1>2 DEF RecipeRequest, ArriveCreateRecipe, ArriveUpdateRecipe, ArriveProductionOrder,
     createRecipe, updateRecipe, createProductionOrder, Becomes, Serves, At
<1> QED
  BY <1>1, <1>2 DEF CatalogueNext, removeUnit, removeProduct, restoreProduct, updateBatch,
     createBatch, createSupplier, removeSupplier, startOrder, completeOrder, Immediate, Serves

LEMMA ServedByLogistics == ASSUME LogisticsNext PROVE served' = served
<1>1. ASSUME NEW c \in Clients, VehicleRequest(c) PROVE served' = served
  BY <1>1 DEF VehicleRequest, ArriveUpdateVehicle, updateVehicle, ArriveTrip, insertTrip,
     depart, updateVehicleStatus, Becomes, Serves, At
<1> QED
  BY <1>1 DEF LogisticsNext, createVehicle, removeVehicle, createRoute, removeRoute,
     assignRoute, cancelTrip, Immediate, Serves

LEMMA ServedByConfig == ASSUME ConfigNext PROVE served' = served
BY DEF ConfigNext, ArriveGet, ArriveUpdateConfig, findByKey, writeSetting, cacheValue, Restart,
   Becomes, Serves, At

LEMMA ServedByLedger == ASSUME LedgerNext \/ ReaderNext PROVE served' = served
<1>1. ASSUME NEW c \in Clients, NEW i \in DOMAIN hold, NEW listed, NEW m, NEW d,
             ArriveReceipt(c, i, listed, m, d) \/ ArriveClaim(c, i, m, d)
      PROVE  served' = served
  BY <1>1 DEF ArriveReceipt, ArriveClaim, Becomes, Serves
<1>2. ASSUME NEW c \in Clients, selectShopRow(c) \/ receiveShipment(c) \/ createManualClaim(c)
      PROVE  served' = served
  BY <1>2 DEF selectShopRow, receiveShipment, createManualClaim, At
<1>3. CASE ReaderNext
  BY <1>3 DEF ReaderNext, ArriveReader, getWarehouseInventoryTransactions, getStoreTransactions,
     getStoreInventory, NextPage, Becomes, Serves, At
<1>4. ASSUME NEW a, NEW n, NEW m, lockStockForOrder(a, n, m) \/ startProduction(a, n)
      PROVE  served' = served
  BY <1>4 DEF lockStockForOrder, startProduction, Immediate, Serves
<1>5. ASSUME NEW order, releaseStock(order) \/ export(order) PROVE served' = served
  BY <1>5 DEF releaseStock, export, Immediate, Serves
<1>6. ASSUME NEW order, NEW b, NEW n, finishProduction(order, b, n) PROVE served' = served
  BY <1>6 DEF finishProduction, Immediate, Serves
<1>7. ASSUME NEW b, NEW n, NEW status,
             import(b, n) \/ adjustKitchenInventory(b, n) \/ correctBatch(b, n, status)
             \/ reportWaste(b, status)
      PROVE  served' = served
  BY <1>7 DEF import, adjustKitchenInventory, correctBatch, reportWaste, Immediate, Serves
<1>8. CASE nextDay \/ runAutoExpireExpiredBatches
  BY <1>8 DEF nextDay, runAutoExpireExpiredBatches, Immediate, Serves
<1> QED
  BY <1>1, <1>2, <1>3, <1>4, <1>5, <1>6, <1>7, <1>8 DEF LedgerNext

LEMMA ServedStays == ASSUME [Next]_vars PROVE served' = served
<1>1. ASSUME NEW c \in Clients, Fail(c) PROVE served' = served
  BY <1>1 DEF Fail, Abort
<1>2. CASE UNCHANGED vars
  BY <1>2 DEF vars
<1> QED
  BY <1>1, <1>2, ServedByAccounts, ServedByCatalogue, ServedByLogistics, ServedByConfig,
     ServedByLedger DEF Next

(* What requests have read goes on to hold while the tables grow. *)
TablesGrow ==
  /\ DOMAIN hold \subseteq DOMAIN hold' /\ DOMAIN inventory \subseteq DOMAIN inventory'
  /\ \A i \in DOMAIN hold :
       /\ hold'[i].batch = hold[i].batch /\ hold'[i].quantity = hold[i].quantity
       /\ hold'[i].order = hold[i].order

LEMMA RowsStayTogether ==
  ASSUME TablesGrow, NEW i \in DOMAIN hold
  PROVE  i \in RowsWith(i) /\ RowsWith(i) \subseteq RowsWith(i)'
BY DEF TablesGrow, RowsWith

LEMMA RequestStays ==
  ASSUME TablesGrow, NEW r, LedgerRequestOK(r)
  PROVE  LedgerRequestOK(r)'
<1>1. r.kind \in {"receive", "claim"} => r.line \in DOMAIN hold'
  BY DEF TablesGrow, LedgerRequestOK
<1>2. ASSUME r.kind = "receive" PROVE ReportOK(r)'
  <2>1. r.line \in DOMAIN hold /\ ReportOK(r)
    BY <1>2 DEF LedgerRequestOK
  <2>2. RowsWith(r.line)' = {r.line} => RowsWith(r.line) = {r.line}
    BY <2>1, RowsStayTogether
  <2>3. hold'[r.line].quantity = hold[r.line].quantity
    BY <2>1 DEF TablesGrow
  <2> QED
    BY <2>1, <2>2, <2>3 DEF ReportOK
<1>3. ASSUME r.kind = "claim"
      PROVE  r.missing \in Nat /\ r.damaged \in Nat /\ Stocked(<<"shop", hold[r.line].batch>>)'
  BY <1>3 DEF TablesGrow, LedgerRequestOK, Stocked
<1> QED
  BY <1>1, <1>2, <1>3 DEF LedgerRequestOK

LEMMA RequestsFollow ==
  ASSUME LedgerInv, TablesGrow, LedgerTyped', Balanced', served' = served,
         \A d \in Clients : req'[d] = req[d] \/ LedgerRequestOK(req[d])'
  PROVE  LedgerInv'
<1>1. ASSUME NEW d \in Clients PROVE LedgerRequestOK(req[d])'
  <2>1. PICK r : r = req[d]
    OBVIOUS
  <2>2. LedgerRequestOK(r)
    BY <2>1 DEF LedgerInv
  <2>3. LedgerRequestOK(r)'
    BY <2>2, RequestStays
  <2>4. CASE req'[d] = req[d]
    BY <2>1, <2>3, <2>4 DEF LedgerRequestOK
  <2> QED
    BY <2>4
<1> QED
  BY <1>1 DEF LedgerInv

LEMMA LedgerTablesKept ==
  ASSUME LedgerTyped, Balanced, UNCHANGED ledgerVars
  PROVE  LedgerTyped' /\ Balanced' /\ TablesGrow
<1>1. /\ day' = day /\ inventory' = inventory /\ batchStatus' = batchStatus
      /\ ledger' = ledger /\ hold' = hold /\ claimItem' = claimItem /\ doubtful' = doubtful
  BY DEF ledgerVars
<1>2. StatusStep /\ HoldStep /\ DOMAIN hold' = DOMAIN hold
  BY <1>1, RestKept
<1>3. InventoryStep /\ \A r : RowOf(r)' = RowOf(r)
  BY <1>1, <1>2, InventoryKept DEF LedgerTyped
<1>4. BooksStep(<<>>)
  BY <1>1, <1>3, QuietBooks
<1>5. LedgerStep
  BY <1>1, <1>2, <1>3, <1>4, RestKept DEF LedgerStep
<1> QED
  BY <1>1, <1>5, LedgerStepKeeps DEF TablesGrow

LEMMA LedgerStepGrows ==
  ASSUME LedgerStep
  PROVE  TablesGrow
BY DEF LedgerStep, InventoryStep, HoldStep, TablesGrow

LEMMA LedgerNextKeeps ==
  ASSUME LedgerInv, RequestsTyped, LedgerNext
  PROVE  LedgerInv'
<1> DEFINE Quiet == \A d \in Clients : req'[d] = req[d] \/ LedgerRequestOK(req[d])'
<1>1. LedgerTyped /\ Balanced /\ served' = served /\ served \in Scenarios
  BY ServedByLedger DEF LedgerInv
<1>2. \A c \in Clients : LedgerRequestOK(req[c])
  BY DEF LedgerInv
<1>3. ASSUME LedgerStep, Quiet PROVE LedgerInv'
  <2>1. LedgerTyped' /\ Balanced' /\ TablesGrow
    BY <1>1, <1>3, LedgerStepKeeps, LedgerStepGrows
  <2> QED
    BY <1>1, <1>3, <2>1, RequestsFollow
<1>4. ASSUME UNCHANGED ledgerVars, Quiet PROVE LedgerInv'
  <2>1. LedgerTyped' /\ Balanced' /\ TablesGrow
    BY <1>1, <1>4, LedgerTablesKept
  <2> QED
    BY <1>1, <1>4, <2>1, RequestsFollow
<1>5. ASSUME req' = req PROVE Quiet
  BY <1>5
<1>6. ASSUME NEW c \in Clients, Done(c) PROVE Quiet
  BY <1>6 DEF Done, RequestsTyped, Idle, LedgerRequestOK
<1>7. ASSUME NEW c \in Clients, LedgerRequestOK(req[c])',
             \A d \in Clients \ {c} : req'[d] = req[d]
      PROVE  Quiet
  BY <1>7
<1> SUFFICES LedgerInv'
  OBVIOUS
<1> HIDE DEF Quiet
<1>8. ASSUME NEW b \in Deliveries, NEW n \in ImportAmounts, import(b, n) PROVE LedgerInv'
  <2>1. req' = req
    BY <1>8 DEF import, Immediate
  <2> QED
    BY <1>1, <1>3, <1>5, <1>8, <2>1, ImportKeeps
<1>9. ASSUME NEW a \in Articles, NEW n \in OrderAmounts, NEW m \in SecondAmounts(served),
             lockStockForOrder(a, n, m)
      PROVE  LedgerInv'
  <2>0. m \in Nat
    BY <1>1, LedgerAssumption
  <2>1. req' = req
    BY <1>9 DEF lockStockForOrder, Immediate
  <2> QED
    BY <1>1, <1>3, <1>5, <1>9, <2>0, <2>1, ReserveKeeps
<1>10. ASSUME NEW a \in Articles, NEW n \in OrderAmounts, startProduction(a, n)
       PROVE  LedgerInv'
  <2>1. req' = req
    BY <1>10 DEF startProduction, Immediate
  <2> QED
    BY <1>1, <1>3, <1>5, <1>10, <2>1, StartProductionKeeps
<1>11. \A order \in {hold[i].order : i \in DOMAIN hold} : order \in Nat
  BY <1>1, HoldFacts DEF LedgerTyped, HoldsTyped
<1>12. ASSUME NEW order \in Nat, releaseStock(order) PROVE LedgerInv'
  <2>1. req' = req
    BY <1>12 DEF releaseStock, Immediate
  <2> QED
    BY <1>1, <1>3, <1>5, <1>12, <2>1, ReleaseKeeps
<1>13. ASSUME NEW order \in Nat, export(order) PROVE LedgerInv'
  <2>1. req' = req
    BY <1>13 DEF export, Immediate
  <2> QED
    BY <1>1, <1>3, <1>5, <1>13, <2>1, ExportKeeps
<1>14. ASSUME NEW order \in Nat, NEW b \in Batches, NEW n \in CountedAmounts,
              finishProduction(order, b, n)
       PROVE  LedgerInv'
  <2>1. req' = req
    BY <1>14 DEF finishProduction, Immediate
  <2> QED
    BY <1>1, <1>3, <1>5, <1>14, <2>1, FinishProductionKeeps
<1>15. ASSUME NEW b \in Batches, NEW n \in CountedAmounts, adjustKitchenInventory(b, n)
       PROVE  LedgerInv'
  <2>1. req' = req
    BY <1>15 DEF adjustKitchenInventory, Immediate
  <2> QED
    BY <1>1, <1>3, <1>5, <1>15, <2>1, AdjustKeeps
<1>16. ASSUME NEW b \in Batches, NEW n \in CountedAmounts,
              NEW status \in {batchStatus[b], "active"}, correctBatch(b, n, status)
       PROVE  LedgerInv'
  <2>1. req' = req
    BY <1>16 DEF correctBatch, Immediate
  <2> QED
    BY <1>1, <1>3, <1>5, <1>16, <2>1, CorrectKeeps
<1>17. ASSUME NEW b \in Batches, NEW status \in {"damaged", "empty"}, reportWaste(b, status)
       PROVE  LedgerInv'
  <2>1. req' = req
    BY <1>17 DEF reportWaste, Immediate
  <2> QED
    BY <1>1, <1>3, <1>5, <1>17, <2>1, WasteKeeps
<1>18. ASSUME nextDay PROVE LedgerInv'
  <2>1. req' = req
    BY <1>18 DEF nextDay, Immediate
  <2> QED
    BY <1>1, <1>3, <1>5, <1>18, <2>1, NextDayKeeps
<1>19. ASSUME runAutoExpireExpiredBatches PROVE LedgerInv'
  <2>1. req' = req
    BY <1>19 DEF runAutoExpireExpiredBatches, Immediate
  <2> QED
    BY <1>1, <1>3, <1>5, <1>19, <2>1, ExpireKeeps
<1>20. \A d \in Discrepancies(served) : d[1] \in Nat /\ d[2] \in Nat
  BY <1>1, LedgerAssumption
<1>21. ASSUME NEW c \in Clients, NEW i \in DOMAIN hold, NEW listed \in BOOLEAN,
              NEW m \in Nat, NEW d \in Nat, ArriveReceipt(c, i, listed, m, d)
       PROVE  LedgerInv'
  <2>1. UNCHANGED ledgerVars /\ hold' = hold
    BY <1>21 DEF ArriveReceipt, ledgerVars
  <2>2. PICK actual : actual = IF listed THEN Sent(i) - m ELSE 0
    OBVIOUS
  <2>3. /\ req'[c] = [kind |-> "receive", step |-> "select", line |-> i, listed |-> listed,
                      actual |-> actual, damaged |-> d]
        /\ \A k \in Clients \ {c} : req'[k] = req[k]
    BY <1>21, <2>2 DEF ArriveReceipt, Becomes, RequestsTyped
  <2>4. IF listed THEN d <= actual ELSE d = 0
    BY <1>21, <2>2 DEF ArriveReceipt
  <2>5. Sent(i) \in Nat /\ (RowsWith(i) = {i} => Sent(i) = hold[i].quantity)
    BY <1>1, <1>21, RowsOfReport DEF LedgerTyped, HoldsTyped
  <2>6. hold[i].quantity \in Nat
    BY <1>1, <1>21, HoldFacts DEF LedgerTyped, HoldsTyped
  <2>7. /\ actual \in Nat
        /\ listed /\ RowsWith(i) = {i} => actual <= hold[i].quantity
    BY <2>2, <2>4, <2>5, <2>6
  <2>8. RowsWith(i)' = RowsWith(i)
    BY <2>1 DEF RowsWith
  <2>9. LedgerRequestOK(req[c])'
    BY <1>21, <2>1, <2>3, <2>4, <2>7, <2>8 DEF LedgerRequestOK, ReportOK
  <2> QED
    BY <1>4, <1>7, <2>1, <2>3, <2>9
<1>22. ASSUME NEW c \in Clients, NEW i \in DOMAIN hold, NEW m \in Nat, NEW d \in Nat,
              ArriveClaim(c, i, m, d)
       PROVE  LedgerInv'
  <2>1. UNCHANGED ledgerVars /\ hold' = hold /\ inventory' = inventory
    BY <1>22 DEF ArriveClaim, ledgerVars
  <2>2. /\ req'[c] = [kind |-> "claim", step |-> "adjust", line |-> i, missing |-> m,
                      damaged |-> d]
        /\ \A k \in Clients \ {c} : req'[k] = req[k]
    BY <1>22 DEF ArriveClaim, Becomes, RequestsTyped
  <2>3. LedgerRequestOK(req[c])'
    BY <1>22, <2>1, <2>2 DEF LedgerRequestOK, ArriveClaim, Stocked
  <2> QED
    BY <1>4, <1>7, <2>1, <2>2, <2>3
<1>23. ASSUME NEW c \in Clients, selectShopRow(c) PROVE LedgerInv'
  <2>1. UNCHANGED ledgerVars /\ hold' = hold
    BY <1>23 DEF selectShopRow, ledgerVars
  <2>2. PICK q : q = RowOf(ShopRow(c)).quantity
    OBVIOUS
  <2>3. PICK found : found = Stocked(ShopRow(c))
    OBVIOUS
  <2>4. /\ req'[c] = [kind |-> "receive", step |-> "write", line |-> req[c].line,
                      listed |-> req[c].listed, actual |-> req[c].actual,
                      damaged |-> req[c].damaged,
                      found |-> Stocked(ShopRow(c)), quantity |-> q]
        /\ \A k \in Clients \ {c} : req'[k] = req[k]
    BY <1>23, <2>2 DEF selectShopRow, RequestsTyped
  <2>5. q \in Int
    BY <1>1, <2>2, AnyRow DEF LedgerTyped
  <2>6. req[c].kind = "receive" /\ LedgerRequestOK(req[c])
    BY <1>2, <1>23 DEF selectShopRow, At
  <2>7. /\ req'[c].kind = "receive" /\ req'[c].line = req[c].line
        /\ req'[c].listed = req[c].listed /\ req'[c].actual = req[c].actual
        /\ req'[c].damaged = req[c].damaged /\ req'[c].quantity = q
    BY <2>4
  <2>8. RowsWith(req[c].line)' = RowsWith(req[c].line)
    BY <2>1, <2>7 DEF RowsWith
  <2>9. LedgerRequestOK(req[c])'
    BY <2>1, <2>5, <2>6, <2>7, <2>8 DEF LedgerRequestOK, ReportOK
  <2> QED
    BY <1>4, <1>7, <2>1, <2>4, <2>9
<1>24. ASSUME NEW c \in Clients, receiveShipment(c) PROVE LedgerInv'
  <2>1. Done(c)
    BY <1>24 DEF receiveShipment
  <2> QED
    BY <1>1, <1>2, <1>3, <1>6, <1>24, <2>1, ReceiptKeeps
<1>25. ASSUME NEW c \in Clients, createManualClaim(c) PROVE LedgerInv'
  <2>1. Done(c)
    BY <1>25 DEF createManualClaim
  <2> QED
    BY <1>1, <1>2, <1>3, <1>6, <1>25, <2>1, ClaimKeeps
<1>26. ASSUME NEW c \in Clients, NEW i \in DOMAIN hold, NEW d \in Discrepancies(served),
              \/ \E listed \in BOOLEAN : ArriveReceipt(c, i, listed, d[1], d[2])
              \/ ArriveClaim(c, i, d[1], d[2])
       PROVE  LedgerInv'
  BY <1>20, <1>21, <1>22, <1>26
<1>27. ASSUME NEW order \in {hold[i].order : i \in DOMAIN hold},
              \/ releaseStock(order) \/ export(order)
              \/ \E b \in Batches \ Deliveries, n \in CountedAmounts :
                   finishProduction(order, b, n)
       PROVE  LedgerInv'
  BY <1>11, <1>12, <1>13, <1>14, <1>27
<1> QED
  BY <1>8, <1>9, <1>10, <1>15, <1>16, <1>17, <1>18, <1>19, <1>23, <1>24, <1>25, <1>26, <1>27
     DEF LedgerNext

(* Steps of the readers and of the other services. *)
LEMMA ReaderNextKeeps ==
  ASSUME LedgerInv, RequestsTyped, ReaderNext
  PROVE  LedgerInv'
<1>1. UNCHANGED ledgerVars
  BY DEF ReaderNext, ArriveReader, getWarehouseInventoryTransactions, getStoreTransactions,
     getStoreInventory, NextPage
<1>2. LedgerTyped' /\ Balanced' /\ TablesGrow
  BY <1>1, LedgerTablesKept DEF LedgerInv
<1>3. ASSUME NEW c \in Clients, NEW list \in Lists, ArriveReader(c, list)
      PROVE  \A d \in Clients : req'[d] = req[d] \/ req'[d].kind \in Lists
  BY <1>3 DEF ArriveReader, Becomes, RequestsTyped
<1>4. ASSUME NEW c \in Clients, NEW list \in Lists, NextPage(c, list)
      PROVE  \A d \in Clients : req'[d] = req[d] \/ req'[d].kind \in Lists
  <2>1. PICK seen, step : req' = [req EXCEPT ![c].page = @ + 1, ![c].seen = @ \cup seen,
                                            ![c].step = step]
    BY <1>4 DEF NextPage
  <2>2. req[c].kind \in Lists
    BY <1>4 DEF NextPage, At
  <2>3. "kind" \in DOMAIN req[c]
    BY DEF RequestsTyped
  <2>4. req'[c].kind = req[c].kind /\ \A d \in Clients \ {c} : req'[d] = req[d]
    BY <2>1, <2>3 DEF RequestsTyped
  <2> QED
    BY <2>2, <2>4
<1>5. \A d \in Clients : req'[d] = req[d] \/ req'[d].kind \in Lists
  BY <1>3, <1>4 DEF ReaderNext, getWarehouseInventoryTransactions, getStoreTransactions,
     getStoreInventory, Lists
<1>6. \A d \in Clients : req'[d] = req[d] \/ LedgerRequestOK(req[d])'
  BY <1>5 DEF Lists, LedgerRequestOK
<1>7. served' = served
  BY ServedByLedger
<1> QED
  BY <1>2, <1>6, <1>7, RequestsFollow

LEMMA ApartFromLedger ==
  ASSUME NEW K, LedgerInv, Within(K), K \cap LedgerKinds = {}, UNCHANGED ledgerVars,
         served' = served
  PROVE  LedgerInv'
<1>1. \A d \in Clients : req'[d] = req[d] \/ req'[d].kind \in K \cup {"idle"}
  BY DEF Within
<1>2. "receive" \notin K \cup {"idle"} /\ "claim" \notin K \cup {"idle"}
  BY DEF LedgerKinds
<1>3. \A d \in Clients : req'[d] = req[d] \/ LedgerRequestOK(req[d])'
  BY <1>1, <1>2 DEF LedgerRequestOK
<1>4. LedgerTyped' /\ Balanced' /\ TablesGrow
  BY LedgerTablesKept DEF LedgerInv
<1> QED
  BY <1>3, <1>4, RequestsFollow

LEMMA LedgerStart == Init => LedgerInv
<1> SUFFICES ASSUME Init PROVE LedgerInv
  OBVIOUS
<1>1. /\ day = 0 /\ DOMAIN inventory = {} /\ inventory = [r \in DOMAIN inventory |-> inventory[r]]
      /\ batchStatus = [b \in Batches |-> "none"]
      /\ ledger = <<>> /\ hold = <<>> /\ claimItem = <<>> /\ doubtful = {}
      /\ served \in Scenarios
  BY DEF Init, LedgerInit, RequestsInit
<1>2. \A c \in Clients : LedgerRequestOK(req[c])
  BY DEF Init, RequestsInit, Idle, LedgerRequestOK
<1>3. StatusTyped
  <2>1. {b \in Batches : Known(b)} = {}
    BY <1>1 DEF Known
  <2> QED
    BY <1>1, <2>1, FS_EmptySet DEF StatusTyped
<1>4. InventoryTyped /\ HoldsTyped
  BY <1>1 DEF InventoryTyped, HoldsTyped
<1>5. \A r : RowOf(r).quantity = 0 /\ Booked(ledger, r) = 0
  BY <1>1, BookedEmpty DEF RowOf, Stocked
<1> QED
  BY <1>1, <1>2, <1>3, <1>4, <1>5, BookedEmpty, LedgerAssumption
     DEF LedgerInv, LedgerTyped, Balanced

LEMMA LedgerInvariant == Spec => []LedgerInv
<1>1. LedgerInv /\ RequestsTyped /\ [Next]_vars => LedgerInv'
  <2> SUFFICES ASSUME LedgerInv, RequestsTyped, [Next]_vars PROVE LedgerInv'
    OBVIOUS
  <2>0. served' = served
    BY ServedStays
  <2>1. CASE AccountNext /\ UNCHANGED ledgerVars
    BY <2>0, <2>1, AccountWithin, ApartFromLedger DEF AccountKinds, LedgerKinds
  <2>2. CASE CatalogueNext /\ UNCHANGED ledgerVars
    BY <2>0, <2>2, CatalogueWithin, ApartFromLedger DEF CatalogueKinds, LedgerKinds
  <2>3. CASE LogisticsNext /\ UNCHANGED ledgerVars
    BY <2>0, <2>3, LogisticsWithin, ApartFromLedger DEF LogisticsKinds, LedgerKinds
  <2>4. CASE LedgerNext
    BY <2>4, LedgerNextKeeps
  <2>5. CASE ReaderNext
    BY <2>5, ReaderNextKeeps
  <2>6. ASSUME UNCHANGED ledgerVars, \A d \in Clients : req'[d] = req[d] \/ req'[d] = Idle
        PROVE  LedgerInv'
    <3>1. \A d \in Clients : req'[d] = req[d] \/ LedgerRequestOK(req[d])'
      BY <2>6 DEF LedgerRequestOK, Idle
    <3>2. LedgerTyped' /\ Balanced' /\ TablesGrow
      BY <2>6, LedgerTablesKept DEF LedgerInv
    <3> QED
      BY <2>0, <3>1, <3>2, RequestsFollow
  <2>7. CASE ConfigNext /\ UNCHANGED ledgerVars
    <3>1. CASE Within(ConfigKinds)
      BY <2>0, <2>7, <3>1, ApartFromLedger DEF ConfigKinds, LedgerKinds
    <3>2. CASE Restarted
      BY <2>6, <2>7, <3>2 DEF Restarted
    <3> QED
      BY <2>7, <3>1, <3>2, ConfigWithin
  <2>8. ASSUME NEW c \in Clients, Fail(c), UNCHANGED ledgerVars PROVE LedgerInv'
    <3>1. \A d \in Clients : req'[d] = req[d] \/ req'[d] = Idle
      BY <2>8 DEF Fail, Abort, Done, RequestsTyped
    <3> QED
      BY <2>6, <2>8, <3>1
  <2>9. CASE UNCHANGED vars
    <3>1. UNCHANGED ledgerVars /\ \A d \in Clients : req'[d] = req[d]
      BY <2>9 DEF vars, ledgerVars
    <3> QED
      BY <2>6, <3>1
  <2> QED
    BY <2>1, <2>2, <2>3, <2>4, <2>5, <2>7, <2>8, <2>9 DEF Next
<1> QED
  BY LedgerStart, <1>1, RequestsStayTyped, PTL DEF Spec

(* Whatever crosses: the changes logged for a row of the stock sum up to its *)
(* quantity, unless its quantity was written over or logged twice.         *)
THEOREM LedgerAndStockAgree == Spec => []LedgerExplainsStock
<1>1. LedgerInv => LedgerExplainsStock
  <2> SUFFICES ASSUME LedgerInv, NEW r \in DOMAIN inventory \ doubtful PROVE Explained(r)
    BY DEF LedgerExplainsStock
  <2>1. r \in Places \X Batches /\ ledger \in Entries
    BY DEF LedgerInv, LedgerTyped, InventoryTyped
  <2>2. inventory[r].quantity = Booked(ledger, r)
    BY <2>1 DEF LedgerInv, Balanced, RowOf, Stocked
  <2>3. Changes({r[1]}, LAMBDA e : e.batch = r[2] /\ Moved(e)) = Booked(ledger, r)
    BY <2>1, ChangesAreBooked
  <2> QED
    BY <2>2, <2>3 DEF Explained
<1> QED
  BY <1>1, LedgerInvariant, PTL

-----------------------------------------------------------------------------
(* Types.  Each service keeps the types of its tables and the references    *)
(* between them; a request keeps what it has read typed and existing until  *)
(* it writes.  A step of another service changes none of its requests.      *)

Elsewhere(K) == \A d \in Clients : req'[d] = req[d] \/ req'[d].kind \notin K

LEMMA WithinIsElsewhere ==
  ASSUME NEW K, NEW L, Within(K), K \cap L = {}, "idle" \notin L
  PROVE  Elsewhere(L)
BY DEF Within, Elsewhere

LEMMA IdlingIsElsewhere ==
  ASSUME NEW L, "idle" \notin L, \A d \in Clients : req'[d] = req[d] \/ req'[d] = Idle
  PROVE  Elsewhere(L)
BY DEF Elsewhere, Idle

LEMMA OneServiceAtATime ==
  ASSUME RequestsTyped, [Next]_vars
  PROVE  /\ AccountNext \/ (Elsewhere(AccountKinds) /\ UNCHANGED accountVars)
         /\ CatalogueNext \/ (Elsewhere(CatalogueKinds) /\ UNCHANGED catalogueVars)
         /\ LogisticsNext \/ UNCHANGED logisticsVars
         /\ ConfigNext \/ (Elsewhere(ConfigKinds) /\ UNCHANGED configVars)
<1>0. /\ "idle" \notin AccountKinds /\ "idle" \notin CatalogueKinds
      /\ "idle" \notin ConfigKinds
  BY DEF AccountKinds, CatalogueKinds, ConfigKinds
<1>1. CASE AccountNext /\ UNCHANGED <<catalogueVars, logisticsVars, configVars, ledgerVars>>
  <2>1. Elsewhere(CatalogueKinds) /\ Elsewhere(ConfigKinds)
    BY <1>0, <1>1, AccountWithin, WithinIsElsewhere
       DEF AccountKinds, CatalogueKinds, ConfigKinds
  <2> QED
    BY <1>1, <2>1
<1>2. CASE CatalogueNext /\ UNCHANGED <<accountVars, logisticsVars, configVars, ledgerVars>>
  <2>1. Elsewhere(AccountKinds) /\ Elsewhere(ConfigKinds)
    BY <1>0, <1>2, CatalogueWithin, WithinIsElsewhere
       DEF AccountKinds, CatalogueKinds, ConfigKinds
  <2> QED
    BY <1>2, <2>1
<1>3. CASE LogisticsNext /\ UNCHANGED <<accountVars, catalogueVars, configVars, ledgerVars>>
  <2>1. Elsewhere(AccountKinds) /\ Elsewhere(CatalogueKinds) /\ Elsewhere(ConfigKinds)
    BY <1>0, <1>3, LogisticsWithin, WithinIsElsewhere
       DEF AccountKinds, CatalogueKinds, ConfigKinds, LogisticsKinds
  <2> QED
    BY <1>3, <2>1
<1>4. CASE (LedgerNext \/ ReaderNext)
           /\ UNCHANGED <<accountVars, catalogueVars, logisticsVars, configVars>>
  <2>1. Elsewhere(AccountKinds) /\ Elsewhere(CatalogueKinds) /\ Elsewhere(ConfigKinds)
    BY <1>0, <1>4, LedgerWithin, WithinIsElsewhere
       DEF AccountKinds, CatalogueKinds, ConfigKinds, LedgerKinds
  <2> QED
    BY <1>4, <2>1
<1>5. CASE ConfigNext /\ UNCHANGED <<accountVars, catalogueVars, logisticsVars, ledgerVars>>
  <2>1. CASE Within(ConfigKinds)
    <3>1. Elsewhere(AccountKinds) /\ Elsewhere(CatalogueKinds)
      BY <1>0, <2>1, WithinIsElsewhere DEF AccountKinds, CatalogueKinds, ConfigKinds
    <3> QED
      BY <1>5, <3>1
  <2>2. CASE Restarted
    <3>1. Elsewhere(AccountKinds) /\ Elsewhere(CatalogueKinds)
      BY <1>0, <2>2, IdlingIsElsewhere DEF Restarted
    <3> QED
      BY <1>5, <3>1
  <2> QED
    BY <1>5, <2>1, <2>2, ConfigWithin
<1>6. ASSUME NEW c \in Clients, Fail(c),
             UNCHANGED <<accountVars, catalogueVars, logisticsVars, configVars, ledgerVars>>
      PROVE  /\ Elsewhere(AccountKinds) /\ Elsewhere(CatalogueKinds)
             /\ Elsewhere(ConfigKinds)
  <2>1. \A d \in Clients : req'[d] = req[d] \/ req'[d] = Idle
    BY <1>6 DEF Fail, Abort, Done, RequestsTyped
  <2> QED
    BY <1>0, <2>1, IdlingIsElsewhere
<1>7. CASE UNCHANGED vars
  BY <1>7 DEF vars, Elsewhere
<1> QED
  BY <1>1, <1>2, <1>3, <1>4, <1>5, <1>6, <1>7 DEF Next

(* Settings: nothing is cached, or about to be, that the table never held. *)
Backed ==
  \A k \in Keys : configCache[k] # {} \/ (\E c \in Clients : Caching(c, k)) => setting[k] # {}

LEMMA ConfigNextBacks ==
  ASSUME Backed, ConfigInv, RequestsTyped, ConfigNext
  PROVE  Backed'
<1>1. ASSUME NEW c \in Clients, NEW k \in Keys, ArriveGet(c, k) PROVE Backed'
  BY <1>1, RequestsTyped
     DEF ArriveGet, Becomes, Backed, Caching, configVars, RequestsTyped
<1>2. ASSUME NEW c \in Clients, NEW k \in Keys, NEW v \in Values,
             ArriveUpdateConfig(c, k, v)
      PROVE  Backed'
  BY <1>2, RequestsTyped
     DEF ArriveUpdateConfig, Becomes, Backed, Caching, configVars, RequestsTyped
<1>3. ASSUME NEW c \in Clients, findByKey(c) PROVE Backed'
  <2>1. setting' = setting /\ configCache' = configCache
    BY <1>3 DEF findByKey, configVars
  <2>2. \A k \in Keys : Caching(c, k)' => setting[k] # {}
    BY <1>3, RequestsTyped DEF findByKey, Done, Idle, Caching, RequestsTyped
  <2>3. \A d \in Clients \ {c} : req'[d] = req[d]
    BY <1>3, RequestsTyped DEF findByKey, Done, RequestsTyped
  <2> QED
    BY <2>1, <2>2, <2>3 DEF Backed, Caching
<1>4. ASSUME NEW c \in Clients, writeSetting(c) PROVE Backed'
  <2> PICK k, v : k = req[c].key /\ v = req[c].value
    OBVIOUS
  <2>1. k \in Keys /\ v \in Values
    BY <1>4 DEF writeSetting, At, ConfigInv, ConfigRequestOK, UpdateRequest
  <2>2. setting' = [setting EXCEPT ![k] = v] /\ configCache' = configCache
    BY <1>4 DEF writeSetting
  <2>3. v # {}
    BY <2>1, ConfigAssumption
  <2>4. /\ setting'[k] # {}
        /\ \A j \in Keys \ {k} : setting'[j] = setting[j]
    BY <2>1, <2>2, <2>3 DEF ConfigInv, Settings
  <2>5. req' = [req EXCEPT ![c].step = "cache"]
    BY <1>4 DEF writeSetting, GoesTo
  <2>6. \A j \in Keys \ {k}, d \in Clients : Caching(d, j)' => Caching(d, j)
    BY <2>5, RequestsTyped DEF Caching, RequestsTyped
  <2> QED
    BY <2>2, <2>4, <2>6 DEF Backed
<1>5. ASSUME NEW c \in Clients, cacheValue(c) PROVE Backed'
  <2> PICK k, v : k = req[c].key /\ v = req[c].value
    OBVIOUS
  <2>1. /\ Caching(c, k) /\ setting' = setting
        /\ configCache' = [configCache EXCEPT ![k] = v]
        /\ req' = [req EXCEPT ![c] = Idle]
    BY <1>5 DEF cacheValue, At, Caching, Done
  <2>2. \A j \in Keys, d \in Clients : Caching(d, j)' => Caching(d, j)
    BY <2>1, RequestsTyped DEF Caching, RequestsTyped, Idle
  <2>3. \A j \in Keys \ {k} : configCache'[j] = configCache[j]
    BY <2>1 DEF ConfigInv, Settings
  <2> QED
    BY <2>1, <2>2, <2>3 DEF Backed
<1>6. CASE Restart
  BY <1>6 DEF Restart, Backed, Caching, Idle
<1> QED
  BY <1>1, <1>2, <1>3, <1>4, <1>5, <1>6, ConfigNext DEF ConfigNext

LEMMA SettingsAreTyped == Spec => []ConfigTypeOK
<1>1. Init => Backed
  BY DEF Init, RequestsInit, ConfigInit, Backed, Caching, Idle
<1>2. Backed /\ ConfigInv /\ RequestsTyped /\ [Next]_vars => Backed'
  <2> SUFFICES ASSUME Backed, ConfigInv, RequestsTyped, [Next]_vars PROVE Backed'
    OBVIOUS
  <2>1. CASE Elsewhere(ConfigKinds) /\ UNCHANGED configVars
    <3>1. \A c \in Clients, k \in Keys : Caching(c, k)' => Caching(c, k)
      BY <2>1 DEF Elsewhere, Caching, ConfigKinds
    <3> QED
      BY <2>1, <3>1 DEF Backed, configVars
  <2> QED
    BY <2>1, ConfigNextBacks, OneServiceAtATime
<1>3. ConfigInv /\ Backed => ConfigTypeOK
  BY DEF ConfigInv, Backed, ConfigTypeOK
<1> QED
  BY <1>1, <1>2, <1>3, ConfigInvariant, RequestsStayTyped, PTL DEF Spec

(* Vehicles and routes: no plate twice, and no route away from its shops. *)
PlatesApart ==
  \A v, w \in DOMAIN vehicle : vehicle[v].plate = vehicle[w].plate => v = w
RoutesThere == \A s \in DOMAIN shopRoute : shopRoute[s] \in route

LEMMA LogisticsNextRefers ==
  ASSUME PlatesApart, RoutesThere, TripInv, LogisticsNext
  PROVE  PlatesApart' /\ RoutesThere'
<1>0. \A v \in DOMAIN vehicle : vehicle[v] \in VehicleRow
  BY DEF TripInv, RowsOK
<1>1. ASSUME NEW v \in Vehicles, removeVehicle(v) PROVE PlatesApart' /\ RoutesThere'
  BY <1>1 DEF removeVehicle, PlatesApart, RoutesThere
<1>2. ASSUME NEW v \in Vehicles, NEW plate \in Plates, createVehicle(v, plate)
      PROVE  PlatesApart' /\ RoutesThere'
  <2>1. PICK st : vehicle' = [k \in DOMAIN vehicle \cup {v} |->
                    IF k = v THEN [plate |-> plate, status |-> st] ELSE vehicle[k]]
    BY <1>2 DEF createVehicle
  <2>2. \A k \in DOMAIN vehicle : vehicle[k].plate # plate
    BY <1>2 DEF createVehicle, Holding
  <2> QED
    BY <1>2, <2>1, <2>2 DEF createVehicle, PlatesApart, RoutesThere
<1>3. ASSUME NEW r \in Routes, createRoute(r) PROVE PlatesApart' /\ RoutesThere'
  BY <1>3 DEF createRoute, PlatesApart, RoutesThere
<1>4. ASSUME NEW r \in Routes, removeRoute(r) PROVE PlatesApart' /\ RoutesThere'
  BY <1>4 DEF removeRoute, PlatesApart, RoutesThere
<1>5. ASSUME NEW r \in Routes, NEW s \in Shops, assignRoute(s, r)
      PROVE  PlatesApart' /\ RoutesThere'
  BY <1>5 DEF assignRoute, PlatesApart, RoutesThere
<1>6. ASSUME UNCHANGED <<vehicle, route, shopRoute>> PROVE PlatesApart' /\ RoutesThere'
  BY <1>6 DEF PlatesApart, RoutesThere
<1>7. ASSUME NEW c \in Clients, updateVehicle(c) PROVE PlatesApart' /\ RoutesThere'
  <2> PICK v, patch : v = req[c].vehicle /\ patch = req[c].patch
    OBVIOUS
  <2>1. SetVehicle(v, patch) /\ route' = route /\ shopRoute' = shopRoute
    BY <1>7 DEF updateVehicle
  <2>2. /\ v \in DOMAIN vehicle /\ DOMAIN vehicle' = DOMAIN vehicle
        /\ \A k \in DOMAIN vehicle \ {v} : vehicle'[k] = vehicle[k]
        /\ vehicle'[v] = [f \in DOMAIN vehicle[v] |->
                            IF f \in DOMAIN patch THEN patch[f] ELSE vehicle[v][f]]
    BY <2>1 DEF SetVehicle
  <2>3. DOMAIN vehicle[v] = {"plate", "status"}
    BY <1>0, <2>2 DEF VehicleRow
  <2>4. vehicle'[v].plate = IF "plate" \in DOMAIN patch THEN patch.plate
                            ELSE vehicle[v].plate
    BY <2>2, <2>3
  <2>5. "plate" \in DOMAIN patch =>
          \A k \in DOMAIN vehicle \ {v} : vehicle[k].plate # patch.plate
    BY <2>1 DEF SetVehicle, Holding
  <2> QED
    BY <2>1, <2>2, <2>4, <2>5 DEF PlatesApart, RoutesThere
<1>8. ASSUME NEW c \in Clients, updateVehicleStatus(c) PROVE PlatesApart' /\ RoutesThere'
  <2> PICK v : v = trip[req[c].trip].vehicle
    OBVIOUS
  <2>1. /\ vehicle' = [vehicle EXCEPT ![v].status = "in_transit"]
        /\ route' = route /\ shopRoute' = shopRoute
    BY <1>8 DEF updateVehicleStatus
  <2>2. /\ DOMAIN vehicle' = DOMAIN vehicle
        /\ \A k \in DOMAIN vehicle : vehicle'[k].plate = vehicle[k].plate
    BY <1>0, <2>1 DEF VehicleRow
  <2> QED
    BY <2>1, <2>2 DEF PlatesApart, RoutesThere
<1>9. ASSUME NEW c \in Clients, NEW m, NEW v,
             \/ ArriveUpdateVehicle(c, v) \/ ArriveTrip(c, m, v)
             \/ insertTrip(c) \/ depart(c, m) \/ cancelTrip(m)
      PROVE  PlatesApart' /\ RoutesThere'
  BY <1>6, <1>9 DEF ArriveUpdateVehicle, ArriveTrip, insertTrip, depart, cancelTrip,
                    logisticsVars
<1>10. ASSUME NEW m, cancelTrip(m) PROVE PlatesApart' /\ RoutesThere'
  BY <1>6, <1>10 DEF cancelTrip
<1> QED
  BY <1>1, <1>2, <1>3, <1>4, <1>5, <1>7, <1>8, <1>9, <1>10, LogisticsNext
     DEF LogisticsNext, VehicleRequest

LEMMA TripsAreTyped == Spec => []LogisticsTypeOK
<1>1. Init => PlatesApart /\ RoutesThere
  BY LogisticsAssumption DEF Init, LogisticsInit, PlatesApart, RoutesThere
<1>2. PlatesApart /\ RoutesThere /\ TripInv /\ RequestsTyped /\ [Next]_vars
        => (PlatesApart /\ RoutesThere)'
  <2> SUFFICES ASSUME PlatesApart, RoutesThere, TripInv, RequestsTyped, [Next]_vars
               PROVE  PlatesApart' /\ RoutesThere'
    OBVIOUS
  <2>1. CASE UNCHANGED logisticsVars
    BY <2>1 DEF logisticsVars, PlatesApart, RoutesThere
  <2> QED
    BY <2>1, LogisticsNextRefers, OneServiceAtATime
<1>3. TripInv /\ PlatesApart /\ RoutesThere => LogisticsTypeOK
  BY DEF TripInv, RowsOK, PlatesApart, RoutesThere, LogisticsTypeOK, Holding
<1> QED
  BY <1>1, <1>2, <1>3, TripInvariant, RequestsStayTyped, PTL DEF Spec

(* Products, recipes and their orders: rows are typed and refer to rows that *)
(* exist, and so do the rows and patches of the requests in flight.        *)
ProductOK(row) == row \in ProductRow /\ row.unit \in DOMAIN unit
RecipeOK(row) ==
  row \in RecipeRow /\ row.items \subseteq DOMAIN product /\ row.output \in DOMAIN product
OrderOK(row) == row \in ProductionOrderRow /\ row.recipe \in DOMAIN recipe

ProductPatchOK(patch) ==
  /\ "unit" \in DOMAIN patch => patch["unit"] \in DOMAIN unit
  /\ "type" \in DOMAIN patch => patch["type"] \in ProductTypes
  /\ "active" \notin DOMAIN patch
RecipePatchOK(patch) ==
  /\ "output" \in DOMAIN patch =>
       patch["output"] \in Products /\ patch["output"] \in DOMAIN product
  /\ "items" \in DOMAIN patch =>
       patch["items"] \in BillChoices /\ patch["items"] \subseteq DOMAIN product
  /\ "active" \in DOMAIN patch => patch["active"] \in BOOLEAN

CatalogueRequestOK(r) ==
  /\ r.kind \in {"createUnit", "updateUnit"} => r.unit \in Units /\ r.name \in UnitNames
  /\ r.kind = "updateUnit" => r.unit \in DOMAIN unit
  /\ r.kind = "createProduct" => ProductOK(r.row)
  /\ r.kind = "updateProduct" => ProductPatchOK(r.patch)
  /\ r.kind = "createRecipe" => r.recipe \in Recipes /\ RecipeOK(r.row)
  /\ r.kind = "updateRecipe" => RecipePatchOK(r.patch)
  /\ r.kind = "createOrder" => OrderOK(r.row)

UnitsTyped ==
  \A u \in DOMAIN unit : u \in Units /\ unit[u] \in UnitRow
ProductsTyped == \A p \in DOMAIN product : ProductOK(product[p])
RecipesTyped == \A r \in DOMAIN recipe : r \in Recipes /\ RecipeOK(recipe[r])
OrdersTyped == \A o \in DOMAIN porder : OrderOK(porder[o])
LotsTyped == \A l \in DOMAIN lot : lot[l] \in LotRow /\ lot[l].product \in DOMAIN product
SuppliersTyped == \A s \in DOMAIN supplier : supplier[s] \in SupplierRow

CatalogueTyped ==
  /\ UnitsTyped /\ ProductsTyped /\ RecipesTyped /\ OrdersTyped
  /\ LotsTyped /\ SuppliersTyped

CatalogueInv == CatalogueTyped /\ \A c \in Clients : CatalogueRequestOK(req[c])

CatalogueGrows ==
  /\ DOMAIN unit \subseteq DOMAIN unit' /\ DOMAIN product \subseteq DOMAIN product'
  /\ DOMAIN recipe \subseteq DOMAIN recipe'

LEMMA CatalogueRequestStays ==
  ASSUME CatalogueGrows, NEW r, CatalogueRequestOK(r)
  PROVE  CatalogueRequestOK(r)'
BY DEF CatalogueGrows, CatalogueRequestOK, ProductOK, RecipeOK, OrderOK, ProductPatchOK,
       RecipePatchOK

LEMMA CatalogueFollows ==
  ASSUME CatalogueInv, CatalogueTyped', CatalogueGrows,
         \A d \in Clients : req'[d] = req[d] \/ CatalogueRequestOK(req'[d])
  PROVE  CatalogueInv'
<1>1. ASSUME NEW d \in Clients PROVE CatalogueRequestOK(req[d])'
  <2>1. PICK r : r = req'[d]
    OBVIOUS
  <2>2. CatalogueRequestOK(r)
    BY <2>1 DEF CatalogueInv
  <2>3. CatalogueRequestOK(r)'
    BY <2>2, CatalogueRequestStays
  <2> QED
    BY <2>1, <2>3 DEF CatalogueRequestOK
<1> QED
  BY <1>1 DEF CatalogueInv

(* One table is written, and the others stay typed. *)
LEMMA RecipesStayTyped ==
  ASSUME RecipesTyped, OrdersTyped, LotsTyped, CatalogueGrows,
         UNCHANGED <<recipe, porder, lot>>
  PROVE  RecipesTyped' /\ OrdersTyped' /\ LotsTyped'
BY DEF RecipesTyped, RecipeOK, OrdersTyped, OrderOK, LotsTyped, CatalogueGrows

LEMMA UnitTyped ==
  ASSUME CatalogueTyped, UNCHANGED <<product, recipe, porder, lot, supplier>>,
         UnitsTyped', DOMAIN unit \subseteq DOMAIN unit'
  PROVE  CatalogueTyped' /\ CatalogueGrows
<1>1. CatalogueGrows
  BY DEF CatalogueGrows
<1>2. ProductsTyped'
  BY DEF CatalogueTyped, ProductsTyped, ProductOK
<1>3. RecipesTyped' /\ OrdersTyped' /\ LotsTyped'
  BY <1>1, RecipesStayTyped DEF CatalogueTyped
<1> QED
  BY <1>1, <1>2, <1>3 DEF CatalogueTyped, SuppliersTyped

LEMMA ProductTyped ==
  ASSUME CatalogueTyped, UNCHANGED <<unit, recipe, porder, lot, supplier>>,
         \A p \in DOMAIN product' : ProductOK(product'[p]),
         DOMAIN product \subseteq DOMAIN product'
  PROVE  CatalogueTyped' /\ CatalogueGrows
<1>1. CatalogueGrows
  BY DEF CatalogueGrows
<1>2. ProductsTyped'
  BY DEF ProductsTyped, ProductOK
<1>3. RecipesTyped' /\ OrdersTyped' /\ LotsTyped'
  BY <1>1, RecipesStayTyped DEF CatalogueTyped
<1> QED
  BY <1>1, <1>2, <1>3 DEF CatalogueTyped, SuppliersTyped, UnitsTyped

LEMMA RecipeTyped ==
  ASSUME CatalogueTyped, UNCHANGED <<unit, product, porder, lot, supplier>>,
         \A r \in DOMAIN recipe' : r \in Recipes /\ RecipeOK(recipe'[r]),
         DOMAIN recipe \subseteq DOMAIN recipe'
  PROVE  CatalogueTyped' /\ CatalogueGrows
<1>1. CatalogueGrows
  BY DEF CatalogueGrows
<1>2. RecipesTyped'
  BY DEF RecipesTyped, RecipeOK
<1>3. OrdersTyped'
  BY DEF CatalogueTyped, OrdersTyped, OrderOK
<1> QED
  BY <1>1, <1>2, <1>3
     DEF CatalogueTyped, SuppliersTyped, UnitsTyped, ProductsTyped, ProductOK, LotsTyped

LEMMA OtherTyped ==
  ASSUME CatalogueTyped, UNCHANGED <<unit, product, recipe>>,
         OrdersTyped', LotsTyped', SuppliersTyped'
  PROVE  CatalogueTyped' /\ CatalogueGrows
BY DEF CatalogueTyped, UnitsTyped, ProductsTyped, ProductOK, RecipesTyped, RecipeOK,
       CatalogueGrows

LEMMA CatalogueTablesKept ==
  ASSUME CatalogueTyped, UNCHANGED catalogueVars
  PROVE  CatalogueTyped' /\ CatalogueGrows
<1>1. UNCHANGED <<unit, product, recipe, porder, lot, supplier>>
  BY DEF catalogueVars
<1>2. OrdersTyped' /\ LotsTyped' /\ SuppliersTyped'
  BY <1>1 DEF CatalogueTyped, OrdersTyped, OrderOK, LotsTyped, SuppliersTyped
<1> QED
  BY <1>1, <1>2, OtherTyped

(* What a patch makes of a row. *)
LEMMA PatchedProduct ==
  ASSUME UnitsTyped, NEW row, ProductOK(row), NEW patch, ProductPatchOK(patch)
  PROVE  ProductOK(Patched(row, patch))
<1>1. DOMAIN row = {"unit", "type", "active"}
  BY DEF ProductOK, ProductRow
<1>2. PICK u, t, a : /\ u = (IF "unit" \in DOMAIN patch THEN patch["unit"] ELSE row["unit"])
                     /\ t = (IF "type" \in DOMAIN patch THEN patch["type"] ELSE row["type"])
                     /\ a = row["active"]
  OBVIOUS
<1>3. u \in DOMAIN unit /\ u \in Units /\ t \in ProductTypes /\ a \in BOOLEAN
  BY <1>2 DEF ProductOK, ProductRow, ProductPatchOK, UnitsTyped
<1>4. Patched(row, patch) = [unit |-> u, type |-> t, active |-> a]
  BY <1>1, <1>2 DEF Patched, ProductPatchOK
<1> QED
  BY <1>3, <1>4 DEF ProductOK, ProductRow

LEMMA PatchedRecipe ==
  ASSUME NEW row, RecipeOK(row), NEW patch, RecipePatchOK(patch)
  PROVE  RecipeOK(Patched(row, patch))
<1>1. DOMAIN row = {"output", "items", "active"}
  BY DEF RecipeOK, RecipeRow
<1>2. PICK p, S, a :
        /\ p = (IF "output" \in DOMAIN patch THEN patch["output"] ELSE row["output"])
        /\ S = (IF "items" \in DOMAIN patch THEN patch["items"] ELSE row["items"])
        /\ a = (IF "active" \in DOMAIN patch THEN patch["active"] ELSE row["active"])
  OBVIOUS
<1>3. /\ p \in Products /\ p \in DOMAIN product
      /\ S \in BillChoices /\ S \subseteq DOMAIN product
      /\ a \in BOOLEAN
  BY <1>2 DEF RecipeOK, RecipeRow, RecipePatchOK
<1>4. Patched(row, patch) = [output |-> p, items |-> S, active |-> a]
  BY <1>1, <1>2 DEF Patched
<1> QED
  BY <1>3, <1>4 DEF RecipeOK, RecipeRow

LEMMA UnitStatements ==
  ASSUME CatalogueTyped, NEW u \in Units, removeUnit(u)
  PROVE  CatalogueTyped' /\ CatalogueGrows
<1>1. /\ unit' = [unit EXCEPT ![u].active = FALSE] /\ u \in DOMAIN unit
      /\ UNCHANGED <<product, recipe, porder, lot, supplier>>
  BY DEF removeUnit, Active
<1>2. UnitsTyped' /\ DOMAIN unit \subseteq DOMAIN unit'
  BY <1>1 DEF CatalogueTyped, UnitsTyped, UnitRow
<1> QED
  BY <1>1, <1>2, UnitTyped

LEMMA WriteUnitTyped ==
  ASSUME CatalogueInv, NEW c \in Clients, writeUnit(c)
  PROVE  CatalogueTyped' /\ CatalogueGrows
<1> PICK u, name : u = req[c].unit /\ name = req[c].name
  OBVIOUS
<1> PICK a : a = (req[c].kind = "createUnit" \/ unit[u].active)
  OBVIOUS
<1>1. /\ u \in Units /\ name \in UnitNames
      /\ req[c].kind = "updateUnit" => u \in DOMAIN unit
      /\ req[c].kind \in {"createUnit", "updateUnit"}
  BY DEF writeUnit, At, CatalogueInv, CatalogueRequestOK
<1>2. /\ unit' = With(unit, u, [name |-> name, active |-> a])
      /\ UNCHANGED <<product, recipe, porder, lot, supplier>>
  BY DEF writeUnit
<1>3. a \in BOOLEAN
  OBVIOUS
<1>4. [name |-> name, active |-> a] \in UnitRow
  BY <1>1, <1>3 DEF UnitRow
<1>5. UnitsTyped' /\ DOMAIN unit \subseteq DOMAIN unit'
  BY <1>1, <1>2, <1>4 DEF CatalogueInv, CatalogueTyped, UnitsTyped, With
<1> QED
  BY <1>2, <1>5, UnitTyped DEF CatalogueInv

LEMMA ActivityTyped ==
  ASSUME NEW row, NEW active \in BOOLEAN, ProductOK(row)
  PROVE  ProductOK([row EXCEPT !.active = active])
BY DEF ProductOK, ProductRow

LEMMA ProductStatements ==
  ASSUME CatalogueTyped, NEW p \in Products, removeProduct(p) \/ restoreProduct(p)
  PROVE  CatalogueTyped' /\ CatalogueGrows
<1>1. PICK active \in BOOLEAN :
        /\ product' = [product EXCEPT ![p].active = active] /\ p \in DOMAIN product
        /\ UNCHANGED <<unit, recipe, porder, lot, supplier>>
  BY DEF removeProduct, restoreProduct, Active
<1>2. /\ DOMAIN product' = DOMAIN product
      /\ \A k \in DOMAIN product \ {p} : product'[k] = product[k]
      /\ product'[p] = [product[p] EXCEPT !.active = active]
  BY <1>1
<1>3. \A k \in DOMAIN product' : ProductOK(product'[k])
  BY <1>1, <1>2, ActivityTyped DEF CatalogueTyped, ProductsTyped
<1> QED
  BY <1>1, <1>2, <1>3, ProductTyped

LEMMA ProductRequestsTyped ==
  ASSUME CatalogueInv, NEW c \in Clients, createProduct(c) \/ updateProduct(c)
  PROVE  CatalogueTyped' /\ CatalogueGrows
<1> PICK p, row, patch : p = req[c].product /\ row = req[c].row /\ patch = req[c].patch
  OBVIOUS
<1>0. UNCHANGED <<unit, recipe, porder, lot, supplier>>
  BY DEF createProduct, updateProduct
<1>1. CASE createProduct(c)
  <2>1. ProductOK(row) /\ product' = With(product, p, row)
    BY <1>1 DEF createProduct, At, CatalogueInv, CatalogueRequestOK
  <2>2. /\ \A k \in DOMAIN product' : ProductOK(product'[k])
        /\ DOMAIN product \subseteq DOMAIN product'
    BY <2>1 DEF With, CatalogueInv, CatalogueTyped, ProductsTyped
  <2> QED
    BY <1>0, <2>2, ProductTyped DEF CatalogueInv
<1>2. CASE updateProduct(c)
  <2>1. ProductPatchOK(patch) /\ product' = [product EXCEPT ![p] = Patched(@, patch)]
    BY <1>2 DEF updateProduct, At, CatalogueInv, CatalogueRequestOK
  <2>2. DOMAIN product' = DOMAIN product
    BY <2>1
  <2>3. ASSUME NEW k \in DOMAIN product PROVE ProductOK(product'[k])
    <3>1. ProductOK(product[k]) /\ UnitsTyped
      BY DEF CatalogueInv, CatalogueTyped, ProductsTyped
    <3>2. ProductOK(Patched(product[k], patch))
      BY <2>1, <3>1, PatchedProduct
    <3> QED
      BY <2>1, <3>1, <3>2
  <2> QED
    BY <1>0, <2>2, <2>3, ProductTyped DEF CatalogueInv
<1> QED
  BY <1>1, <1>2

LEMMA RecipeRequestsTyped ==
  ASSUME CatalogueInv, NEW c \in Clients, createRecipe(c) \/ updateRecipe(c)
  PROVE  CatalogueTyped' /\ CatalogueGrows
<1> PICK r, row, patch : r = req[c].recipe /\ row = req[c].row /\ patch = req[c].patch
  OBVIOUS
<1>0. UNCHANGED <<unit, product, porder, lot, supplier>>
  BY DEF createRecipe, updateRecipe
<1>1. CASE createRecipe(c)
  <2>1. r \in Recipes /\ RecipeOK(row) /\ recipe' = With(recipe, r, row)
    BY <1>1 DEF createRecipe, At, CatalogueInv, CatalogueRequestOK
  <2>2. /\ \A k \in DOMAIN recipe' : k \in Recipes /\ RecipeOK(recipe'[k])
        /\ DOMAIN recipe \subseteq DOMAIN recipe'
    BY <2>1 DEF With, CatalogueInv, CatalogueTyped, RecipesTyped
  <2> QED
    BY <1>0, <2>2, RecipeTyped DEF CatalogueInv
<1>2. CASE updateRecipe(c)
  <2>1. RecipePatchOK(patch) /\ recipe' = [recipe EXCEPT ![r] = Patched(@, patch)]
    BY <1>2 DEF updateRecipe, At, CatalogueInv, CatalogueRequestOK
  <2>2. DOMAIN recipe' = DOMAIN recipe
    BY <2>1
  <2>3. ASSUME NEW k \in DOMAIN recipe PROVE k \in Recipes /\ RecipeOK(recipe'[k])
    <3>1. k \in Recipes /\ RecipeOK(recipe[k])
      BY DEF CatalogueInv, CatalogueTyped, RecipesTyped
    <3>2. RecipeOK(Patched(recipe[k], patch))
      BY <2>1, <3>1, PatchedRecipe
    <3> QED
      BY <2>1, <3>1, <3>2
  <2> QED
    BY <1>0, <2>2, <2>3, RecipeTyped DEF CatalogueInv
<1> QED
  BY <1>1, <1>2

LEMMA OrderStatements ==
  ASSUME CatalogueTyped, NEW o \in DOMAIN porder, startOrder(o) \/ completeOrder(o)
  PROVE  CatalogueTyped' /\ CatalogueGrows
<1>1. PICK status \in {"in_progress", "completed"} :
        /\ porder' = [porder EXCEPT ![o].status = status]
        /\ UNCHANGED <<unit, product, recipe, lot, supplier>>
  BY DEF startOrder, completeOrder
<1>2. OrdersTyped'
  BY <1>1 DEF CatalogueTyped, OrdersTyped, OrderOK, ProductionOrderRow
<1>3. LotsTyped' /\ SuppliersTyped'
  BY <1>1 DEF CatalogueTyped, LotsTyped, SuppliersTyped
<1> QED
  BY <1>1, <1>2, <1>3, OtherTyped

LEMMA CreateOrderTyped ==
  ASSUME CatalogueInv, NEW c \in Clients, createProductionOrder(c)
  PROVE  CatalogueTyped' /\ CatalogueGrows
<1> PICK o, row : o = req[c].porder /\ row = req[c].row
  OBVIOUS
<1>1. /\ OrderOK(row) /\ porder' = With(porder, o, row)
      /\ UNCHANGED <<unit, product, recipe, lot, supplier>>
  BY DEF createProductionOrder, At, CatalogueInv, CatalogueRequestOK
<1>2. OrdersTyped'
  BY <1>1 DEF With, CatalogueInv, CatalogueTyped, OrdersTyped, OrderOK
<1>3. LotsTyped' /\ SuppliersTyped'
  BY <1>1 DEF CatalogueInv, CatalogueTyped, LotsTyped, SuppliersTyped
<1> QED
  BY <1>1, <1>2, <1>3, OtherTyped DEF CatalogueInv

LEMMA LotStatements ==
  ASSUME CatalogueTyped, NEW l \in Lots,
         updateBatch(l) \/ \E p \in Products : createBatch(l, p)
  PROVE  CatalogueTyped' /\ CatalogueGrows
<1>0. UNCHANGED <<unit, product, recipe, porder, supplier>>
  BY DEF updateBatch, createBatch
<1>1. ASSUME NEW p \in Products, createBatch(l, p) PROVE LotsTyped'
  <2>1. /\ p \in DOMAIN product
        /\ lot' = With(lot, l, [product |-> p, status |-> "pending", quantity |-> 0])
    BY <1>1 DEF createBatch
  <2>2. [product |-> p, status |-> "pending", quantity |-> 0] \in LotRow
    BY DEF LotRow
  <2> QED
    BY <1>0, <2>1, <2>2 DEF With, CatalogueTyped, LotsTyped
<1>2. ASSUME updateBatch(l) PROVE LotsTyped'
  <2>1. l \in DOMAIN lot /\ lot[l] \in LotRow
    BY <1>2 DEF updateBatch, CatalogueTyped, LotsTyped
  <2>2. PICK st \in {lot[l].status, "pending", "available", "empty", "expired"},
             n \in LotQuantities \cup {lot[l].quantity} :
          lot' = [lot EXCEPT ![l].status = st, ![l].quantity = n]
    BY <1>2 DEF updateBatch
  <2>3. [lot[l] EXCEPT !.status = st, !.quantity = n] \in LotRow
        /\ [lot[l] EXCEPT !.status = st, !.quantity = n].product = lot[l].product
    BY <2>1, <2>2 DEF LotRow
  <2>4. /\ DOMAIN lot' = DOMAIN lot
        /\ \A k \in DOMAIN lot \ {l} : lot'[k] = lot[k]
        /\ lot'[l] = [lot[l] EXCEPT !.status = st, !.quantity = n]
    BY <2>1, <2>2
  <2> QED
    BY <1>0, <2>1, <2>3, <2>4 DEF CatalogueTyped, LotsTyped
<1>3. OrdersTyped' /\ SuppliersTyped'
  BY <1>0 DEF CatalogueTyped, OrdersTyped, OrderOK, SuppliersTyped
<1> QED
  BY <1>0, <1>1, <1>2, <1>3, OtherTyped

LEMMA SupplierStatements ==
  ASSUME CatalogueTyped, NEW s \in Suppliers, createSupplier(s) \/ removeSupplier(s)
  PROVE  CatalogueTyped' /\ CatalogueGrows
<1>0. UNCHANGED <<unit, product, recipe, porder, lot>>
  BY DEF createSupplier, removeSupplier
<1>1. SuppliersTyped'
  <2>1. [active |-> TRUE] \in SupplierRow
    BY DEF SupplierRow
  <2>2. ASSUME NEW row \in SupplierRow
        PROVE  [row EXCEPT !.active = FALSE] \in SupplierRow
    BY DEF SupplierRow
  <2>3. CASE createSupplier(s)
    BY <2>1, <2>3 DEF createSupplier, With, CatalogueTyped, SuppliersTyped
  <2>4. CASE removeSupplier(s)
    <3>1. /\ s \in DOMAIN supplier /\ supplier[s] \in SupplierRow
          /\ supplier' = [supplier EXCEPT ![s] = [supplier[s] EXCEPT !.active = FALSE]]
      BY <2>4 DEF removeSupplier, Active, CatalogueTyped, SuppliersTyped
    <3>2. supplier'[s] \in SupplierRow
      BY <2>2, <3>1
    <3> QED
      BY <3>1, <3>2 DEF CatalogueTyped, SuppliersTyped
  <2> QED
    BY <2>3, <2>4
<1>2. OrdersTyped' /\ LotsTyped'
  BY <1>0 DEF CatalogueTyped, OrdersTyped, OrderOK, LotsTyped
<1> QED
  BY <1>0, <1>1, <1>2, OtherTyped

(* What the requests check before they wait. *)
LEMMA ArrivalsChecked ==
  ASSUME CatalogueInv, RequestsTyped, NEW c \in Clients,
         \/ \E u \in Units, name \in UnitNames :
              ArriveCreateUnit(c, u, name) \/ ArriveUpdateUnit(c, u, name)
         \/ \E p \in Products, u \in Units : ArriveCreateProduct(c, p, u)
         \/ \E p \in Products : ArriveUpdateProduct(c, p)
         \/ \E r \in Recipes, p \in Products, S \in BillChoices :
              ArriveCreateRecipe(c, r, p, S)
         \/ \E r \in DOMAIN recipe : \E patch \in RecipePatches :
              ArriveUpdateRecipe(c, r, patch)
         \/ \E o \in ProductionOrders, p \in Products : ArriveProductionOrder(c, o, p)
  PROVE  CatalogueInv'
<1>a. ASSUME UNCHANGED catalogueVars, NEW r, Becomes(c, r), CatalogueRequestOK(r)
      PROVE  CatalogueInv'
  <2>1. \A d \in Clients : req'[d] = req[d] \/ CatalogueRequestOK(req'[d])
    BY <1>a, RequestsTyped DEF Becomes, RequestsTyped
  <2> QED
    BY <1>a, <2>1, CatalogueTablesKept, CatalogueFollows DEF CatalogueInv
<1>1. ASSUME NEW u \in Units, NEW name \in UnitNames,
             ArriveCreateUnit(c, u, name) \/ ArriveUpdateUnit(c, u, name)
      PROVE  CatalogueInv'
  BY <1>1, <1>a DEF ArriveCreateUnit, ArriveUpdateUnit, Active, CatalogueRequestOK
<1>2. ASSUME NEW p \in Products, NEW u \in Units, ArriveCreateProduct(c, p, u)
      PROVE  CatalogueInv'
  <2>1. PICK type \in ProductTypes :
          Becomes(c, [kind |-> "createProduct", step |-> "insert", product |-> p,
                      row |-> [unit |-> u, type |-> type, active |-> TRUE]])
    BY <1>2 DEF ArriveCreateProduct
  <2>2. ProductOK([unit |-> u, type |-> type, active |-> TRUE])
    BY <1>2 DEF ArriveCreateProduct, Active, ProductOK, ProductRow
  <2> QED
    BY <1>2, <1>a, <2>1, <2>2 DEF ArriveCreateProduct, CatalogueRequestOK
<1>3. ASSUME NEW p \in Products, ArriveUpdateProduct(c, p) PROVE CatalogueInv'
  <2>1. PICK type \in ProductTypes, u \in DOMAIN unit, fields \in SUBSET {"unit", "type"} :
          Becomes(c, [kind |-> "updateProduct", step |-> "update", product |-> p,
                      patch |-> Restrict([unit |-> u, type |-> type], fields)])
    BY <1>3 DEF ArriveUpdateProduct
  <2>2. ProductPatchOK(Restrict([unit |-> u, type |-> type], fields))
    BY DEF Restrict, ProductPatchOK
  <2> QED
    BY <1>3, <1>a, <2>1, <2>2 DEF ArriveUpdateProduct, CatalogueRequestOK
<1>4. ASSUME NEW r \in Recipes, NEW p \in Products, NEW S \in BillChoices,
             ArriveCreateRecipe(c, r, p, S)
      PROVE  CatalogueInv'
  <2>1. RecipeOK([output |-> p, items |-> S, active |-> TRUE])
    BY <1>4 DEF ArriveCreateRecipe, IsOutput, assertBomIngredientLines, Active, RecipeOK,
                RecipeRow
  <2> QED
    BY <1>4, <1>a, <2>1 DEF ArriveCreateRecipe, CatalogueRequestOK
<1>5. ASSUME NEW r \in DOMAIN recipe, NEW patch \in RecipePatches,
             ArriveUpdateRecipe(c, r, patch)
      PROVE  CatalogueInv'
  <2>1. PICK row \in RecipeRow, fields \in SUBSET {"output", "items", "active"} :
          patch = Restrict(row, fields)
    BY DEF RecipePatches
  <2>2. /\ "output" \in DOMAIN patch => patch["output"] \in Products
        /\ "items" \in DOMAIN patch => patch["items"] \in BillChoices
        /\ "active" \in DOMAIN patch => patch["active"] \in BOOLEAN
    BY <2>1 DEF Restrict, RecipeRow
  <2>3. DOMAIN recipe[r] = {"output", "items", "active"}
    BY DEF CatalogueInv, CatalogueTyped, RecipesTyped, RecipeOK, RecipeRow
  <2>4. PICK new : new = Patched(recipe[r], patch)
    OBVIOUS
  <2>5. /\ "output" \in DOMAIN patch => new["output"] = patch["output"]
        /\ "items" \in DOMAIN patch => new["items"] = patch["items"]
    BY <2>3, <2>4 DEF Patched
  <2>6. /\ "output" \in DOMAIN patch => IsOutput(new.output)
        /\ "items" \in DOMAIN patch => assertBomIngredientLines(new.output, new.items)
    BY <1>5, <2>4 DEF ArriveUpdateRecipe
  <2>7. RecipePatchOK(patch)
    BY <2>2, <2>5, <2>6 DEF IsOutput, assertBomIngredientLines, Active, RecipePatchOK
  <2>8. UNCHANGED catalogueVars
        /\ Becomes(c, [kind |-> "updateRecipe", step |-> "update", recipe |-> r,
                       patch |-> patch, seen |-> DOMAIN porder])
    BY <1>5 DEF ArriveUpdateRecipe
  <2> QED
    BY <1>a, <2>7, <2>8 DEF CatalogueRequestOK
<1>6. ASSUME NEW o \in ProductionOrders, NEW p \in Products, ArriveProductionOrder(c, o, p)
      PROVE  CatalogueInv'
  <2>1. PICK r \in DOMAIN recipe, st \in {"draft", "pending"} :
          Becomes(c, [kind |-> "createOrder", step |-> "insert", porder |-> o,
                      row |-> [recipe |-> r, status |-> st]])
    BY <1>6 DEF ArriveProductionOrder
  <2>2. OrderOK([recipe |-> r, status |-> st])
    BY DEF CatalogueInv, CatalogueTyped, RecipesTyped, OrderOK, ProductionOrderRow
  <2> QED
    BY <1>6, <1>a, <2>1, <2>2 DEF ArriveProductionOrder, CatalogueRequestOK
<1> QED
  BY <1>1, <1>2, <1>3, <1>4, <1>5, <1>6

LEMMA CatalogueNextTyped ==
  ASSUME CatalogueInv, RequestsTyped, CatalogueNext
  PROVE  CatalogueInv'
<1>a. ASSUME UNCHANGED req, CatalogueTyped' /\ CatalogueGrows
      PROVE  CatalogueInv'
  BY <1>a, CatalogueFollows
<1>b. ASSUME NEW c \in Clients, Done(c), CatalogueTyped' /\ CatalogueGrows
      PROVE  CatalogueInv'
  <2>1. \A d \in Clients : req'[d] = req[d] \/ CatalogueRequestOK(req'[d])
    BY <1>b, RequestsTyped DEF Done, RequestsTyped, Idle, CatalogueRequestOK
  <2> QED
    BY <1>b, <2>1, CatalogueFollows
<1>1. ASSUME NEW u \in Units, removeUnit(u) PROVE CatalogueInv'
  <2>1. UNCHANGED req
    BY <1>1 DEF removeUnit, Immediate
  <2> QED
    BY <1>1, <1>a, <2>1, UnitStatements DEF CatalogueInv
<1>2. ASSUME NEW p \in Products, removeProduct(p) \/ restoreProduct(p) PROVE CatalogueInv'
  <2>1. UNCHANGED req
    BY <1>2 DEF removeProduct, restoreProduct, Immediate
  <2> QED
    BY <1>2, <1>a, <2>1, ProductStatements DEF CatalogueInv
<1>3. ASSUME NEW l \in Lots, updateBatch(l) \/ \E p \in Products : createBatch(l, p)
      PROVE  CatalogueInv'
  <2>1. UNCHANGED req
    BY <1>3 DEF updateBatch, createBatch, Immediate
  <2> QED
    BY <1>3, <1>a, <2>1, LotStatements DEF CatalogueInv
<1>4. ASSUME NEW s \in Suppliers, createSupplier(s) \/ removeSupplier(s) PROVE CatalogueInv'
  <2>1. UNCHANGED req
    BY <1>4 DEF createSupplier, removeSupplier, Immediate
  <2> QED
    BY <1>4, <1>a, <2>1, SupplierStatements DEF CatalogueInv
<1>5. ASSUME NEW o \in DOMAIN porder, startOrder(o) \/ completeOrder(o) PROVE CatalogueInv'
  <2>1. UNCHANGED req
    BY <1>5 DEF startOrder, completeOrder, Immediate
  <2> QED
    BY <1>5, <1>a, <2>1, OrderStatements DEF CatalogueInv
<1>6. ASSUME NEW c \in Clients,
             \/ writeUnit(c) \/ createProduct(c) \/ updateProduct(c)
             \/ createRecipe(c) \/ updateRecipe(c) \/ createProductionOrder(c)
      PROVE  CatalogueInv'
  <2>1. Done(c)
    BY <1>6 DEF writeUnit, createProduct, updateProduct, createRecipe, updateRecipe,
                createProductionOrder
  <2>2. CatalogueTyped' /\ CatalogueGrows
    BY <1>6, WriteUnitTyped, ProductRequestsTyped, RecipeRequestsTyped, CreateOrderTyped
  <2> QED
    BY <1>b, <2>1, <2>2
<1>7. ASSUME NEW c \in Clients, ProductRequest(c) PROVE CatalogueInv'
  BY <1>6, <1>7, ArrivalsChecked DEF ProductRequest
<1>8. ASSUME NEW c \in Clients, RecipeRequest(c) PROVE CatalogueInv'
  BY <1>6, <1>8, ArrivalsChecked DEF RecipeRequest
<1> QED
  BY <1>1, <1>2, <1>3, <1>4, <1>5, <1>7, <1>8, CatalogueNext DEF CatalogueNext

LEMMA CatalogueInvariant == Spec => []CatalogueInv
<1>1. Init => CatalogueInv
  <2> SUFFICES ASSUME Init PROVE CatalogueInv
    OBVIOUS
  <2>1. \A c \in Clients : CatalogueRequestOK(req[c])
    BY DEF Init, RequestsInit, Idle, CatalogueRequestOK
  <2>2. /\ unit = SeedUnits /\ product = SeedProducts /\ recipe = SeedRecipes
        /\ DOMAIN porder = {} /\ DOMAIN lot = {} /\ DOMAIN supplier = {}
    BY DEF Init, CatalogueInit, NoRows
  <2>3. UnitsTyped /\ ProductsTyped /\ RecipesTyped
    BY <2>2, CatalogueAssumption
       DEF UnitsTyped, ProductsTyped, ProductOK, RecipesTyped, RecipeOK
  <2>4. OrdersTyped /\ LotsTyped /\ SuppliersTyped
    BY <2>2 DEF OrdersTyped, LotsTyped, SuppliersTyped
  <2> QED
    BY <2>1, <2>3, <2>4 DEF CatalogueInv, CatalogueTyped
<1>2. CatalogueInv /\ RequestsTyped /\ [Next]_vars => CatalogueInv'
  <2> SUFFICES ASSUME CatalogueInv, RequestsTyped, [Next]_vars PROVE CatalogueInv'
    OBVIOUS
  <2>1. CASE Elsewhere(CatalogueKinds) /\ UNCHANGED catalogueVars
    <3>1. \A d \in Clients : req'[d] = req[d] \/ CatalogueRequestOK(req'[d])
      BY <2>1 DEF Elsewhere, CatalogueKinds, CatalogueRequestOK
    <3> QED
      BY <2>1, <3>1, CatalogueTablesKept, CatalogueFollows DEF CatalogueInv
  <2> QED
    BY <2>1, CatalogueNextTyped, OneServiceAtATime
<1> QED
  BY <1>1, <1>2, RequestsStayTyped, PTL DEF Spec

LEMMA CatalogueIsTyped == Spec => []CatalogueTypeOK
<1>1. CatalogueInv => CatalogueTypeOK
  BY DEF CatalogueInv, CatalogueTyped, UnitsTyped, ProductsTyped, ProductOK, RecipesTyped,
         RecipeOK, OrdersTyped, OrderOK, LotsTyped, SuppliersTyped, CatalogueTypeOK
<1> QED
  BY <1>1, CatalogueInvariant, PTL

(* Accounts: stores never vanish, so a row read stays a row that exists. *)
UserOK(row) == row \in UserRow /\ row.store \subseteq DOMAIN store

AccountRequestTyped(r) ==
  /\ r.kind = "staff" => r.users \subseteq Users /\ r.store \in DOMAIN store
  /\ r.kind = "createUser" => r.user \in Users /\ UserOK(r.row)
  /\ r.kind = "approve" => r.email \in Address

StoresTyped == DOMAIN store \subseteq Stores /\ storeroom \subseteq Stores
UsersTyped == \A u \in DOMAIN account : u \in Users /\ UserOK(account[u])
SessionsTyped ==
  /\ issued \in 0..MaxSessions
  /\ \A t \in DOMAIN session : t \in 1..issued /\ session[t] \in SessionRow
CodesTyped == \A i \in DOMAIN code : code[i] \in CodeRow

AccountTyped ==
  /\ instant \in 0..LastInstant
  /\ StoresTyped /\ UsersTyped /\ SessionsTyped /\ CodesTyped

StoresGrow == DOMAIN store \subseteq DOMAIN store'
AccountRequestsTyped == \A c \in Clients : AccountRequestTyped(req[c])

LEMMA AccountRequestsFollow ==
  ASSUME AccountRequestsTyped, StoresGrow,
         \A d \in Clients : req'[d] = req[d] \/ AccountRequestTyped(req'[d])
  PROVE  AccountRequestsTyped'
<1>1. ASSUME NEW d \in Clients PROVE AccountRequestTyped(req[d])'
  <2>1. AccountRequestTyped(req'[d])
    BY DEF AccountRequestsTyped
  <2> QED
    BY <2>1 DEF AccountRequestTyped, UserOK, StoresGrow
<1> QED
  BY <1>1 DEF AccountRequestsTyped

LEMMA UsersStayTyped ==
  ASSUME UsersTyped, StoresGrow, account' = account
  PROVE  UsersTyped'
BY DEF UsersTyped, UserOK, StoresGrow

LEMMA AccountTablesStayTyped ==
  ASSUME AccountTyped, UNCHANGED accountVars
  PROVE  AccountTyped' /\ StoresGrow
<1>1. /\ instant' = instant /\ store' = store /\ storeroom' = storeroom
      /\ account' = account /\ session' = session /\ issued' = issued /\ code' = code
  BY DEF accountVars
<1>2. StoresGrow
  BY <1>1 DEF StoresGrow
<1> QED
  BY <1>1, <1>2, UsersStayTyped DEF AccountTyped, StoresTyped, SessionsTyped, CodesTyped

LEMMA StoreWritten ==
  ASSUME AccountTyped,
         \/ \E s \in Stores : createStore(s) \/ removeStore(s)
         \/ \E c \in Clients : updateStore(c)
  PROVE  AccountTyped' /\ StoresGrow
<1>1. UNCHANGED <<instant, account, session, issued, code>>
  BY DEF createStore, removeStore, updateStore
<1>2. StoresGrow /\ StoresTyped'
  BY DEF createStore, removeStore, updateStore, StoresGrow, AccountTyped, StoresTyped
<1> QED
  BY <1>1, <1>2, UsersStayTyped DEF AccountTyped, SessionsTyped, CodesTyped

(* Statements that write accounts and nothing else. *)
LEMMA UsersWritten ==
  ASSUME AccountTyped, UNCHANGED <<instant, store, storeroom, session, issued, code>>,
         \A u \in DOMAIN account' : u \in Users /\ UserOK(account'[u])
  PROVE  AccountTyped' /\ StoresGrow
<1>1. UsersTyped'
  BY DEF UsersTyped, UserOK
<1> QED
  BY <1>1 DEF AccountTyped, StoresTyped, SessionsTyped, CodesTyped, StoresGrow

LEMMA RowSet ==
  ASSUME AccountTyped, NEW u, NEW row,
         account' = [account EXCEPT ![u] = row],
         u \in DOMAIN account => UserOK(row)
  PROVE  \A k \in DOMAIN account' : k \in Users /\ UserOK(account'[k])
BY DEF AccountTyped, UsersTyped

LEMMA StaffStatements ==
  ASSUME AccountTyped, AccountRequestsTyped, NEW c \in Clients,
         insertStaffUsers(c) \/ rejectStaff(c) \/ approveStaff(c) \/ createUser(c)
  PROVE  AccountTyped' /\ StoresGrow
<1>0. UNCHANGED <<instant, store, storeroom, session, issued, code>>
  BY DEF insertStaffUsers, rejectStaff, approveStaff, createUser
<1>a. \A k \in DOMAIN account : k \in Users /\ UserOK(account[k])
  BY DEF AccountTyped, UsersTyped
<1> DEFINE Goal == \A k \in DOMAIN account' : k \in Users /\ UserOK(account'[k])
<1>1. ASSUME insertStaffUsers(c) PROVE Goal
  <2> PICK S, s : S = req[c].users /\ s = req[c].store
    OBVIOUS
  <2>1. /\ S \subseteq Users /\ s \in DOMAIN store /\ s \in Stores
        /\ account' = [u \in DOMAIN account \cup S |->
                         IF Exists(u) THEN account[u] ELSE PendingRow(u, s, "unknown")]
    BY <1>1 DEF insertStaffUsers, At, AccountRequestsTyped, AccountRequestTyped,
                AccountTyped, StoresTyped
  <2>2. ASSUME NEW u \in Users PROVE UserOK(PendingRow(u, s, "unknown"))
    <3>1. Placeholder(u) \in Address
      BY AccountAssumption DEF Placeholder, Address
    <3> QED
      BY <2>1, <3>1 DEF PendingRow, UserOK, UserRow, Roles, Staff, UserStatus
  <2> QED
    BY <1>a, <2>1, <2>2 DEF Exists
<1>2. ASSUME rejectStaff(c) PROVE Goal
  <2> PICK u : u = req[c].user
    OBVIOUS
  <2>1. account' = [account EXCEPT ![u] = [account[u] EXCEPT !.status = "rejected"]]
    BY <1>2 DEF rejectStaff
  <2>2. ASSUME u \in DOMAIN account PROVE UserOK([account[u] EXCEPT !.status = "rejected"])
    <3>1. UserOK(account[u]) /\ "rejected" \in UserStatus
      BY <1>a, <2>2 DEF UserStatus
    <3> QED
      BY <3>1 DEF UserOK, UserRow
  <2> QED
    BY <2>1, <2>2, RowSet
<1>3. ASSUME approveStaff(c) PROVE Goal
  <2> PICK u, email : u = req[c].user /\ email = req[c].email
    OBVIOUS
  <2> PICK row : row = [account[u] EXCEPT !.email = email, !.password = "default",
                                         !.status = "active"]
    OBVIOUS
  <2>1. account' = [account EXCEPT ![u] = row]
    BY <1>3 DEF approveStaff
  <2>2. email \in Address
    BY <1>3 DEF approveStaff, At, AccountRequestsTyped, AccountRequestTyped
  <2>3. ASSUME u \in DOMAIN account PROVE UserOK(row)
    <3>1. UserOK(account[u]) /\ "active" \in UserStatus
      BY <1>a, <2>3 DEF UserStatus
    <3> QED
      BY <2>2, <3>1 DEF UserOK, UserRow
  <2> QED
    BY <2>1, <2>3, RowSet
<1>4. ASSUME createUser(c) PROVE Goal
  <2> PICK u, row : u = req[c].user /\ row = req[c].row
    OBVIOUS
  <2>1. /\ u \in Users /\ UserOK(row)
        /\ account' = [k \in DOMAIN account \cup {u} |-> IF k = u THEN row ELSE account[k]]
    BY <1>4 DEF createUser, Insert, At, AccountRequestsTyped, AccountRequestTyped
  <2> QED
    BY <1>a, <2>1
<1> QED
  BY <1>0, <1>1, <1>2, <1>3, <1>4, UsersWritten

LEMMA ByHandTyped ==
  ASSUME AccountTyped, NEW u \in Users, updateUserByAdmin(u)
  PROVE  AccountTyped' /\ StoresGrow
<1>1. UserOK(account[u]) /\ u \in DOMAIN account
  BY DEF updateUserByAdmin, Exists, AccountTyped, UsersTyped
<1>2. PICK st \in StatusChoices \cup {account[u].status},
           role \in RoleChoices \cup {account[u].role} :
        account' = [account EXCEPT ![u].status = st, ![u].role = role]
  BY DEF updateUserByAdmin
<1>3. st \in UserStatus /\ role \in Roles
  BY <1>1, AccountAssumption DEF UserOK, UserRow
<1>4. UserOK([account[u] EXCEPT !.status = st, !.role = role])
  BY <1>1, <1>3 DEF UserOK, UserRow
<1>5. /\ DOMAIN account' = DOMAIN account
      /\ \A k \in DOMAIN account \ {u} : account'[k] = account[k]
      /\ account'[u] = [account[u] EXCEPT !.status = st, !.role = role]
  BY <1>1, <1>2
<1>6. \A k \in DOMAIN account' : k \in Users /\ UserOK(account'[k])
  BY <1>1, <1>4, <1>5 DEF AccountTyped, UsersTyped
<1> QED
  BY <1>6, UsersWritten DEF updateUserByAdmin

LEMMA PasswordTyped ==
  ASSUME AccountTyped, NEW c \in Clients, updateUserPassword(c)
  PROVE  AccountTyped' /\ StoresGrow
<1> PICK u : u = req[c].user
  OBVIOUS
<1>1. account' = [account EXCEPT ![u] = [account[u] EXCEPT !.password = "chosen"]]
  BY DEF updateUserPassword
<1>2. ASSUME u \in DOMAIN account PROVE UserOK([account[u] EXCEPT !.password = "chosen"])
  <2>1. UserOK(account[u])
    BY <1>2 DEF AccountTyped, UsersTyped
  <2> QED
    BY <2>1 DEF UserOK, UserRow
<1> QED
  BY <1>1, <1>2, RowSet, UsersWritten DEF updateUserPassword

(* Statements that write sessions, codes or the clock. *)
LEMMA UsersApart ==
  ASSUME AccountTyped, UNCHANGED <<store, storeroom, account>>,
         instant' \in 0..LastInstant, SessionsTyped', CodesTyped'
  PROVE  AccountTyped' /\ StoresGrow
BY DEF AccountTyped, StoresTyped, UsersTyped, UserOK, StoresGrow

LEMMA SessionStatements ==
  ASSUME AccountTyped,
         \/ \E t \in DOMAIN session : logout(t)
         \/ clearExpiredTokens
         \/ \E c \in Clients : deleteRefreshToken(c)
  PROVE  AccountTyped' /\ StoresGrow
<1>1. UNCHANGED <<instant, store, storeroom, account, issued, code>>
  BY DEF logout, clearExpiredTokens, deleteRefreshToken
<1>2. PICK S \in SUBSET DOMAIN session : session' = [t \in S |-> session[t]]
  <2>1. CASE clearExpiredTokens
    <3> PICK S : S = {t \in DOMAIN session : session[t].expiresAt >= instant}
      OBVIOUS
    <3> QED
      BY <2>1 DEF clearExpiredTokens
  <2>2. ASSUME NEW t, session' = Without(t)
        PROVE  \E S \in SUBSET DOMAIN session : session' = [k \in S |-> session[k]]
    <3> PICK S : S = DOMAIN session \ {t}
      OBVIOUS
    <3> QED
      BY <2>2 DEF Without
  <2> QED
    BY <2>1, <2>2 DEF logout, deleteRefreshToken
<1>3. SessionsTyped'
  BY <1>1, <1>2 DEF AccountTyped, SessionsTyped
<1> QED
  BY <1>1, <1>3, UsersApart DEF AccountTyped, CodesTyped

LEMMA SaveTyped ==
  ASSUME AccountTyped, AccountInv, NEW c \in Clients, saveRefreshToken(c)
  PROVE  AccountTyped' /\ StoresGrow
<1> PICK u, at : u = req[c].user /\ at = instant + SessionLife
  OBVIOUS
<1>1. /\ UNCHANGED <<instant, store, storeroom, account, code>>
      /\ issued < MaxSessions /\ issued' = issued + 1
      /\ session' = [t \in DOMAIN session \cup {issued + 1} |->
                       IF t = issued + 1 THEN [user |-> u, expiresAt |-> at] ELSE session[t]]
  BY DEF saveRefreshToken
<1>2. u \in Users
  BY DEF saveRefreshToken, At, AccountInv, AccountRequestOK, Own, AccountTyped, UsersTyped
<1>3. at \in 1..LastInstant + SessionLife
  BY AccountAssumption DEF AccountTyped
<1>4. [user |-> u, expiresAt |-> at] \in SessionRow
  BY <1>2, <1>3 DEF SessionRow
<1>5. issued \in Nat /\ issued' \in 0..MaxSessions /\ issued + 1 \in 1..issued'
  BY <1>1, AccountAssumption DEF AccountTyped, SessionsTyped
<1>6. \A t \in 1..issued : t \in 1..issued'
  BY <1>1, <1>5
<1>7. SessionsTyped'
  BY <1>1, <1>4, <1>5, <1>6 DEF AccountTyped, SessionsTyped
<1> QED
  BY <1>1, <1>7, UsersApart DEF AccountTyped, CodesTyped

LEMMA CodeRewritten ==
  ASSUME NEW row \in CodeRow
  PROVE  [row EXCEPT !.user = {}] \in CodeRow /\ [row EXCEPT !.isUsed = TRUE] \in CodeRow
BY DEF CodeRow

LEMMA CodeStatements ==
  ASSUME AccountTyped, AccountInv,
         \/ clearExpiredOtp
         \/ \E u \in Users : forgotPassword(u)
         \/ \E c \in Clients : markOtpAsUsed(c)
  PROVE  AccountTyped' /\ StoresGrow
<1>0. UNCHANGED <<instant, store, storeroom, account, session, issued>>
  BY DEF clearExpiredOtp, forgotPassword, markOtpAsUsed
<1>1. ASSUME clearExpiredOtp PROVE CodesTyped'
  BY <1>1, CodeRewritten DEF clearExpiredOtp, AccountTyped, CodesTyped
<1>2. ASSUME NEW u \in Users, forgotPassword(u) PROVE CodesTyped'
  <2> PICK row : row = [user |-> {u}, expiresAt |-> instant + CodeLife, isUsed |-> FALSE]
    OBVIOUS
  <2>1. instant + CodeLife \in 1..LastInstant + CodeLife
    BY AccountAssumption DEF AccountTyped
  <2>2. row \in CodeRow
    BY <2>1 DEF CodeRow
  <2>3. code' = Append(code, row) /\ code \in Seq(CodeShape)
    BY <1>2 DEF forgotPassword, AccountInv, CodesOK
  <2>4. \A i \in DOMAIN code' : (i \in DOMAIN code /\ code'[i] = code[i]) \/ code'[i] = row
    BY <2>3
  <2> QED
    BY <2>2, <2>4 DEF AccountTyped, CodesTyped
<1>3. ASSUME NEW c \in Clients, markOtpAsUsed(c) PROVE CodesTyped'
  <2> PICK i : i = req[c].code
    OBVIOUS
  <2>1. code' = [code EXCEPT ![i] = [code[i] EXCEPT !.isUsed = TRUE]]
    BY <1>3 DEF markOtpAsUsed
  <2> QED
    BY <2>1, CodeRewritten DEF AccountTyped, CodesTyped
<1>4. CodesTyped'
  BY <1>1, <1>2, <1>3
<1>5. instant' \in 0..LastInstant /\ SessionsTyped'
  BY <1>0 DEF AccountTyped, SessionsTyped
<1> QED
  BY <1>0, <1>4, <1>5, UsersApart

LEMMA TickTyped ==
  ASSUME AccountTyped, Tick
  PROVE  AccountTyped' /\ StoresGrow
<1>1. /\ instant' = instant + 1 /\ instant < LastInstant
      /\ UNCHANGED <<store, storeroom, account, session, issued, code>>
  BY DEF Tick
<1>2. instant' \in 0..LastInstant
  BY <1>1, AccountAssumption DEF AccountTyped
<1> QED
  BY <1>1, <1>2, UsersApart DEF AccountTyped, SessionsTyped, CodesTyped

(* What the requests check before they wait. *)
LEMMA AccountArrivalsTyped ==
  ASSUME AccountTyped, AccountRequestsTyped, RequestsTyped, NEW c \in Clients,
         \/ \E s \in Stores : ArriveUpdateStore(c, s)
         \/ \E S \in SUBSET Users, s \in Stores : ArriveStaffRequest(c, S, s)
         \/ \E u \in Users : ArriveRejectStaff(c, u) \/ ArriveApproveStaff(c, u)
                             \/ ArriveCreateUser(c, u) \/ ArriveLogin(c, u)
         \/ \E t \in DOMAIN session : ArriveRefresh(c, t)
         \/ \E i \in DOMAIN code : ArriveReset(c, i)
  PROVE  \A d \in Clients : req'[d] = req[d] \/ AccountRequestTyped(req'[d])
<1> DEFINE Goal == \A d \in Clients : req'[d] = req[d] \/ AccountRequestTyped(req'[d])
<1>a. ASSUME NEW r, Becomes(c, r), AccountRequestTyped(r) PROVE Goal
  BY <1>a, RequestsTyped DEF Becomes, RequestsTyped
<1> SUFFICES Goal
  OBVIOUS
<1> HIDE DEF Goal
<1>1. ASSUME NEW s, ArriveUpdateStore(c, s) PROVE Goal
  BY <1>1, <1>a DEF ArriveUpdateStore, AccountRequestTyped
<1>2. ASSUME NEW S \in SUBSET Users, NEW s \in Stores, ArriveStaffRequest(c, S, s) PROVE Goal
  BY <1>2, <1>a DEF ArriveStaffRequest, AccountRequestTyped
<1>3. ASSUME NEW u, ArriveRejectStaff(c, u) PROVE Goal
  BY <1>3, <1>a DEF ArriveRejectStaff, AccountRequestTyped
<1>4. ASSUME NEW u \in Users, ArriveApproveStaff(c, u) PROVE Goal
  <2>1. PICK n \in 1..MaxSuffix :
          Becomes(c, [kind |-> "approve", step |-> "update", user |-> u,
                      email |-> formatStaffEmail(BaseOf[u], n)])
    BY <1>4 DEF ArriveApproveStaff, FreeSuffixes
  <2>2. n \in 0..MaxSuffix
    BY AccountAssumption
  <2>3. formatStaffEmail(BaseOf[u], n) \in Address
    BY <2>2 DEF formatStaffEmail, Address
  <2> QED
    BY <1>a, <2>1, <2>3 DEF AccountRequestTyped
<1>5. ASSUME NEW u \in Users, ArriveCreateUser(c, u) PROVE Goal
  <2>1. PICK role \in RoleChoices \ {"admin", Staff}, email \in AddressChoices,
             S \in {{}} \cup {{s} : s \in DOMAIN store} :
          Becomes(c, [kind |-> "createUser", step |-> "insert", user |-> u,
                      row |-> [role |-> role, status |-> "active", email |-> email,
                               password |-> "chosen", store |-> S]])
    BY <1>5 DEF ArriveCreateUser
  <2>2. role \in Roles /\ email \in Address /\ S \subseteq DOMAIN store
    BY AccountAssumption
  <2>3. S \in SUBSET Stores /\ "active" \in UserStatus
    BY <2>2 DEF AccountTyped, StoresTyped, UserStatus
  <2>4. UserOK([role |-> role, status |-> "active", email |-> email,
                password |-> "chosen", store |-> S])
    BY <2>2, <2>3 DEF UserOK, UserRow
  <2> QED
    BY <1>a, <2>1, <2>4 DEF AccountRequestTyped
<1>6. ASSUME NEW u, ArriveLogin(c, u) PROVE Goal
  BY <1>6, <1>a DEF ArriveLogin, AccountRequestTyped
<1>7. ASSUME NEW t, ArriveRefresh(c, t) PROVE Goal
  BY <1>7, <1>a DEF ArriveRefresh, AccountRequestTyped
<1>8. ASSUME NEW i \in DOMAIN code, ArriveReset(c, i) PROVE Goal
  <2>1. PICK u : Becomes(c, [kind |-> "reset", step |-> "password", code |-> i, user |-> u])
    BY <1>8 DEF ArriveReset, Deleted
  <2> QED
    BY <1>a, <2>1 DEF AccountRequestTyped
<1> QED
  BY <1>1, <1>2, <1>3, <1>4, <1>5, <1>6, <1>7, <1>8

LEMMA AccountNextTyped ==
  ASSUME AccountTyped, AccountRequestsTyped, AccountInv, RequestsTyped, AccountNext
  PROVE  AccountTyped' /\ AccountRequestsTyped'
<1> DEFINE Tables == AccountTyped' /\ StoresGrow
           Quiet == \A d \in Clients : req'[d] = req[d] \/ AccountRequestTyped(req'[d])
<1>a. ASSUME UNCHANGED req PROVE Quiet
  BY <1>a
<1>b. ASSUME NEW c \in Clients, Done(c) PROVE Quiet
  BY <1>b, RequestsTyped DEF Done, RequestsTyped, Idle, AccountRequestTyped
<1>c. ASSUME NEW c \in Clients, NEW step, GoesTo(c, step), NEW kind \in {"refresh", "reset"},
             req[c].kind = kind
      PROVE  Quiet
  BY <1>c, RequestsTyped DEF GoesTo, RequestsTyped, AccountRequestTyped
<1>d. ASSUME UNCHANGED accountVars PROVE Tables
  BY <1>d, AccountTablesStayTyped
<1> HIDE DEF Tables, Quiet
<1>1. ASSUME NEW s \in Stores, createStore(s) \/ removeStore(s) PROVE Tables /\ Quiet
  BY <1>1, <1>a, StoreWritten DEF createStore, removeStore, Immediate, Tables
<1>2. ASSUME NEW u \in Users, updateUserByAdmin(u) PROVE Tables /\ Quiet
  BY <1>2, <1>a, ByHandTyped DEF updateUserByAdmin, Immediate, Tables
<1>3. ASSUME NEW u \in Users, forgotPassword(u) PROVE Tables /\ Quiet
  BY <1>3, <1>a, CodeStatements DEF forgotPassword, Immediate, Tables
<1>4. ASSUME NEW t \in DOMAIN session, logout(t) PROVE Tables /\ Quiet
  BY <1>4, <1>a, SessionStatements DEF logout, Immediate, Tables
<1>5. ASSUME clearExpiredTokens PROVE Tables /\ Quiet
  BY <1>5, <1>a, SessionStatements DEF clearExpiredTokens, Immediate, Tables
<1>6. ASSUME clearExpiredOtp PROVE Tables /\ Quiet
  BY <1>6, <1>a, CodeStatements DEF clearExpiredOtp, Immediate, Tables
<1>7. ASSUME Tick PROVE Tables /\ Quiet
  BY <1>7, <1>a, TickTyped DEF Tick, Immediate, Tables
<1>8. ASSUME NEW c \in Clients,
             \/ \E s \in Stores : ArriveUpdateStore(c, s)
             \/ \E S \in SUBSET Users, s \in Stores : ArriveStaffRequest(c, S, s)
             \/ \E u \in Users : ArriveRejectStaff(c, u) \/ ArriveApproveStaff(c, u)
                                 \/ ArriveCreateUser(c, u) \/ ArriveLogin(c, u)
             \/ \E t \in DOMAIN session : ArriveRefresh(c, t)
             \/ \E i \in DOMAIN code : ArriveReset(c, i)
      PROVE  Tables /\ Quiet
  <2>1. UNCHANGED accountVars
    BY <1>8 DEF ArriveUpdateStore, ArriveStaffRequest, ArriveRejectStaff, ArriveApproveStaff,
                ArriveCreateUser, ArriveLogin, ArriveRefresh, ArriveReset
  <2> QED
    BY <1>8, <1>d, <2>1, AccountArrivalsTyped DEF Quiet
<1>9. ASSUME NEW c \in Clients, updateStore(c) PROVE Tables /\ Quiet
  BY <1>9, <1>b, StoreWritten DEF updateStore, Tables
<1>10. ASSUME NEW c \in Clients,
              insertStaffUsers(c) \/ rejectStaff(c) \/ approveStaff(c) \/ createUser(c)
       PROVE  Tables /\ Quiet
  BY <1>10, <1>b, StaffStatements
     DEF insertStaffUsers, rejectStaff, approveStaff, createUser, Tables
<1>11. ASSUME NEW c \in Clients, saveRefreshToken(c) PROVE Tables /\ Quiet
  BY <1>11, <1>b, SaveTyped DEF saveRefreshToken, Tables
<1>12. ASSUME NEW c \in Clients, markOtpAsUsed(c) PROVE Tables /\ Quiet
  BY <1>12, <1>b, CodeStatements DEF markOtpAsUsed, Tables
<1>13. ASSUME NEW c \in Clients, deleteRefreshToken(c) PROVE Tables /\ Quiet
  BY <1>13, <1>c, SessionStatements DEF deleteRefreshToken, At, Tables
<1>14. ASSUME NEW c \in Clients, updateUserPassword(c) PROVE Tables /\ Quiet
  BY <1>14, <1>c, PasswordTyped DEF updateUserPassword, At, Tables
<1>15. ASSUME NEW c \in Clients, StoreRequest(c) \/ StaffRequest(c) \/ SessionRequest(c)
       PROVE  Tables /\ Quiet
  BY <1>15, <1>8, <1>9, <1>10, <1>11, <1>12, <1>13, <1>14
     DEF StoreRequest, StaffRequest, SessionRequest
<1>16. Tables /\ Quiet
  BY <1>1, <1>2, <1>3, <1>4, <1>5, <1>6, <1>7, <1>15, AccountNext DEF AccountNext
<1> QED
  BY <1>16, AccountRequestsFollow DEF Tables, Quiet

LEMMA AccountsAreTyped == Spec => []AccountTypeOK
<1>1. Init => AccountTyped /\ AccountRequestsTyped
  <2> SUFFICES ASSUME Init PROVE AccountTyped /\ AccountRequestsTyped
    OBVIOUS
  <2>1. AccountRequestsTyped
    BY DEF Init, RequestsInit, Idle, AccountRequestsTyped, AccountRequestTyped
  <2>2. /\ instant = 0 /\ issued = 0 /\ DOMAIN store = {} /\ storeroom = {}
        /\ DOMAIN account = {} /\ DOMAIN session = {} /\ DOMAIN code = {}
    BY DEF Init, AccountInit
  <2> QED
    BY <2>1, <2>2, AccountAssumption
       DEF AccountTyped, StoresTyped, UsersTyped, SessionsTyped, CodesTyped
<1>2. AccountTyped /\ AccountRequestsTyped /\ AccountInv /\ RequestsTyped /\ [Next]_vars
        => (AccountTyped /\ AccountRequestsTyped)'
  <2> SUFFICES ASSUME AccountTyped, AccountRequestsTyped, AccountInv, RequestsTyped,
                      [Next]_vars
               PROVE  AccountTyped' /\ AccountRequestsTyped'
    OBVIOUS
  <2>1. CASE Elsewhere(AccountKinds) /\ UNCHANGED accountVars
    <3>1. \A d \in Clients : req'[d] = req[d] \/ AccountRequestTyped(req'[d])
      BY <2>1 DEF Elsewhere, AccountKinds, AccountRequestTyped
    <3> QED
      BY <2>1, <3>1, AccountTablesStayTyped, AccountRequestsFollow
  <2> QED
    BY <2>1, AccountNextTyped, OneServiceAtATime
<1>3. AccountTyped => AccountTypeOK
  BY DEF AccountTyped, StoresTyped, UsersTyped, UserOK, SessionsTyped, CodesTyped,
         AccountTypeOK
<1> QED
  BY <1>1, <1>2, <1>3, AccountInvariant, RequestsStayTyped, PTL DEF Spec

LEMMA ElementsTyped ==
  ASSUME NEW T, NEW s \in Seq(T)
  PROVE  \A i \in DOMAIN s : s[i] \in T
OBVIOUS

(* Tables are typed and refer to rows that exist, whatever the services do  *)
(* to each other's rows between a request's check and its write.           *)
THEOREM EveryTableIsTyped == Spec => []TypeOK
<1>1. RequestsTyped => DOMAIN req = Clients
  BY DEF RequestsTyped
<1>2. LedgerInv => served \in Scenarios /\ LedgerTypeOK
  <2> SUFFICES ASSUME LedgerInv PROVE LedgerTypeOK
    BY DEF LedgerInv
  <2>1. /\ \A i \in DOMAIN ledger : ledger[i] \in TransactionRow
        /\ \A i \in DOMAIN hold : hold[i] \in HoldRow
        /\ \A i \in DOMAIN claimItem : claimItem[i] \in ClaimItemRow
    BY ElementsTyped DEF LedgerInv, LedgerTyped, HoldsTyped, Entries
  <2> QED
    BY <2>1 DEF LedgerInv, LedgerTyped, StatusTyped, InventoryTyped, LedgerTypeOK
<1> QED
  BY <1>1, <1>2, RequestsStayTyped, LedgerInvariant, AccountsAreTyped, CatalogueIsTyped,
     TripsAreTyped, SettingsAreTyped, PTL DEF TypeOK

-----------------------------------------------------------------------------
(* The reports.  What they add up of the rows of the kitchen.              *)
SpareOf == [b \in Batches |-> Spare(Kitchen(b))]
KnownBatches == {b \in Batches : Known(b)}

LEMMA KitchenSums ==
  ASSUME LedgerTyped, NEW S \in SUBSET KnownBatches
  PROVE  /\ IsFiniteSet(S) /\ Ints(SpareOf, S)
         /\ Physical(S) \in Int /\ Reserved(S) \in Nat
         /\ Physical(S) - Reserved(S) = SumOver(SpareOf, S)
<1>1. IsFiniteSet(S) /\ S \subseteq Batches
  BY FS_Subset DEF LedgerTyped, StatusTyped, KnownBatches
<1>2. PICK quantity : quantity = [b \in S |-> RowOf(Kitchen(b)).quantity]
  OBVIOUS
<1>3. PICK reserved : reserved = [b \in S |-> RowOf(Kitchen(b)).reserved]
  OBVIOUS
<1>4. \A r : RowOf(r).quantity \in Int /\ RowOf(r).reserved \in Nat
  BY AnyRow DEF LedgerTyped
<1>5. Ints(quantity, S) /\ Nats(reserved, S) /\ Ints(reserved, S)
  BY <1>2, <1>3, <1>4 DEF Ints, Nats
<1>6. Ints(SpareOf, S) /\ \A b \in S : quantity[b] = reserved[b] + SpareOf[b]
  BY <1>1, <1>2, <1>3, <1>4 DEF Ints, SpareOf, Spare
<1>7. Physical(S) = SumOver(quantity, S) /\ Reserved(S) = SumOver(reserved, S)
  BY <1>2, <1>3, TotalIsSum DEF Physical, Reserved
<1>8. SumOver(quantity, S) = SumOver(reserved, S) + SumOver(SpareOf, S)
  BY <1>1, <1>5, <1>6, SumOfSums
<1>9. SumOver(reserved, S) \in Nat /\ SumOver(SpareOf, S) \in Int
  <2>1. S \in SUBSET S
    OBVIOUS
  <2> QED
    BY <1>1, <1>5, <1>6, <2>1, SumGrows, SumType
<1> QED
  BY <1>1, <1>6, <1>7, <1>8, <1>9

(* A sum over lines of which some count for nothing. *)
LEMMA SpareOfLines ==
  ASSUME LedgerTyped, NEW S \in SUBSET KnownBatches, NEW P \in SUBSET S, NEW lines,
         DOMAIN lines = S, \A b \in S : lines[b] = IF b \in P THEN SpareOf[b] ELSE 0
  PROVE  Total(lines) = SumOver(SpareOf, P)
<1>1. IsFiniteSet(S) /\ Ints(SpareOf, P)
  BY KitchenSums DEF Ints
<1>2. SumOver(lines, S) = SumOver(SpareOf, P)
  BY <1>1, SumOfSome
<1> QED
  BY <1>2, TotalIsSum

LEMMA SpareIsStocked ==
  ASSUME LedgerTyped, NEW b \in Batches
  PROVE  /\ Spare(Kitchen(b)) \in Int /\ SpareOf[b] = Spare(Kitchen(b))
         /\ ~Stocked(Kitchen(b)) => Spare(Kitchen(b)) = 0
<1>1. PICK r : r = Kitchen(b)
  OBVIOUS
<1>2. RowOf(r).quantity \in Int /\ RowOf(r).reserved \in Nat
  BY AnyRow DEF LedgerTyped
<1>3. ~Stocked(r) => Spare(r) = 0
  BY DEF Spare, RowOf
<1> QED
  BY <1>1, <1>2, <1>3 DEF SpareOf, Spare

LEMMA DaysTyped ==
  ASSUME LedgerTyped
  PROVE  /\ day \in Nat
         /\ \A b \in Batches : ExpiryDate[b] \in Nat /\ ArticleOf[b] \in Articles
         /\ \A a \in Articles : /\ MinShelfLife[a] \in Nat /\ ShelfLifeDays[a] \in Nat
                                /\ MinStockLevel[a] \in Nat
BY LedgerAssumption DEF LedgerTyped

LEMMA SumsAndLines ==
  ASSUME LedgerTyped, NEW a \in Articles
  PROVE  SummaryMatchesLines(a)
<1>1. PICK S : S = BatchesOf(a)
  OBVIOUS
<1>2. PICK lots : lots = {b \in InKitchen(a) : ~Dead(b)}
  OBVIOUS
<1>3. PICK due : due = {b \in InKitchen(a) : ~Dead(b) /\ ExpiryDate[b] <= day}
  OBVIOUS
<1>4. PICK live : live = lots \ due
  OBVIOUS
<1>5. /\ S \in SUBSET KnownBatches /\ lots \in SUBSET KnownBatches
      /\ due \in SUBSET KnownBatches /\ live \in SUBSET S /\ due \cup live = lots
      /\ due \cap live = {} /\ live \in SUBSET KnownBatches
  BY <1>1, <1>2, <1>3, <1>4 DEF BatchesOf, InKitchen, KnownBatches
<1>6. PICK lines : lines = [b \in S |-> AvailableOnLine(b)]
  OBVIOUS
<1>7. ASSUME NEW b \in S PROVE lines[b] = IF b \in live THEN SpareOf[b] ELSE 0
  <2>1. b \in Batches /\ day \in Nat /\ ExpiryDate[b] \in Nat
    BY <1>5, DaysTyped DEF KnownBatches
  <2>2. lines[b] = IF ExpiryDate[b] <= day \/ Dead(b) THEN 0 ELSE Spare(Kitchen(b))
    BY <1>6 DEF AvailableOnLine, deriveKitchenBatchLineStatus, Dead
  <2>3. b \in live <=> /\ Stocked(Kitchen(b)) /\ ~Dead(b) /\ ~(ExpiryDate[b] <= day)
    BY <1>1, <1>2, <1>3, <1>4 DEF InKitchen
  <2> QED
    BY <2>1, <2>2, <2>3, SpareIsStocked
<1>8. DOMAIN lines = S
  BY <1>6
<1>9. Total(lines) = SumOver(SpareOf, live)
  BY <1>5, <1>7, <1>8, SpareOfLines
<1>10. /\ IsFiniteSet(due) /\ IsFiniteSet(live) /\ Ints(SpareOf, due) /\ Ints(SpareOf, live)
       /\ Physical(due) - Reserved(due) = SumOver(SpareOf, due)
       /\ Physical(lots) - Reserved(lots) = SumOver(SpareOf, lots)
       /\ SumOver(SpareOf, due) \in Int /\ SumOver(SpareOf, live) \in Int
       /\ Physical(due) \in Int /\ Reserved(due) \in Int
  BY <1>5, KitchenSums, SumType
<1>11. SumOver(SpareOf, due \cup live) = SumOver(SpareOf, due) + SumOver(SpareOf, live)
  BY <1>5, <1>10, SumUnion
<1>12. SumOver(SpareOf, due \cup live) = SumOver(SpareOf, lots)
  BY <1>5, Zenon
<1>13. getKitchenInventorySummary(a).available = Physical(lots) - Reserved(lots)
  BY <1>2 DEF getKitchenInventorySummary, getKitchenSummary
<1>14. Physical(lots) - Reserved(lots) = Total(lines) + Physical(due) - Reserved(due)
  BY <1>9, <1>10, <1>11, <1>12
<1> QED
  BY <1>1, <1>3, <1>6, <1>13, <1>14 DEF SummaryMatchesLines

LEMMA NextIsServed ==
  ASSUME LedgerTyped, NEW a \in Articles
  PROVE  NextBatchIsServed(a)
<1>1. PICK floor : floor = day + MinShelfLife[a]
  OBVIOUS
<1>2. PICK offered : offered = findBatchesForFEFOWithShelfBuffer(a, floor)
  OBVIOUS
<1>3. day \in Nat /\ MinShelfLife[a] \in Nat /\ floor \in Nat
  BY <1>1, DaysTyped
<1>4. ASSUME NEW k \in BatchesOf(a)
      PROVE  /\ k \in Batches /\ ArticleOf[k] = a /\ ExpiryDate[k] \in Nat
             /\ Spare(Kitchen(k)) \in Int
             /\ AvailableOnLine(k) = IF ExpiryDate[k] <= day \/ Dead(k) THEN 0
                                     ELSE Spare(Kitchen(k))
             /\ k \in offered <=> /\ Spare(Kitchen(k)) > 0 /\ ExpiryDate[k] > floor /\ ~Dead(k)
             /\ deriveKitchenBatchLineStatus(k) = "GOOD"
                  <=> /\ ~(ExpiryDate[k] <= day) /\ ~Dead(k) /\ ~(ExpiryDate[k] <= floor)
  <2>1. k \in Batches /\ ArticleOf[k] = a
    BY DEF BatchesOf
  <2>2. ExpiryDate[k] \in Nat /\ Spare(Kitchen(k)) \in Int
        /\ (~Stocked(Kitchen(k)) => Spare(Kitchen(k)) = 0)
    BY <2>1, DaysTyped, SpareIsStocked
  <2>3. k \in offered <=> /\ Stocked(Kitchen(k)) /\ Spare(Kitchen(k)) > 0
                          /\ ExpiryDate[k] > floor /\ ~Dead(k)
    BY <1>2 DEF findBatchesForFEFOWithShelfBuffer, Dead, Kitchen
  <2>4. AvailableOnLine(k) = IF ExpiryDate[k] <= day \/ Dead(k) THEN 0 ELSE Spare(Kitchen(k))
    BY DEF AvailableOnLine, deriveKitchenBatchLineStatus, Dead
  <2>5. deriveKitchenBatchLineStatus(k) = "GOOD"
          <=> /\ ~(ExpiryDate[k] <= day) /\ ~Dead(k) /\ ~(ExpiryDate[k] <= floor)
    BY <1>1, <2>1 DEF deriveKitchenBatchLineStatus, Dead
  <2> QED
    BY <2>1, <2>2, <2>3, <2>4, <2>5
<1>5. offered \subseteq BatchesOf(a)
  BY <1>2 DEF findBatchesForFEFOWithShelfBuffer
<1>6. ASSUME NEW b \in BatchesOf(a), isNextFEFO(b)
      PROVE  IF deriveKitchenBatchLineStatus(b) = "GOOD"
             THEN b \in offered /\ \A k \in offered : ExpiryDate[b] <= ExpiryDate[k]
             ELSE b \notin offered
  <2>1. ArticleOf[b] = a /\ AvailableOnLine(b) > 0
    BY <1>4, <1>6 DEF isNextFEFO
  <2>2. Spare(Kitchen(b)) > 0 /\ ~(ExpiryDate[b] <= day) /\ ~Dead(b)
    BY <1>4, <2>1
  <2>3. CASE deriveKitchenBatchLineStatus(b) = "GOOD"
    <3>1. b \in offered
      BY <1>3, <1>4, <2>2, <2>3
    <3>2. ASSUME NEW k \in offered PROVE ExpiryDate[b] <= ExpiryDate[k]
      <4>1. k \in BatchesOf(a) /\ Spare(Kitchen(k)) > 0 /\ ExpiryDate[k] > floor /\ ~Dead(k)
        BY <1>4, <1>5
      <4>2. AvailableOnLine(k) > 0
        <5>1. ~(ExpiryDate[k] <= day)
          BY <1>1, <1>3, <1>4, <4>1
        <5> QED
          BY <1>4, <4>1, <5>1
      <4> QED
        BY <1>6, <2>1, <4>1, <4>2 DEF isNextFEFO
    <3> QED
      BY <2>3, <3>1, <3>2
  <2>4. CASE deriveKitchenBatchLineStatus(b) # "GOOD"
    <3>1. ExpiryDate[b] <= floor
      BY <1>4, <2>2, <2>4
    <3>2. b \notin offered
      BY <1>3, <1>4, <3>1
    <3> QED
      BY <2>4, <3>2
  <2> QED
    BY <2>3, <2>4
<1> QED
  BY <1>1, <1>2, <1>6 DEF NextBatchIsServed

(* A loss found at a stocktake is logged as one. *)
LossesAreNegative ==
  \A i \in DOMAIN ledger : ledger[i].type = "adjust_loss" => ledger[i].change <= 0

LEMMA SumNotPositive ==
  ASSUME NEW f, NEW S, IsFiniteSet(S), Ints(f, S), \A x \in S : f[x] <= 0
  PROVE  SumOver(f, S) \in Int /\ SumOver(f, S) <= 0
<1>1. PICK g : g = [x \in S |-> 0 - f[x]]
  OBVIOUS
<1>2. Nats(g, S) /\ S \in SUBSET S /\ \A x \in S : g[x] = 0 - f[x]
  BY <1>1 DEF Nats, Ints
<1>3. SumOver(g, S) \in Nat
  BY <1>2, SumGrows
<1>4. SumOver(g, S) = 0 - SumOver(f, S)
  BY <1>2, SumNegated
<1>5. SumOver(f, S) \in Int
  BY SumType
<1> QED
  BY <1>3, <1>4, <1>5

LEMMA WasteIsALoss ==
  ASSUME LedgerTyped, LossesAreNegative, NEW a
  PROVE  getWasteReportDetailed(Places, a) <= getWasteAnalytics(Places, a)
<1> DEFINE P == {k \in DOMAIN ledger :
                   ledger[k].at \in Places
                   /\ (ArticleOf[ledger[k].batch] = a /\ WasteLike(ledger[k]))}
           Q == {k \in DOMAIN ledger :
                   ledger[k].at \in Places
                   /\ (ArticleOf[ledger[k].batch] = a /\ ledger[k].type = "waste")}
           f == [i \in P |-> ledger[i].change]
           g == [i \in Q |-> ledger[i].change]
<1>1. getWasteAnalytics(Places, a) = 0 - Total(f)
  BY DEF getWasteAnalytics, Changes
<1>2. getWasteReportDetailed(Places, a) = 0 - Total(g)
  BY DEF getWasteReportDetailed, Changes
<1>3. Total(f) = SumOver(f, P) /\ Total(g) = SumOver(g, Q)
  BY TotalIsSum
<1>4. /\ IsFiniteSet(DOMAIN ledger)
      /\ \A i \in DOMAIN ledger : ledger[i] \in TransactionRow /\ ledger[i].change \in Int
  BY EntriesFinite DEF LedgerTyped
<1>5. Q \subseteq P /\ P \subseteq DOMAIN ledger
  BY DEF WasteLike
<1>6. PICK M : M = P \ Q
  OBVIOUS
<1>7. \A i \in P : f[i] = ledger[i].change /\ f[i] \in Int
  BY <1>4
<1>8. \A i \in Q : g[i] = f[i]
  BY <1>5
<1>9. \A i \in M : f[i] <= 0
  <2>1. ASSUME NEW i \in M PROVE f[i] <= 0
    <3>1. i \in P /\ i \notin Q /\ ledger[i].change \in Int
      BY <1>4, <1>6
    <3>2. WasteLike(ledger[i]) /\ ledger[i].type # "waste"
      BY <3>1
    <3>3. ledger[i].change <= 0
      BY <3>1, <3>2 DEF WasteLike, LossesAreNegative
    <3> QED
      BY <1>7, <3>1, <3>3
  <2> QED
    BY <2>1
<1> HIDE DEF P, Q, f, g
<1>10. IsFiniteSet(P) /\ IsFiniteSet(Q) /\ IsFiniteSet(M) /\ Ints(f, Q) /\ Ints(f, M)
       /\ P = Q \cup M /\ Q \cap M = {}
  BY <1>4, <1>5, <1>6, <1>7, FS_Subset DEF Ints
<1>11. SumOver(f, Q \cup M) = SumOver(f, Q) + SumOver(f, M)
  BY <1>10, SumUnion
<1>12. SumOver(f, Q \cup M) = SumOver(f, P)
  BY <1>10, Zenon
<1>13. SumOver(g, Q) = SumOver(f, Q)
  BY <1>8, <1>10, SumSame
<1>14. SumOver(f, M) \in Int /\ SumOver(f, M) <= 0 /\ SumOver(f, Q) \in Int
  BY <1>9, <1>10, SumNotPositive, SumType
<1> QED
  BY <1>1, <1>2, <1>3, <1>11, <1>12, <1>13, <1>14

LEMMA AlertsRingTogether ==
  ASSUME LedgerTyped, LossesAreNegative, NEW a \in Articles
  PROVE  AlertsAgree(a)
<1>1. PICK K : K = InKitchen(a)
  OBVIOUS
<1>2. PICK lots : lots = {b \in K : ~Dead(b)}
  OBVIOUS
<1>3. PICK dead : dead = K \ lots
  OBVIOUS
<1>4. /\ K \in SUBSET KnownBatches /\ lots \in SUBSET KnownBatches
      /\ dead \in SUBSET KnownBatches /\ lots \cup dead = K /\ lots \cap dead = {}
      /\ K \subseteq BatchesOf(a) /\ BatchesOf(a) \in SUBSET KnownBatches
  BY <1>1, <1>2, <1>3 DEF BatchesOf, InKitchen, KnownBatches
<1>5. /\ IsFiniteSet(dead) /\ IsFiniteSet(lots) /\ Ints(SpareOf, dead) /\ Ints(SpareOf, lots)
      /\ Physical(K) - Reserved(K) = SumOver(SpareOf, K)
      /\ Physical(lots) - Reserved(lots) = SumOver(SpareOf, lots)
      /\ SumOver(SpareOf, dead) \in Int /\ SumOver(SpareOf, lots) \in Int
      /\ Physical(K) \in Int /\ Reserved(K) \in Int
  BY <1>4, KitchenSums, SumType
<1>6. MinStockLevel[a] \in Nat /\ day \in Nat
  BY DaysTyped
<1>7. a \in lowStockAlerts <=> Physical(K) - Reserved(K) < MinStockLevel[a]
  BY <1>1 DEF lowStockAlerts, getAnalyticsSummary
<1>8. ASSUME a \in lowStockAlerts, \A b \in InKitchen(a) : Dead(b) => Spare(Kitchen(b)) >= 0
      PROVE  getKitchenInventorySummary(a).stockStatus = "LOW_STOCK"
  <2>1. SumOver(SpareOf, lots \cup dead) = SumOver(SpareOf, lots) + SumOver(SpareOf, dead)
    BY <1>4, <1>5, SumUnion
  <2>2. SumOver(SpareOf, lots \cup dead) = SumOver(SpareOf, K)
    BY <1>4, Zenon
  <2>3. \A b \in dead : SpareOf[b] \in Nat
    <3>1. ASSUME NEW b \in dead PROVE SpareOf[b] \in Nat
      <4>1. b \in Batches /\ b \in K /\ Dead(b)
        BY <1>2, <1>3, <1>4 DEF KnownBatches
      <4>2. Spare(Kitchen(b)) >= 0
        BY <1>1, <1>8, <4>1
      <4>3. Spare(Kitchen(b)) \in Int /\ SpareOf[b] = Spare(Kitchen(b))
        BY <4>1, SpareIsStocked
      <4> QED
        BY <4>2, <4>3
    <3> QED
      BY <3>1
  <2>4. Nats(SpareOf, dead) /\ dead \in SUBSET dead
    BY <2>3 DEF Nats
  <2>5. SumOver(SpareOf, dead) \in Nat
    BY <1>5, <2>4, SumGrows
  <2>6. Physical(lots) - Reserved(lots) < MinStockLevel[a]
    BY <1>5, <1>6, <1>7, <1>8, <2>1, <2>2, <2>5
  <2>7. getKitchenSummary(a) = [physical |-> Physical(lots), reserved |-> Reserved(lots)]
    BY <1>1, <1>2 DEF getKitchenSummary
  <2> QED
    BY <2>6, <2>7 DEF getKitchenInventorySummary
<1>9. a \in lowStockAlerts <=> Total(getKitchenDetails(a)) < MinStockLevel[a]
  <2>1. PICK lines : lines = getKitchenDetails(a)
    OBVIOUS
  <2>2. PICK S : S = BatchesOf(a)
    OBVIOUS
  <2>3. DOMAIN lines = S
    BY <2>1, <2>2 DEF getKitchenDetails, getKitchenBatchDetails
  <2>4. ASSUME NEW b \in S PROVE lines[b] = IF b \in K THEN SpareOf[b] ELSE 0
    <3>1. b \in Batches
      BY <2>2 DEF BatchesOf
    <3>2. lines[b] = Spare(Kitchen(b))
      BY <2>1, <2>2 DEF getKitchenDetails, getKitchenBatchDetails, Spare
    <3>3. b \in K <=> Stocked(Kitchen(b))
      BY <1>1, <2>2 DEF InKitchen
    <3> QED
      BY <3>1, <3>2, <3>3, SpareIsStocked
  <2>5. S \in SUBSET KnownBatches /\ K \in SUBSET S
    BY <1>4, <2>2
  <2>6. Total(lines) = SumOver(SpareOf, K)
    BY <2>3, <2>4, <2>5, SpareOfLines
  <2> QED
    BY <1>5, <1>7, <2>1, <2>6
<1>10. a \in getLowStockItems /\ Reserved(InKitchen(a)) > 0 => a \in lowStockAlerts
  BY <1>1, <1>5, <1>6, <1>7 DEF getLowStockItems
<1>11. ASSUME NEW b \in expiringBatches, ArticleOf[b] = a, ~Dead(b), ExpiryDate[b] > day
       PROVE  getKitchenInventorySummary(a).expiryStatus = "NEAR_EXPIRY_ALERT"
  <2>1. /\ b \in Batches /\ Known(b) /\ Stocked(Kitchen(b))
        /\ ExpiryDate[b] <= day + ExpiringDays
        /\ RowOf(Kitchen(b)).quantity > 0 \/ RowOf(Kitchen(b)).reserved > 0
    BY DEF expiringBatches
  <2>2. b \in InKitchen(a)
    BY <1>11, <2>1 DEF InKitchen, BatchesOf
  <2>3. ExpiryDate[b] \in Nat /\ ExpiringDays \in Nat /\ NearExpiryDays \in Nat
        /\ ExpiringDays <= NearExpiryDays
    BY <2>1, DaysTyped, ReportAssumption
  <2>4. ExpiryDate[b] <= day + NearExpiryDays
    BY <1>6, <2>1, <2>3
  <2>5. a \in getProductIdsNearExpiryAlert
    BY <1>11, <2>1, <2>2, <2>4 DEF getProductIdsNearExpiryAlert
  <2> QED
    BY <2>5 DEF getKitchenInventorySummary
<1>12. ASSUME NEW b \in DOMAIN getAgingReport,
              deriveKitchenBatchLineStatus(b) = "EXPIRED", batchStatus[b] # "expired"
       PROVE  getAgingReport[b] = "critical"
  <2>1. b \in Batches /\ getAgingReport[b] = AgingBucket(b)
    BY DEF getAgingReport
  <2>2. ExpiryDate[b] <= day
    BY <1>12 DEF deriveKitchenBatchLineStatus
  <2>3. ExpiryDate[b] \in Nat /\ ShelfLifeDays[ArticleOf[b]] \in Nat
    BY <2>1, DaysTyped
  <2>4. PICK left : left = ExpiryDate[b] - day
    OBVIOUS
  <2>5. PICK life : life = ShelfLifeDays[ArticleOf[b]]
    OBVIOUS
  <2>6. ~(2 * left > life) /\ ~(5 * left > life)
    BY <1>6, <2>2, <2>3, <2>4, <2>5
  <2> QED
    BY <2>1, <2>4, <2>5, <2>6 DEF AgingBucket
<1> QED
  BY <1>8, <1>9, <1>10, <1>11, <1>12, WasteIsALoss DEF AlertsAgree

-----------------------------------------------------------------------------
(* A reservation takes what is suggested: its batches come in an order, each *)
(* once, and each is asked for what the earlier ones have not got.         *)
LEMMA OrdersAreComplete ==
  ASSUME NEW S, IsFiniteSet(S), NEW s \in FefoOrders(S)
  PROVE  \E n \in Nat : /\ s \in [1..n -> S] /\ DOMAIN s = 1..n
                        /\ \A i, j \in 1..n : s[i] = s[j] => i = j
                        /\ {s[i] : i \in 1..n} = S
<1>1. PICK n : n = Cardinality(S)
  OBVIOUS
<1>2. n \in Nat /\ s \in [1..n -> S] /\ IsInjective(s)
  <2>1. s \in SetToSeqs(S)
    BY DEF FefoOrders
  <2>2. s \in [1..n -> S] /\ \A i, j \in 1..n : i # j => s[i] # s[j]
    BY <1>1, <2>1, Zenon DEF SetToSeqs
  <2>3. n \in Nat
    BY <1>1, FS_CardinalityType
  <2> QED
    BY <2>2, <2>3 DEF IsInjective
<1>3. DOMAIN s = 1..n /\ \A i, j \in 1..n : s[i] = s[j] => i = j
  BY <1>2 DEF IsInjective
<1>4. s \in Surjection(1..n, S)
  <2>1. s \in Injection(1..n, S)
    BY <1>2 DEF Injection
  <2>2. IsFiniteSet(1..n) /\ Cardinality(1..n) = n
    BY <1>2, FS_Interval
  <2> QED
    BY <1>1, <2>1, <2>2, FS_Injection
<1> QED
  BY <1>2, <1>3, <1>4 DEF Surjection

LEMMA LeastFirst ==
  ASSUME NEW x \in Nat, NEW y \in Int
  PROVE  Maximum(0, Minimum(x, y)) = Minimum(x, Maximum(y, 0))
BY DEF Maximum, Minimum

LEMMA TakesServe ==
  ASSUME NEW S \in SUBSET Batches, IsFiniteSet(S), NEW s \in FefoOrders(S), NEW n \in Nat,
         \A b \in S : Spare(Kitchen(b)) \in Nat
  PROVE  Total(Takes(s, n)) = Minimum(n, SumOver(SpareOf, S))
<1>1. PICK N \in Nat : /\ s \in [1..N -> S] /\ DOMAIN s = 1..N
                       /\ \A i, j \in 1..N : s[i] = s[j] => i = j
                       /\ {s[i] : i \in 1..N} = S
  BY OrdersAreComplete
<1>2. PICK D : D = 1..N
  OBVIOUS
<1>3. PICK free : free = [i \in D |-> SpareOf[s[i]]]
  OBVIOUS
<1>4. PICK key : key = [i \in D |-> i]
  OBVIOUS
<1>5. PICK take : take = Takes(s, n)
  OBVIOUS
<1>6. IsFiniteSet(D) /\ DOMAIN take = D
  <2>1. IsFiniteSet(D)
    BY <1>2, FS_Interval
  <2> QED
    BY <1>1, <1>2, <1>5, <2>1, Zenon DEF Takes
<1>7. ASSUME NEW i \in D
      PROVE  s[i] \in S /\ free[i] = Spare(<<"kitchen", s[i]>>) /\ free[i] \in Nat
  BY <1>1, <1>2, <1>3 DEF SpareOf, Kitchen
<1>8. Nats(free, D) /\ Ints(key, D) /\ \A x, y \in D : x # y => key[x] # key[y]
  <2>1. Nats(free, D)
    BY <1>7 DEF Nats
  <2>2. \A x \in D : key[x] = x /\ x \in Int
    BY <1>2, <1>4
  <2> QED
    BY <2>1, <2>2 DEF Ints
<1>9. ASSUME NEW i \in D
      PROVE  take[i] = Minimum(free[i], Maximum(n - SumOver(free, {j \in D : key[j] < key[i]}), 0))
  <2>1. PICK E : E = {j \in D : key[j] < key[i]}
    OBVIOUS
  <2>2. E = 1..(i - 1) /\ E \in SUBSET D
    BY <1>2, <1>4, <2>1
  <2>3. PICK before : before = [j \in 1..(i - 1) |-> Spare(<<"kitchen", s[j]>>)]
    OBVIOUS
  <2>4. DOMAIN before = E /\ \A j \in E : before[j] = free[j]
    BY <1>7, <2>2, <2>3
  <2>5. IsFiniteSet(E)
    BY <1>6, <2>2, FS_Subset
  <2>6. Total(before) = SumOver(free, E)
    <3>1. Total(before) = SumOver(before, E)
      BY <2>4, TotalIsSum
    <3>2. SumOver(before, E) = SumOver(free, E)
      BY <2>4, <2>5, SumSame
    <3> QED
      BY <3>1, <3>2
  <2>7. SumOver(free, E) \in Nat
    BY <1>6, <1>8, <2>2, SumGrows
  <2>8. take[i] = Maximum(0, Minimum(free[i], n - Total(before)))
    BY <1>1, <1>2, <1>5, <1>7, <2>3 DEF Takes
  <2>9. take[i] = Minimum(free[i], Maximum(n - SumOver(free, E), 0))
    <3>1. n - SumOver(free, E) \in Int /\ free[i] \in Nat
      <4>1. n - SumOver(free, E) \in Int
        BY <2>7
      <4>2. free[i] \in Nat
        BY <1>7
      <4> QED
        BY <4>1, <4>2
    <3> QED
      BY <2>6, <2>8, <3>1, LeastFirst
  <2> QED
    BY <2>1, <2>9, Zenon
<1>10. SumOver(take, D) = Minimum(n, SumOver(free, D))
  BY <1>6, <1>8, <1>9, Served
<1>11. SumOver(SpareOf, {s[i] : i \in D}) = SumOver(free, D)
  <2>1. \A x \in D : SpareOf[s[x]] = free[x] /\ free[x] \in Int
    <3>1. ASSUME NEW x \in D PROVE SpareOf[s[x]] = free[x] /\ free[x] \in Int
      <4>1. free[x] \in Nat
        BY <1>7
      <4>2. SpareOf[s[x]] = free[x]
        BY <1>3
      <4> QED
        BY <4>1, <4>2
    <3> QED
      BY <3>1
  <2>2. \A x, y \in D : s[x] = s[y] => x = y
    BY <1>1, <1>2
  <2> QED
    BY <1>6, <2>1, <2>2, SumRenamed
<1>12. {s[i] : i \in D} = S
  BY <1>1, <1>2
<1>13. Total(take) = SumOver(take, D)
  BY <1>6, TotalIsSum
<1> QED
  BY <1>5, <1>10, <1>11, <1>12, <1>13

LEMMA AdviceIsTaken ==
  ASSUME LedgerTyped, NEW a \in Articles, NEW n \in Nat, NEW floor
  PROVE  SuggestionIsTaken(a, n, floor)
<1>1. PICK S : S = findBatchesForFEFOWithShelfBuffer(a, floor)
  OBVIOUS
<1>2. PICK atp : atp = sumAtpAvailableForProduct(a, floor)
  OBVIOUS
<1>3. S \in SUBSET Batches /\ S \in SUBSET KnownBatches
      /\ \A b \in S : Spare(Kitchen(b)) > 0
  BY <1>1 DEF findBatchesForFEFOWithShelfBuffer, BatchesOf, KnownBatches, Kitchen
<1>4. IsFiniteSet(S) /\ Ints(SpareOf, S) /\ SumOver(SpareOf, S) \in Int
  BY <1>3, KitchenSums, SumType
<1>5. \A b \in S : Spare(Kitchen(b)) \in Nat
  BY <1>3, SpareIsStocked
<1>6. atp = SumOver(SpareOf, S)
  <2>1. PICK lines : lines = [b \in S |-> Spare(Kitchen(b))]
    OBVIOUS
  <2>2. atp = Total(lines) /\ DOMAIN lines = S
    BY <1>1, <1>2, <2>1 DEF sumAtpAvailableForProduct
  <2>3. \A b \in S : lines[b] = SpareOf[b]
    BY <1>3, <2>1 DEF SpareOf
  <2>4. SumOver(lines, S) = SumOver(SpareOf, S)
    BY <1>4, <2>3, SumSame
  <2> QED
    BY <2>2, <2>4, TotalIsSum
<1>7. PICK suggested : suggested = Minimum(n, atp)
  OBVIOUS
<1>8. PICK advice : advice = getApprovalSuggestion(a, n, floor)
  OBVIOUS
<1>9. /\ advice.suggestedApprove = suggested
      /\ advice.canceledByStock = Maximum(0, n - suggested)
      /\ advice.mode = IF suggested >= n THEN "FULL_APPROVE"
                       ELSE IF suggested > 0 THEN "PARTIAL_FULFILLMENT" ELSE "NO_STOCK"
  BY <1>2, <1>7, <1>8 DEF getApprovalSuggestion
<1>10. atp \in Int
  BY <1>4, <1>6
<1>11. ASSUME NEW s \in FefoOrders(S) PROVE Total(Takes(s, n)) = suggested
  BY <1>3, <1>4, <1>5, <1>6, <1>7, TakesServe
<1>12. canFulfill(a, n, floor) <=> advice.mode = "FULL_APPROVE"
  <2>1. canFulfill(a, n, floor) <=> atp >= n
    BY <1>2 DEF canFulfill
  <2>2. suggested >= n <=> atp >= n
    BY <1>7, <1>10 DEF Minimum
  <2>3. advice.mode = "FULL_APPROVE" <=> suggested >= n
    BY <1>9
  <2> QED
    BY <2>1, <2>2, <2>3
<1>13. shortage(a, n, floor) = advice.canceledByStock
  BY <1>2, <1>7, <1>9, <1>10 DEF shortage, Minimum, Maximum
<1> QED
  BY <1>1, <1>8, <1>9, <1>11, <1>12, <1>13 DEF SuggestionIsTaken

-----------------------------------------------------------------------------
(* Readers.  A list only grows, and a row keeps its place among the others;  *)
(* a row that ties with none and was not on the pages read so far still has *)
(* as many rows ahead of it as those pages hold.                           *)
ReaderOK(r) ==
  r.kind \in Lists =>
    /\ r = [kind |-> r.kind, step |-> r.step, page |-> r.page, began |-> r.began,
            seen |-> r.seen]
    /\ r.page \in Nat /\ r.began \subseteq RowsOf(r.kind)
    /\ \A x \in r.began \ r.seen :
         Ties(r.kind, x) = {x} =>
           r.step = "page" /\ r.page * PageSize <= Cardinality(Ahead(r.kind, x))

RowsGrow ==
  /\ DOMAIN inventory \subseteq DOMAIN inventory'
  /\ DOMAIN ledger \subseteq DOMAIN ledger'
  /\ \A i \in DOMAIN ledger : ledger'[i] = ledger[i]

LEMMA ListsAre ==
  ASSUME NEW list \in Lists
  PROVE  \/ /\ list = "readShopStock"
            /\ RowsOf(list) = {b \in Batches : Stocked(<<"shop", b>>)}
            /\ \A x, y : Precedes(list, x, y) <=> ExpiryDate[x] < ExpiryDate[y]
         \/ /\ list # "readShopStock"
            /\ \E at \in {"kitchen", "shop"} :
                 /\ list = IF at = "kitchen" THEN "readLedger" ELSE "readShopLedger"
                 /\ RowsOf(list) = {i \in DOMAIN ledger : ledger[i].at = at}
            /\ \A x, y : Precedes(list, x, y) <=> ledger[x].created > ledger[y].created
<1>1. CASE list = "readLedger"
  BY <1>1 DEF RowsOf, Precedes
<1>2. CASE list = "readShopLedger"
  BY <1>2 DEF RowsOf, Precedes
<1>3. CASE list = "readShopStock"
  BY <1>3 DEF RowsOf, Precedes
<1> QED
  BY <1>1, <1>2, <1>3 DEF Lists

LEMMA RowsAreFinite ==
  ASSUME LedgerTyped, NEW list \in Lists
  PROVE  /\ IsFiniteSet(RowsOf(list))
         /\ \A x \in RowsOf(list) : ~Precedes(list, x, x) /\ x \in Ties(list, x)
<1>1. CASE list = "readShopStock"
  <2>1. /\ RowsOf(list) = {b \in Batches : Stocked(<<"shop", b>>)}
        /\ \A x, y : Precedes(list, x, y) <=> ExpiryDate[x] < ExpiryDate[y]
    BY <1>1, ListsAre
  <2>2. ASSUME NEW b \in RowsOf(list) PROVE b \in KnownBatches
    <3>1. b \in Batches /\ <<"shop", b>> \in DOMAIN inventory
      BY <2>1 DEF Stocked
    <3>2. Known(<<"shop", b>>[2])
      BY <3>1 DEF LedgerTyped, InventoryTyped
    <3> QED
      BY <3>1, <3>2 DEF KnownBatches
  <2>3. IsFiniteSet(RowsOf(list))
    BY <2>2, FS_Subset DEF LedgerTyped, StatusTyped, KnownBatches
  <2>4. \A x \in RowsOf(list) : ~Precedes(list, x, x)
    BY <2>1, DaysTyped
  <2> QED
    BY <2>3, <2>4 DEF Ties
<1>2. CASE list # "readShopStock"
  <2>1. PICK at \in {"kitchen", "shop"} : RowsOf(list) = {i \in DOMAIN ledger : ledger[i].at = at}
    BY <1>2, ListsAre
  <2>2. \A x, y : Precedes(list, x, y) <=> ledger[x].created > ledger[y].created
    BY <1>2, ListsAre
  <2>3. IsFiniteSet(DOMAIN ledger) /\ \A i \in DOMAIN ledger : ledger[i] \in TransactionRow
    BY EntriesFinite DEF LedgerTyped
  <2>4. IsFiniteSet(RowsOf(list))
    BY <2>1, <2>3, FS_Subset
  <2>5. \A x \in RowsOf(list) : ledger[x].created \in Nat
    BY <2>1, <2>3 DEF TransactionRow
  <2>6. \A x \in RowsOf(list) : ~Precedes(list, x, x)
    BY <2>2, <2>5
  <2> QED
    BY <2>4, <2>6 DEF Ties
<1> QED
  BY <1>1, <1>2

LEMMA PlacesKept ==
  ASSUME RowsGrow, NEW list \in Lists
  PROVE  /\ RowsOf(list) \subseteq RowsOf(list)'
         /\ \A x, y \in RowsOf(list) : Precedes(list, x, y)' <=> Precedes(list, x, y)
<1>1. CASE list = "readShopStock"
  BY <1>1 DEF RowsGrow, RowsOf, Precedes, Stocked
<1>2. CASE list = "readLedger"
  BY <1>2 DEF RowsGrow, RowsOf, Precedes
<1>3. CASE list = "readShopLedger"
  BY <1>3 DEF RowsGrow, RowsOf, Precedes
<1> QED
  BY <1>1, <1>2, <1>3 DEF Lists

LEMMA RowsStayFinite ==
  ASSUME NEW list \in Lists
  PROVE  LedgerTyped' => IsFiniteSet(RowsOf(list))'
<1>1. LedgerTyped => IsFiniteSet(RowsOf(list))
  BY RowsAreFinite
<1> QED
  BY <1>1, PTL

LEMMA ReaderStays ==
  ASSUME LedgerTyped, LedgerTyped', RowsGrow, NEW r, ReaderOK(r)
  PROVE  ReaderOK(r)'
<1> SUFFICES ASSUME r.kind \in Lists PROVE ReaderOK(r)'
  BY DEF ReaderOK
<1>1. PICK list : list = r.kind
  OBVIOUS
<1>2. list \in Lists
  BY <1>1
<1>3. /\ r = [kind |-> r.kind, step |-> r.step, page |-> r.page, began |-> r.began,
              seen |-> r.seen]
      /\ r.page \in Nat /\ r.began \subseteq RowsOf(list)
      /\ \A x \in r.began \ r.seen :
           Ties(list, x) = {x} =>
             r.step = "page" /\ r.page * PageSize <= Cardinality(Ahead(list, x))
  BY <1>1 DEF ReaderOK
<1>4. /\ RowsOf(list) \subseteq RowsOf(list)'
      /\ \A x, y \in RowsOf(list) : Precedes(list, x, y)' <=> Precedes(list, x, y)
  BY <1>2, PlacesKept
<1>5. \A x \in RowsOf(list) : x \in Ties(list, x)
  BY <1>2, RowsAreFinite
<1>6. IsFiniteSet(RowsOf(list)')
  BY <1>2, RowsStayFinite
<1>7. ASSUME NEW x \in r.began \ r.seen, Ties(list, x)' = {x}
      PROVE  r.step = "page" /\ r.page * PageSize <= Cardinality(Ahead(list, x)')
  <2>1. x \in RowsOf(list)
    BY <1>3
  <2>2. Ties(list, x) \subseteq Ties(list, x)'
    BY <1>4, <2>1 DEF Ties
  <2>3. Ties(list, x) = {x}
    BY <1>5, <1>7, <2>1, <2>2
  <2>4. r.step = "page" /\ r.page * PageSize <= Cardinality(Ahead(list, x))
    BY <1>3, <2>3
  <2>5. Ahead(list, x) \subseteq Ahead(list, x)' /\ Ahead(list, x)' \subseteq RowsOf(list)'
    BY <1>4, <2>1 DEF Ahead
  <2>6. PICK A : A = Ahead(list, x)
    OBVIOUS
  <2>7. PICK B : B = Ahead(list, x)'
    OBVIOUS
  <2>8. IsFiniteSet(B) /\ A \subseteq B
    BY <1>6, <2>5, <2>6, <2>7, FS_Subset
  <2>9. Cardinality(A) <= Cardinality(B) /\ Cardinality(A) \in Nat /\ Cardinality(B) \in Nat
    BY <2>8, FS_Subset, FS_CardinalityType
  <2>10. r.page * PageSize \in Nat
    BY <1>3, ReportAssumption
  <2> QED
    BY <2>4, <2>6, <2>7, <2>9, <2>10
<1> QED
  BY <1>1, <1>3, <1>4, <1>7 DEF ReaderOK

LEMMA ReaderArrives ==
  ASSUME LedgerTyped, NEW c \in Clients, NEW list \in Lists, RequestsTyped,
         ArriveReader(c, list)
  PROVE  /\ UNCHANGED ledgerVars /\ ReaderOK(req[c])'
         /\ \A d \in Clients \ {c} : req'[d] = req[d]
<1>1. PICK r : r = [kind |-> list, step |-> "page", page |-> 0, began |-> RowsOf(list),
                    seen |-> {}]
  OBVIOUS
<1>2. req'[c] = r /\ \A d \in Clients \ {c} : req'[d] = req[d]
  BY <1>1 DEF ArriveReader, Becomes, RequestsTyped
<1>3. UNCHANGED ledgerVars /\ RowsOf(list)' = RowsOf(list)
  BY DEF ArriveReader, ledgerVars, RowsOf, Stocked
<1>4. ASSUME NEW x \in RowsOf(list)
      PROVE  /\ Ahead(list, x)' = Ahead(list, x)
             /\ 0 <= Cardinality(Ahead(list, x))
  <2>1. Ahead(list, x)' = Ahead(list, x)
    BY <1>3 DEF Ahead, Precedes, ledgerVars
  <2>2. IsFiniteSet(Ahead(list, x))
    BY RowsAreFinite, FS_Subset DEF Ahead
  <2> QED
    BY <2>1, <2>2, FS_CardinalityType
<1>5. 0 * PageSize = 0
  BY ReportAssumption
<1>6. ReaderOK(r)'
  BY <1>1, <1>3, <1>4, <1>5 DEF ReaderOK
<1> QED
  BY <1>2, <1>3, <1>6 DEF ReaderOK

(* A row of one field more after another. *)
PageRow(A) == [kind : A, step : A, page : A, began : A, seen : A]

LEMMA PageSet ==
  ASSUME NEW A, NEW r, r \in PageRow(A), NEW n, n \in A, NEW u, u = [r EXCEPT !.page = n]
  PROVE  u \in PageRow(A) /\ u.kind = r.kind /\ u.page = n /\ u.began = r.began
BY DEF PageRow

LEMMA SeenSet ==
  ASSUME NEW A, NEW r, r \in PageRow(A), NEW n, n \in A, NEW u, u = [r EXCEPT !.seen = n]
  PROVE  /\ u \in PageRow(A) /\ u.kind = r.kind /\ u.page = r.page /\ u.began = r.began
         /\ u.seen = n
BY DEF PageRow

LEMMA StepSet ==
  ASSUME NEW A, NEW r, r \in PageRow(A), NEW n, n \in A, NEW u, u = [r EXCEPT !.step = n]
  PROVE  u = [kind |-> r.kind, step |-> n, page |-> r.page, began |-> r.began, seen |-> r.seen]
BY DEF PageRow

LEMMA PageIsRead ==
  ASSUME LedgerTyped, NEW c \in Clients, NEW list \in Lists, RequestsTyped,
         ReaderOK(req[c]), NextPage(c, list)
  PROVE  /\ UNCHANGED ledgerVars /\ ReaderOK(req[c])'
         /\ \A d \in Clients \ {c} : req'[d] = req[d]
<1>1. PICK r : r = req[c]
  OBVIOUS
<1>2. r.kind = list /\ r.step = "page"
  BY <1>1 DEF NextPage, At
<1>3. /\ r = [kind |-> list, step |-> r.step, page |-> r.page, began |-> r.began,
              seen |-> r.seen]
      /\ r.page \in Nat /\ r.began \subseteq RowsOf(list)
      /\ \A x \in r.began \ r.seen :
           Ties(list, x) = {x} => r.page * PageSize <= Cardinality(Ahead(list, x))
  BY <1>1, <1>2 DEF ReaderOK
<1>4. PICK offset : offset = r.page * PageSize
  OBVIOUS
<1>5. PICK P \in PossiblePages(list, offset) :
        req' = [req EXCEPT ![c].page = @ + 1, ![c].seen = @ \cup P,
                  ![c].step = IF offset + PageSize >= Cardinality(RowsOf(list))
                              THEN "read" ELSE "page"]
  BY <1>1, <1>4 DEF NextPage
<1>6. PICK step : step = IF offset + PageSize >= Cardinality(RowsOf(list)) THEN "read" ELSE "page"
  OBVIOUS
<1>7. /\ req'[c].kind = list /\ req'[c].step = step /\ req'[c].page = r.page + 1
      /\ req'[c].began = r.began /\ req'[c].seen = r.seen \cup P
      /\ req'[c] = [kind |-> req'[c].kind, step |-> req'[c].step, page |-> req'[c].page,
                    began |-> req'[c].began, seen |-> req'[c].seen]
      /\ \A d \in Clients \ {c} : req'[d] = req[d]
  <2>1. PICK q : q = [req EXCEPT ![c].page = r.page + 1]
    OBVIOUS
  <2>2. PICK u : u = [q EXCEPT ![c].seen = r.seen \cup P]
    OBVIOUS
  <2>3. q[c] = [r EXCEPT !.page = r.page + 1] /\ DOMAIN q = Clients
        /\ \A d \in Clients \ {c} : q[d] = req[d]
    BY <1>1, <2>1 DEF RequestsTyped
  <2>4. u[c] = [q[c] EXCEPT !.seen = r.seen \cup P] /\ DOMAIN u = Clients
        /\ \A d \in Clients \ {c} : u[d] = req[d]
    BY <2>2, <2>3
  <2>5. q[c].seen = r.seen
    BY <1>3, <2>3
  <2>6. req' = [u EXCEPT ![c].step = step]
    BY <1>1, <1>5, <1>6, <2>1, <2>2, <2>5, Zenon
  <2>7. req'[c] = [u[c] EXCEPT !.step = step] /\ \A d \in Clients \ {c} : req'[d] = req[d]
    BY <2>4, <2>6
  <2>8. PICK A : A = {list, r.step, r.page, r.began, r.seen, step, r.page + 1, r.seen \cup P}
    OBVIOUS
  <2>9. PICK v : v = q[c]
    OBVIOUS
  <2>10. PICK w : w = u[c]
    OBVIOUS
  <2>11. PICK n : n = r.page + 1
    OBVIOUS
  <2>12. PICK s : s = r.seen \cup P
    OBVIOUS
  <2>13. r \in PageRow(A) /\ n \in A /\ v = [r EXCEPT !.page = n]
    BY <1>3, <2>3, <2>8, <2>9, <2>11 DEF PageRow
  <2>14. v \in PageRow(A) /\ v.kind = r.kind /\ v.page = n /\ v.began = r.began
    BY <2>13, PageSet
  <2>15. s \in A /\ w = [v EXCEPT !.seen = s]
    BY <2>4, <2>8, <2>9, <2>10, <2>12
  <2>16. /\ w \in PageRow(A) /\ w.kind = v.kind /\ w.page = v.page /\ w.began = v.began
         /\ w.seen = s
    BY <2>14, <2>15, SeenSet
  <2>17. PICK z : z = req'[c]
    OBVIOUS
  <2>18. step \in A /\ z = [w EXCEPT !.step = step]
    BY <2>7, <2>8, <2>10, <2>17
  <2>19. z = [kind |-> w.kind, step |-> step, page |-> w.page, began |-> w.began,
              seen |-> w.seen]
    BY <2>16, <2>18, StepSet
  <2>20. z = [kind |-> list, step |-> step, page |-> r.page + 1, began |-> r.began,
              seen |-> r.seen \cup P]
    BY <1>2, <2>11, <2>12, <2>14, <2>16, <2>19
  <2> QED
    BY <2>7, <2>17, <2>20
<1>8. UNCHANGED ledgerVars /\ RowsOf(list)' = RowsOf(list)
      /\ \A x : Ahead(list, x)' = Ahead(list, x) /\ Ties(list, x)' = Ties(list, x)
  BY DEF NextPage, ledgerVars, RowsOf, Stocked, Ahead, Ties, Precedes
<1>9. offset \in Nat /\ PageSize \in Nat /\ PageSize > 0
      /\ (r.page + 1) * PageSize = offset + PageSize
  BY <1>3, <1>4, ReportAssumption
<1>10. ASSUME NEW x \in r.began \ (r.seen \cup P), Ties(list, x) = {x}
       PROVE  step = "page" /\ offset + PageSize <= Cardinality(Ahead(list, x))
  <2>1. x \in RowsOf(list) /\ x \notin P /\ x \in r.began \ r.seen
    BY <1>3, <1>10
  <2>2. PICK ahead : ahead = Cardinality(Ahead(list, x))
    OBVIOUS
  <2>3. IsFiniteSet(RowsOf(list)) /\ ~Precedes(list, x, x)
    BY <2>1, RowsAreFinite
  <2>4. PICK A : A = Ahead(list, x)
    OBVIOUS
  <2>5. A \subseteq RowsOf(list) /\ A # RowsOf(list)
    BY <2>1, <2>3, <2>4 DEF Ahead
  <2>6. ahead \in Nat /\ ahead < Cardinality(RowsOf(list))
        /\ Cardinality(RowsOf(list)) \in Nat
    BY <2>2, <2>3, <2>4, <2>5, FS_Subset, FS_CardinalityType
  <2>7. offset <= ahead
    BY <1>3, <1>4, <1>10, <2>1, <2>2
  <2>8. Cardinality({x}) = 1 /\ Cardinality({}) = 0 /\ P \cap {x} = {}
    BY <2>1, FS_Singleton, FS_EmptySet
  <2>9. Overlap(list, x, offset) = Minimum(offset + PageSize, ahead + 1) - Maximum(offset, ahead)
    BY <1>10, <2>2, <2>8 DEF Overlap
  <2>10. Maximum(0, Overlap(list, x, offset)) = 0
    <3>1. Cardinality(P \cap Ties(list, x)) = Maximum(0, Overlap(list, x, offset))
      BY <1>5, <2>1 DEF PossiblePages
    <3> QED
      BY <1>10, <2>8, <3>1
  <2>11. offset + PageSize <= ahead
    BY <1>9, <2>6, <2>7, <2>9, <2>10 DEF Minimum, Maximum
  <2> QED
    BY <1>6, <1>9, <2>2, <2>6, <2>11
<1>11. ReaderOK(req[c])'
  BY <1>3, <1>7, <1>8, <1>9, <1>10 DEF ReaderOK
<1> QED
  BY <1>7, <1>8, <1>11

LEMMA PagesAreComplete ==
  ASSUME \A c \in Clients : ReaderOK(req[c])
  PROVE  PagesMissOnlyTies
BY DEF ReaderOK, PagesMissOnlyTies

-----------------------------------------------------------------------------
(* What has left the kitchen.  For one product: the entries of the shop and  *)
(* the exports of the kitchen, what is on the road, and what was claimed.  *)
Departed(a) ==
  [e \in TransactionRow |->
     IF /\ ArticleOf[e.batch] = a
        /\ IF e.at = "kitchen" THEN e.type = "export" ELSE Moved(e)
     THEN e.change ELSE 0]
OnRoad(a) ==
  [h \in HoldRow |->
     IF h.status = "in_transit" /\ ArticleOf[h.batch] = a THEN h.quantity ELSE 0]
Claimed(a) ==
  [k \in ClaimItemRow |-> IF k.article = a THEN k.missing + k.damaged ELSE 0]

LEMMA WeightsTyped ==
  ASSUME NEW a
  PROVE  /\ Departed(a) \in [TransactionRow -> Int]
         /\ OnRoad(a) \in [HoldRow -> Int] /\ Claimed(a) \in [ClaimItemRow -> Int]
<1>1. \A e \in TransactionRow : e.change \in Int
  BY DEF TransactionRow
<1>2. \A h \in HoldRow : h.quantity \in Int
  BY DEF HoldRow
<1>3. \A k \in ClaimItemRow : k.missing + k.damaged \in Int
  BY DEF ClaimItemRow
<1>4. Departed(a) \in [TransactionRow -> Int]
  BY <1>1 DEF Departed
<1>5. OnRoad(a) \in [HoldRow -> Int]
  BY <1>2 DEF OnRoad
<1>6. Claimed(a) \in [ClaimItemRow -> Int]
  BY <1>3 DEF Claimed
<1> QED
  BY <1>4, <1>5, <1>6

Gone(a) == Weighed(ledger, Departed(a))
Rolling(a) == Weighed(hold, OnRoad(a))
Lost(a) == Weighed(claimItem, Claimed(a))

HoldsLeft == \A i \in DOMAIN hold : hold[i].status = "completed" => hold[i].receipts >= 1

(* What left the kitchen is in the shop, on the road or claimed, or counted  *)
(* more than once; not so as long as every report spoke of one row, once.  *)
Balance(a) == Gone(a) + Rolling(a) + Lost(a)
RoadBalances ==
  \A a \in Articles : Balance(a) >= 0 /\ (CreditedOnce => Balance(a) = 0)

RoadInv == LossesAreNegative /\ HoldsLeft /\ RoadBalances

(* A line under receipt has left the kitchen; no line comes back. *)
LeavesOnce(r) == r.kind = "receive" => hold[r.line].status \in Out
LinesStayOut ==
  \A i \in DOMAIN hold : hold[i].status \in Out => i \in DOMAIN hold' /\ hold'[i].status \in Out

LEMMA OnceBefore ==
  ASSUME TablesGrow,
         \A i \in DOMAIN hold : /\ hold[i].receipts \in Nat /\ hold'[i].receipts \in Nat
                                /\ hold[i].receipts <= hold'[i].receipts
  PROVE  CreditedOnce' => CreditedOnce
<1> SUFFICES ASSUME CreditedOnce', NEW i \in DOMAIN hold
             PROVE  hold[i].receipts <= 1 /\ (hold[i].receipts = 1 => RowsWith(i) = {i})
  BY DEF CreditedOnce
<1>1. i \in DOMAIN hold'
  BY DEF TablesGrow
<1>2. hold'[i].receipts <= 1 /\ (hold'[i].receipts = 1 => RowsWith(i)' = {i})
  BY <1>1 DEF CreditedOnce
<1>3. i \in RowsWith(i) /\ RowsWith(i) \subseteq RowsWith(i)'
  BY RowsStayTogether
<1>4. hold[i].receipts <= 1
  BY <1>2
<1>5. hold[i].receipts = 1 => hold'[i].receipts = 1
  BY <1>2
<1>6. RowsWith(i)' = {i} => RowsWith(i) = {i}
  BY <1>3
<1> QED
  BY <1>2, <1>4, <1>5, <1>6

LEMMA BalanceKept ==
  ASSUME RoadBalances, CreditedOnce' => CreditedOnce,
         \A a \in Articles : Balance(a)' = Balance(a)
  PROVE  RoadBalances'
BY DEF RoadBalances

LEMMA GoneMore ==
  ASSUME LedgerTyped, NEW m \in Entries, ledger' = ledger \o m, NEW a
  PROVE  Gone(a)' = Gone(a) + Weighed(m, Departed(a))
         /\ Gone(a) \in Int /\ Weighed(m, Departed(a)) \in Int
<1>1. ledger \in Seq(TransactionRow) /\ m \in Seq(TransactionRow)
  BY DEF LedgerTyped, Entries
<1>2. Departed(a) \in [TransactionRow -> Int]
  BY WeightsTyped
<1>3. Weighed(ledger \o m, Departed(a)) = Weighed(ledger, Departed(a)) + Weighed(m, Departed(a))
  BY <1>1, <1>2, WeighedMore
<1>4. Weighed(ledger, Departed(a)) \in Int /\ Weighed(m, Departed(a)) \in Int
  BY <1>1, <1>2, WeighedType
<1> QED
  BY <1>3, <1>4 DEF Gone

LEMMA LossesMore ==
  ASSUME LedgerTyped, LossesAreNegative, NEW m \in Entries, ledger' = ledger \o m,
         \A i \in DOMAIN m : m[i].type = "adjust_loss" => m[i].change <= 0
  PROVE  LossesAreNegative'
<1>1. PICK l : l = ledger
  OBVIOUS
<1>2. l \in Entries /\ ledger' = l \o m
  BY <1>1 DEF LedgerTyped
<1>3. /\ DOMAIN (l \o m) = 1..(Len(l) + Len(m))
      /\ Len(l) \in Nat /\ DOMAIN l = 1..Len(l) /\ Len(m) \in Nat /\ DOMAIN m = 1..Len(m)
      /\ \A i \in DOMAIN l : (l \o m)[i] = l[i]
      /\ \A i \in DOMAIN m : (l \o m)[Len(l) + i] = m[i]
  BY <1>2 DEF Entries
<1>4. ASSUME NEW i \in DOMAIN (l \o m), (l \o m)[i].type = "adjust_loss"
      PROVE  (l \o m)[i].change <= 0
  <2>1. CASE i \in DOMAIN l
    BY <1>1, <1>3, <1>4, <2>1 DEF LossesAreNegative
  <2>2. CASE i \notin DOMAIN l
    <3>1. i - Len(l) \in DOMAIN m /\ Len(l) + (i - Len(l)) = i
      BY <1>3, <2>2
    <3> QED
      BY <1>3, <1>4, <3>1
  <2> QED
    BY <2>1, <2>2
<1> QED
  BY <1>2, <1>4 DEF LossesAreNegative

LEMMA RollingKept ==
  ASSUME LedgerTyped, hold' \in Seq(HoldRow), HoldsAside, NEW a
  PROVE  Rolling(a)' = Rolling(a) /\ Rolling(a) \in Int
<1>1. PICK P : P = {i \in DOMAIN hold : hold[i].status = "in_transit"}
  OBVIOUS
<1>2. PICK f : f = [i \in P |-> OnRoad(a)[hold[i]]]
  OBVIOUS
<1>3. PICK w : w = OnRoad(a)
  OBVIOUS
<1>4. w \in [HoldRow -> Int] /\ hold \in Seq(HoldRow)
  BY <1>3, WeightsTyped DEF LedgerTyped, HoldsTyped
<1>5. \A h \in HoldRow : h.status # "in_transit" => w[h] = 0
  BY <1>3 DEF OnRoad
<1>6. P \subseteq DOMAIN hold /\ \A i \in DOMAIN hold : w[hold[i]] = IF i \in P THEN f[i] ELSE 0
  <2>1. \A i \in DOMAIN hold : hold[i] \in HoldRow
    BY <1>4, HoldFacts
  <2> QED
    BY <1>1, <1>2, <1>3, <1>5, <2>1
<1>7. SumOver(f, P) = Weighed(hold, w)
  BY <1>4, <1>6, WeighedSome
<1>8. PICK l : l = hold'
  OBVIOUS
<1>9. l \in Seq(HoldRow) /\ \A i \in DOMAIN l : l[i] \in HoldRow
  BY <1>8, ElementsTyped
<1>10. P \subseteq DOMAIN l /\ \A i \in DOMAIN l : w[l[i]] = IF i \in P THEN f[i] ELSE 0
  <2>1. P \subseteq DOMAIN l
    BY <1>1, <1>8 DEF HoldsAside
  <2>2. ASSUME NEW i \in DOMAIN l PROVE w[l[i]] = IF i \in P THEN f[i] ELSE 0
    <3>1. CASE i \in DOMAIN hold /\ l[i] = hold[i]
      BY <1>6, <3>1
    <3>2. CASE i \in DOMAIN hold /\ l[i] # hold[i]
      BY <1>1, <1>5, <1>8, <1>9, <3>2 DEF HoldsAside, Out
    <3>3. CASE i \notin DOMAIN hold
      BY <1>1, <1>5, <1>8, <1>9, <3>3 DEF HoldsAside, Out
    <3> QED
      BY <3>1, <3>2, <3>3
  <2> QED
    BY <2>1, <2>2
<1>11. SumOver(f, P) = Weighed(l, w)
  BY <1>4, <1>9, <1>10, WeighedSome
<1>12. Weighed(hold, w) \in Int
  BY <1>4, WeighedType
<1> QED
  BY <1>3, <1>7, <1>8, <1>11, <1>12 DEF Rolling

LEMMA QuietRoads ==
  ASSUME LedgerTyped, LedgerStep, QuietStep, RoadInv
  PROVE  RoadInv' /\ LinesStayOut
<1>1. PICK m \in Entries : ledger' = ledger \o m /\ \A i \in DOMAIN m : OffTheRoad(m[i])
  BY DEF QuietStep, Aside
<1>2. HoldsAside /\ claimItem' = claimItem /\ hold' \in Seq(HoldRow)
  BY DEF QuietStep, LedgerStep, HoldStep
<1>3. LossesAreNegative'
  BY <1>1, LossesMore DEF RoadInv, OffTheRoad
<1>4. HoldsLeft' /\ LinesStayOut /\ (CreditedOnce' => CreditedOnce)
  <2>1. HoldsLeft'
    BY <1>2 DEF HoldsAside, RoadInv, HoldsLeft, Out
  <2>2. LinesStayOut
    BY <1>2 DEF HoldsAside, LinesStayOut
  <2>3. TablesGrow
    BY LedgerStepGrows
  <2>4. \A i \in DOMAIN hold : hold[i].receipts \in Nat /\ hold'[i].receipts = hold[i].receipts
    <3>1. \A i \in DOMAIN hold : hold[i].receipts \in Nat
      BY HoldFacts DEF LedgerTyped, HoldsTyped
    <3>2. \A i \in DOMAIN hold : hold'[i].receipts = hold[i].receipts
      BY <1>2 DEF HoldsAside
    <3> QED
      BY <3>1, <3>2
  <2>5. \A i \in DOMAIN hold : /\ hold[i].receipts \in Nat /\ hold'[i].receipts \in Nat
                               /\ hold[i].receipts <= hold'[i].receipts
    BY <2>4
  <2>6. CreditedOnce' => CreditedOnce
    BY <2>3, <2>5, OnceBefore
  <2> QED
    BY <2>1, <2>2, <2>6
<1>5. ASSUME NEW a PROVE Weighed(m, Departed(a)) = 0
  <2>1. PICK w : w = Departed(a)
    OBVIOUS
  <2>2. w \in [TransactionRow -> Int] /\ m \in Seq(TransactionRow)
    BY <2>1, WeightsTyped DEF Entries
  <2>3. \A i \in DOMAIN m : m[i] \in TransactionRow
    BY EntriesFinite
  <2>4. \A i \in DOMAIN m : w[m[i]] = 0
    BY <1>1, <2>1, <2>3 DEF Departed, OffTheRoad
  <2>5. Weighed(m, w) = 0
    BY <2>2, <2>4, WeighedNothing
  <2> QED
    BY <2>1, <2>5
<1>6. ASSUME NEW a \in Articles PROVE Balance(a)' = Balance(a)
  <2>1. Gone(a)' = Gone(a) + Weighed(m, Departed(a)) /\ Gone(a) \in Int
    BY <1>1, GoneMore
  <2>2. Rolling(a)' = Rolling(a)
    BY <1>2, RollingKept
  <2>3. Lost(a)' = Lost(a)
    BY <1>2 DEF Lost
  <2> QED
    BY <1>5, <2>1, <2>2, <2>3 DEF Balance
<1>7. RoadBalances'
  BY <1>4, <1>6, BalanceKept DEF RoadInv
<1> QED
  BY <1>3, <1>4, <1>7 DEF RoadInv

(* What the lines hold of a product. *)
Freight(a) ==
  [i \in DOMAIN hold |-> IF ArticleOf[hold[i].batch] = a THEN hold[i].quantity ELSE 0]

LEMMA FreightTyped ==
  ASSUME LedgerTyped, NEW a, NEW S \in SUBSET DOMAIN hold
  PROVE  IsFiniteSet(S) /\ Ints(Freight(a), S) /\ SumOver(Freight(a), S) \in Int
<1>1. IsFiniteSet(S) /\ \A i \in DOMAIN hold : hold[i].quantity \in Nat
  BY HoldFacts, FS_Subset DEF LedgerTyped, HoldsTyped
<1>2. Ints(Freight(a), S)
  BY <1>1 DEF Ints, Freight
<1> QED
  BY <1>1, <1>2, SumType

LEMMA FreightRolls ==
  ASSUME LedgerTyped, NEW a
  PROVE  Rolling(a) = SumOver(Freight(a), {i \in DOMAIN hold : hold[i].status = "in_transit"})
<1>1. PICK P : P = {i \in DOMAIN hold : hold[i].status = "in_transit"}
  OBVIOUS
<1>2. PICK f : f = Freight(a)
  OBVIOUS
<1>3. PICK w : w = OnRoad(a)
  OBVIOUS
<1>4. w \in [HoldRow -> Int] /\ hold \in Seq(HoldRow)
  BY <1>3, WeightsTyped DEF LedgerTyped, HoldsTyped
<1>5. \A i \in DOMAIN hold : hold[i] \in HoldRow
  BY <1>4, HoldFacts
<1>6. P \subseteq DOMAIN hold /\ \A i \in DOMAIN hold : w[hold[i]] = IF i \in P THEN f[i] ELSE 0
  BY <1>1, <1>2, <1>3, <1>5 DEF OnRoad, Freight
<1>7. SumOver(f, P) = Weighed(hold, w)
  BY <1>4, <1>6, WeighedSome
<1> QED
  BY <1>1, <1>2, <1>3, <1>7 DEF Rolling

(* The debits of a departure weigh what its lines hold. *)
LEMMA ExportsWeigh ==
  ASSUME LedgerTyped, NEW S \in SUBSET DOMAIN hold, NEW a
  PROVE  /\ Debits(S, "export") \in Entries
         /\ \A i \in DOMAIN Debits(S, "export") : Debits(S, "export")[i].type = "export"
         /\ Weighed(Debits(S, "export"), Departed(a)) = 0 - SumOver(Freight(a), S)
<1>1. /\ IsFiniteSet(S) /\ "kitchen" \in Places /\ "export" \in TransactionType
      /\ \A i \in S : hold[i].batch \in Batches /\ hold[i].quantity \in Nat
  BY HoldFacts, FS_Subset DEF LedgerTyped, HoldsTyped, Places, TransactionType
<1>2. PICK s : s = SetToSeq(S)
  OBVIOUS
<1>3. PICK n : n = Cardinality(S)
  OBVIOUS
<1>4. /\ n \in Nat /\ s \in [1..n -> S] /\ IsInjective(s)
      /\ \A x \in S : \E k \in 1..n : s[k] = x
  BY <1>1, <1>2, <1>3, SetToSeqPlaces
<1>5. PICK m : m = Debits(S, "export")
  OBVIOUS
<1>6. m = [i \in 1..n |-> Entry(<<"kitchen", hold[s[i]].batch>>, "export",
                               0 - hold[s[i]].quantity, 0)]
  BY <1>2, <1>4, <1>5 DEF Debits
<1>7. ASSUME NEW i \in 1..n
      PROVE  /\ m[i] \in TransactionRow /\ m[i].change = 0 - hold[s[i]].quantity
             /\ m[i].at = "kitchen" /\ m[i].type = "export" /\ m[i].batch = hold[s[i]].batch
  <2>1. s[i] \in S /\ 0 - hold[s[i]].quantity \in Int /\ 0 \in Nat
    BY <1>1, <1>4
  <2>2. hold[s[i]].batch \in Batches
    BY <1>1, <2>1
  <2>3. m[i] = Entry(<<"kitchen", hold[s[i]].batch>>, "export", 0 - hold[s[i]].quantity, 0)
    BY <1>6
  <2> QED
    BY <1>1, <2>1, <2>2, <2>3, EntryTyped
<1>8. m \in Entries /\ DOMAIN m = 1..n /\ IsFiniteSet(1..n)
  <2>1. m \in [1..n -> TransactionRow]
    BY <1>6, <1>7
  <2> QED
    BY <1>4, <2>1, FS_Interval DEF Entries
<1>9. PICK w : w = Departed(a)
  OBVIOUS
<1>10. PICK g : g = [i \in S |-> 0 - Freight(a)[i]]
  OBVIOUS
<1>11. PICK f : f = [k \in DOMAIN m |-> w[m[k]]]
  OBVIOUS
<1>12. PICK D : D = DOMAIN m
  OBVIOUS
<1>13. ASSUME NEW k \in D PROVE g[s[k]] = f[k] /\ f[k] \in Int
  <2>1. k \in 1..n /\ s[k] \in S /\ s[k] \in DOMAIN hold
    BY <1>4, <1>8, <1>12
  <2>2. hold[s[k]].quantity \in Nat
    BY <1>1, <2>1
  <2>3. w[m[k]] = IF ArticleOf[hold[s[k]].batch] = a THEN 0 - hold[s[k]].quantity ELSE 0
    BY <1>7, <1>9, <2>1 DEF Departed
  <2>4. g[s[k]] = IF ArticleOf[hold[s[k]].batch] = a THEN 0 - hold[s[k]].quantity ELSE 0
    BY <1>10, <2>1, <2>2 DEF Freight
  <2> QED
    BY <1>11, <1>12, <2>2, <2>3, <2>4
<1>14. Renames(s, D, f, g) /\ IsFiniteSet(D)
  <2>1. \A x, y \in D : s[x] = s[y] => x = y
    BY <1>4, <1>8, <1>12 DEF IsInjective
  <2> QED
    BY <1>8, <1>12, <1>13, <2>1 DEF Renames
<1>15. SumOver(g, ImageOf(s, D)) = SumOver(f, D)
  BY <1>14, SumMoved
<1>16. ImageOf(s, D) = S
  BY <1>4, <1>8, <1>12 DEF ImageOf
<1>17. SumOver(g, S) = 0 - SumOver(Freight(a), S)
  <2>1. PICK h : h = Freight(a)
    OBVIOUS
  <2>2. IsFiniteSet(S) /\ Ints(h, S) /\ \A i \in S : g[i] = 0 - h[i]
    BY <1>10, <2>1, FreightTyped
  <2> QED
    BY <2>1, <2>2, SumNegated
<1>18. Weighed(m, w) = SumOver(f, D)
  BY <1>11, <1>12 DEF Weighed
<1> QED
  BY <1>5, <1>7, <1>8, <1>9, <1>15, <1>16, <1>17, <1>18

(* Lines depart. *)
LEMMA DeparturesRoll ==
  ASSUME LedgerTyped, NEW a, NEW S \in SUBSET DOMAIN hold,
         \A i \in S : hold[i].status = "reserved", HoldsBecome(S, "in_transit")
  PROVE  /\ DOMAIN hold' = DOMAIN hold
         /\ \A i \in DOMAIN hold :
              /\ hold'[i].receipts = hold[i].receipts
              /\ hold'[i].status = IF i \in S THEN "in_transit" ELSE hold[i].status
         /\ Rolling(a)' = Rolling(a) + SumOver(Freight(a), S)
<1>1. /\ DOMAIN hold' = DOMAIN hold
      /\ \A i \in DOMAIN hold :
           hold'[i] = IF i \in S THEN [hold[i] EXCEPT !.status = "in_transit"] ELSE hold[i]
  BY DEF HoldsBecome
<1>2. hold \in Seq(HoldRow) /\ HoldStep
  BY StatusesOfHolds DEF LedgerTyped, HoldsTyped
<1>3. \A row \in HoldRow : LET new == [row EXCEPT !.status = "in_transit"]
                           IN /\ new.status = "in_transit" /\ new.receipts = row.receipts
                              /\ new.batch = row.batch /\ new.quantity = row.quantity
  BY DEF HoldRow
<1>4. ASSUME NEW i \in DOMAIN hold
      PROVE  /\ hold'[i].receipts = hold[i].receipts
             /\ hold'[i].batch = hold[i].batch /\ hold'[i].quantity = hold[i].quantity
             /\ hold'[i].status = IF i \in S THEN "in_transit" ELSE hold[i].status
  <2>1. hold[i] \in HoldRow
    BY <1>2, HoldFacts
  <2> QED
    BY <1>1, <1>3, <2>1
<1>5. PICK P : P = {i \in DOMAIN hold : hold[i].status = "in_transit"}
  OBVIOUS
<1>6. PICK Q : Q = P \cup S
  OBVIOUS
<1>7. PICK l : l = hold'
  OBVIOUS
<1>8. PICK f : f = Freight(a)
  OBVIOUS
<1>9. PICK w : w = OnRoad(a)
  OBVIOUS
<1>10. w \in [HoldRow -> Int] /\ l \in Seq(HoldRow)
  BY <1>2, <1>7, <1>9, WeightsTyped DEF HoldStep
<1>11. \A i \in DOMAIN l : l[i] \in HoldRow
  BY <1>10, ElementsTyped
<1>12. Q \subseteq DOMAIN l /\ \A i \in DOMAIN l : w[l[i]] = IF i \in Q THEN f[i] ELSE 0
  <2>1. ASSUME NEW i \in DOMAIN l PROVE w[l[i]] = IF i \in Q THEN f[i] ELSE 0
    <3>1. i \in DOMAIN hold /\ l[i] \in HoldRow
      BY <1>1, <1>7, <1>11
    <3>2. w[l[i]] = IF l[i].status = "in_transit" /\ ArticleOf[l[i].batch] = a
                    THEN l[i].quantity ELSE 0
      BY <1>9, <3>1 DEF OnRoad
    <3>3. /\ l[i].batch = hold[i].batch /\ l[i].quantity = hold[i].quantity
          /\ l[i].status = "in_transit" <=> i \in Q
      BY <1>4, <1>5, <1>6, <1>7, <3>1
    <3>4. f[i] = IF ArticleOf[hold[i].batch] = a THEN hold[i].quantity ELSE 0
      BY <1>8, <3>1 DEF Freight
    <3> QED
      BY <3>2, <3>3, <3>4
  <2>2. Q \subseteq DOMAIN l
    BY <1>1, <1>5, <1>6, <1>7
  <2> QED
    BY <2>1, <2>2
<1>13. SumOver(f, Q) = Weighed(l, w)
  BY <1>10, <1>12, WeighedSome
<1>14. P \cap S = {} /\ P \in SUBSET DOMAIN hold
  BY <1>5
<1>15. IsFiniteSet(P) /\ Ints(f, P) /\ IsFiniteSet(S) /\ Ints(f, S)
  BY <1>8, <1>14, FreightTyped
<1>16. SumOver(f, P \cup S) = SumOver(f, P) + SumOver(f, S)
  BY <1>14, <1>15, SumUnion
<1>17. SumOver(f, P \cup S) = SumOver(f, Q)
  BY <1>6, Zenon
<1>18. Rolling(a) = SumOver(f, P)
  BY <1>5, <1>8, FreightRolls
<1>19. Rolling(a)' = Weighed(l, w)
  BY <1>7, <1>9 DEF Rolling
<1> QED
  BY <1>1, <1>4, <1>8, <1>13, <1>16, <1>17, <1>18, <1>19

LEMMA ExportRoads ==
  ASSUME LedgerTyped, NEW order \in Nat, export(order), RoadInv
  PROVE  RoadInv' /\ LinesStayOut
<1>1. PICK S : S = HoldsOf(order, "reserved")
  OBVIOUS
<1>2. S \in SUBSET DOMAIN hold /\ \A i \in S : hold[i].status = "reserved"
  BY <1>1 DEF HoldsOf
<1>3. PICK m : m = Debits(S, "export")
  OBVIOUS
<1>4. ledger' = ledger \o m /\ HoldsBecome(S, "in_transit") /\ claimItem' = claimItem
  BY <1>1, <1>3 DEF export, createInventoryTransaction
<1>5. m \in Entries /\ \A i \in DOMAIN m : m[i].type = "export"
  BY <1>2, <1>3, ExportsWeigh
<1>6. \A a : Weighed(m, Departed(a)) = 0 - SumOver(Freight(a), S)
  BY <1>2, <1>3, ExportsWeigh
<1>7. /\ DOMAIN hold' = DOMAIN hold
      /\ \A i \in DOMAIN hold :
           /\ hold'[i].receipts = hold[i].receipts
           /\ hold'[i].status = IF i \in S THEN "in_transit" ELSE hold[i].status
  BY <1>2, <1>4, DeparturesRoll
<1>8. LossesAreNegative'
  BY <1>4, <1>5, LossesMore DEF RoadInv
<1>9. HoldsLeft' /\ LinesStayOut /\ (CreditedOnce' => CreditedOnce)
  <2>1. HoldsLeft' /\ LinesStayOut
    BY <1>7 DEF RoadInv, HoldsLeft, LinesStayOut, Out
  <2>2. TablesGrow
    BY ExportKeeps, LedgerStepGrows
  <2>3. \A i \in DOMAIN hold : hold[i].receipts \in Nat
    BY HoldFacts DEF LedgerTyped, HoldsTyped
  <2>4. \A i \in DOMAIN hold : /\ hold[i].receipts \in Nat /\ hold'[i].receipts \in Nat
                               /\ hold[i].receipts <= hold'[i].receipts
    BY <1>7, <2>3
  <2>5. CreditedOnce' => CreditedOnce
    BY <2>2, <2>4, OnceBefore
  <2> QED
    BY <2>1, <2>5
<1>10. ASSUME NEW a \in Articles PROVE Balance(a)' = Balance(a)
  <2>1. Gone(a)' = Gone(a) + Weighed(m, Departed(a)) /\ Gone(a) \in Int
    BY <1>4, <1>5, GoneMore
  <2>2. Rolling(a)' = Rolling(a) + SumOver(Freight(a), S)
    BY <1>2, <1>4, DeparturesRoll
  <2>3. Lost(a)' = Lost(a)
    BY <1>4 DEF Lost
  <2>4. SumOver(Freight(a), S) \in Int
    BY <1>2, FreightTyped
  <2>5. Rolling(a) \in Int /\ Lost(a) \in Int
    BY WeightsTyped, WeighedType DEF Rolling, Lost, LedgerTyped, HoldsTyped
  <2> QED
    BY <1>6, <2>1, <2>2, <2>3, <2>4, <2>5 DEF Balance
<1>11. RoadBalances'
  BY <1>9, <1>10, BalanceKept DEF RoadInv
<1> QED
  BY <1>8, <1>9, <1>11 DEF RoadInv

LEMMA ClaimWeighs ==
  ASSUME LedgerTyped, NEW items \in Seq(ClaimItemRow), createClaim(items), NEW a
  PROVE  /\ Lost(a)' = Lost(a) + Weighed(items, Claimed(a))
         /\ Lost(a) \in Int /\ Weighed(items, Claimed(a)) \in Int
<1>1. PICK w : w = Claimed(a)
  OBVIOUS
<1>2. w \in [ClaimItemRow -> Int] /\ claimItem \in Seq(ClaimItemRow)
  BY <1>1, WeightsTyped DEF LedgerTyped
<1>3. Weighed(claimItem, w) \in Int /\ Weighed(items, w) \in Int
  BY <1>2, WeighedType
<1>4. Weighed(claimItem \o items, w) = Weighed(claimItem, w) + Weighed(items, w)
  BY <1>2, WeighedMore
<1>5. claimItem' = claimItem \o items
  BY DEF createClaim
<1> QED
  BY <1>1, <1>3, <1>4, <1>5 DEF Lost

(* The lines of the claim a receipt opens weigh what its rows lack. *)
LEMMA LossesWeigh ==
  ASSUME LedgerTyped, NEW c \in Clients, LedgerRequestOK(req[c]), req[c].kind = "receive",
         NEW a, NEW on \in BOOLEAN, on <=> ArticleOf[ShopRow(c)[2]] = a
  PROVE  Weighed(Losses(c), Claimed(a))
           = IF on THEN SumOver(ShortIn(c), RowsWith(req[c].line)) ELSE 0
<1>1. req[c].line \in DOMAIN hold
  BY DEF LedgerRequestOK
<1>2. PICK R : R = RowsWith(req[c].line)
  OBVIOUS
<1>3. R \subseteq DOMAIN hold /\ IsFiniteSet(R)
  BY <1>1, <1>2, RowsOfReport DEF LedgerTyped, HoldsTyped
<1>4. PICK G : G = ShortRows(c)
  OBVIOUS
<1>5. PICK e : e = ShortClaims(c)
  OBVIOUS
<1>6. PICK m : m = Losses(c)
  OBVIOUS
<1>7. /\ IsFiniteSet(G) /\ \A k \in G : e[k] \in ClaimItemRow
      /\ m = [i \in DOMAIN SetToSeq(G) |-> e[SetToSeq(G)[i]]]
  BY <1>4, <1>5, <1>6, LossesListed
<1>8. /\ G \subseteq R
      /\ \A k \in R : Short(c, k) \in Nat /\ (k \notin G => Short(c, k) = 0)
  <2>1. \A k \in R : Missing(c, k) \in Nat /\ req[c].damaged \in Nat
    BY <1>3, ReportTyped
  <2>2. G = {k \in R : Short(c, k) > 0}
    BY <1>2, <1>4 DEF ShortRows
  <2>3. \A k \in R : Short(c, k) \in Nat
    BY <2>1 DEF Short
  <2> QED
    BY <2>2, <2>3
<1>9. PICK w : w = Claimed(a)
  OBVIOUS
<1>10. w \in [ClaimItemRow -> Int]
  BY <1>9, WeightsTyped
<1>11. PICK g : g = [k \in G |-> IF on THEN Short(c, k) ELSE 0]
  OBVIOUS
<1>12. \A k \in G : g[k] = w[e[k]] /\ e[k] \in ClaimItemRow /\ g[k] \in Int
  <2> SUFFICES ASSUME NEW k \in G
               PROVE  g[k] = w[e[k]] /\ e[k] \in ClaimItemRow /\ g[k] \in Int
    OBVIOUS
  <2>1. e[k] \in ClaimItemRow /\ e[k] = ClaimRow(c, k)
    BY <1>4, <1>5, <1>7 DEF ShortClaims
  <2>2. w[e[k]] = IF e[k].article = a THEN e[k].missing + e[k].damaged ELSE 0
    BY <1>9, <2>1 DEF Claimed
  <2>3. /\ e[k].article = ArticleOf[ShopRow(c)[2]] /\ e[k].missing = Missing(c, k)
        /\ e[k].damaged = req[c].damaged
    BY <2>1 DEF ClaimRow
  <2>4. w[e[k]] = IF on THEN Short(c, k) ELSE 0
    BY <2>2, <2>3 DEF Short
  <2>5. Short(c, k) \in Nat
    BY <1>8
  <2> QED
    BY <1>11, <2>1, <2>4, <2>5
<1>13. Weighed(m, w) = SumOver(g, G)
  BY <1>7, <1>10, <1>12, ListWeighs
<1>14. CASE on
  <2>1. Ints(g, G)
    BY <1>12 DEF Ints
  <2>2. PICK f : f = ShortIn(c)
    OBVIOUS
  <2>3. \A k \in R : f[k] = IF k \in G THEN g[k] ELSE 0
    BY <1>2, <1>8, <1>11, <1>14, <2>2 DEF ShortIn
  <2>4. SumOver(f, R) = SumOver(g, G)
    BY <1>3, <1>8, <2>1, <2>3, SumOfSome
  <2> QED
    BY <1>2, <1>6, <1>9, <1>13, <1>14, <2>2, <2>4
<1>15. CASE ~on
  <2>1. \A k \in G : g[k] = 0
    BY <1>11, <1>15
  <2>2. SumOver(g, G) = 0
    BY <1>7, <2>1, SumOfZeros
  <2> QED
    BY <1>6, <1>9, <1>13, <1>15, <2>2
<1> QED
  BY <1>14, <1>15

LEMMA ShopEntryWeighs ==
  ASSUME LedgerTyped, NEW b \in Batches, NEW type \in {"import", "adjustment"},
         NEW change \in Int, NEW m, m = <<Entry(<<"shop", b>>, type, change, 0)>>
  PROVE  /\ m \in Entries /\ \A i \in DOMAIN m : m[i].type # "adjust_loss"
         /\ \A a : Weighed(m, Departed(a)) = IF ArticleOf[b] = a THEN change ELSE 0
<1>1. PICK e : e = Entry(<<"shop", b>>, type, change, 0)
  OBVIOUS
<1>2. "shop" \in Places /\ type \in TransactionType /\ 0 \in Nat
  BY DEF Places, TransactionType
<1>3. e \in TransactionRow /\ e.at = "shop" /\ e.batch = b /\ e.type = type /\ e.change = change
  BY <1>1, <1>2, EntryTyped
<1>4. m = <<e>> /\ DOMAIN m = {1} /\ m[1] = e
  BY <1>1
<1>5. m \in Entries
  BY <1>3, <1>4 DEF Entries
<1>6. ASSUME NEW a PROVE Weighed(m, Departed(a)) = IF ArticleOf[b] = a THEN change ELSE 0
  <2>1. PICK w : w = Departed(a)
    OBVIOUS
  <2>2. w \in [TransactionRow -> Int]
    BY <2>1, WeightsTyped
  <2>3. Weighed(<<e>>, w) = w[e]
    BY <1>3, <2>2, WeighedOne
  <2>4. w[e] = IF ArticleOf[b] = a THEN change ELSE 0
    BY <1>3, <2>1 DEF Departed, Moved
  <2> QED
    BY <1>4, <2>1, <2>3, <2>4
<1> QED
  BY <1>3, <1>4, <1>5, <1>6

(* Rows on the road are received. *)
LEMMA RowsArrive ==
  ASSUME LedgerTyped, NEW R \in SUBSET DOMAIN hold, RowsReceived(R), NEW a,
         NEW T, T = {k \in R : hold[k].status = "in_transit"}
  PROVE  Rolling(a)' = Rolling(a) - SumOver(Freight(a), T)
<1>1. /\ HoldStep /\ DOMAIN hold' = DOMAIN hold
      /\ \A k \in DOMAIN hold \ R : hold'[k] = hold[k]
      /\ \A k \in R : hold'[k].status = "completed"
  BY RowsCompleted DEF LedgerTyped, HoldsTyped
<1>2. PICK P : P = {k \in DOMAIN hold : hold[k].status = "in_transit"}
  OBVIOUS
<1>3. PICK Q : Q = P \ R
  OBVIOUS
<1>4. PICK l : l = hold'
  OBVIOUS
<1>5. PICK f : f = Freight(a)
  OBVIOUS
<1>6. PICK w : w = OnRoad(a)
  OBVIOUS
<1>7. w \in [HoldRow -> Int] /\ l \in Seq(HoldRow)
  BY <1>1, <1>4, <1>6, WeightsTyped DEF HoldStep
<1>8. \A k \in DOMAIN l : l[k] \in HoldRow
  BY <1>7, ElementsTyped
<1>9. Q \subseteq DOMAIN l /\ \A k \in DOMAIN l : w[l[k]] = IF k \in Q THEN f[k] ELSE 0
  <2>1. ASSUME NEW k \in DOMAIN l PROVE w[l[k]] = IF k \in Q THEN f[k] ELSE 0
    <3>1. k \in DOMAIN hold /\ l[k] \in HoldRow
      BY <1>1, <1>4, <1>8
    <3>2. w[l[k]] = IF l[k].status = "in_transit" /\ ArticleOf[l[k].batch] = a
                    THEN l[k].quantity ELSE 0
      BY <1>6, <3>1 DEF OnRoad
    <3>3. f[k] = IF ArticleOf[hold[k].batch] = a THEN hold[k].quantity ELSE 0
      BY <1>5, <3>1 DEF Freight
    <3>4. CASE k \in R
      BY <1>1, <1>3, <1>4, <3>1, <3>2, <3>4
    <3>5. CASE k \notin R
      BY <1>1, <1>2, <1>3, <1>4, <3>1, <3>2, <3>3, <3>5
    <3> QED
      BY <3>4, <3>5
  <2>2. Q \subseteq DOMAIN l
    BY <1>1, <1>2, <1>3, <1>4
  <2> QED
    BY <2>1, <2>2
<1>10. SumOver(f, Q) = Weighed(l, w)
  BY <1>7, <1>9, WeighedSome
<1>11. Q \cup T = P /\ Q \cap T = {} /\ Q \in SUBSET DOMAIN hold /\ T \in SUBSET DOMAIN hold
  BY <1>2, <1>3
<1>12. /\ IsFiniteSet(Q) /\ Ints(f, Q) /\ SumOver(f, Q) \in Int
       /\ IsFiniteSet(T) /\ Ints(f, T) /\ SumOver(f, T) \in Int
  BY <1>5, <1>11, FreightTyped
<1>13. SumOver(f, Q \cup T) = SumOver(f, Q) + SumOver(f, T)
  BY <1>11, <1>12, SumUnion
<1>14. SumOver(f, P) = SumOver(f, Q) + SumOver(f, T)
  BY <1>11, <1>13
<1>15. Rolling(a) = SumOver(f, P)
  BY <1>2, <1>5, FreightRolls
<1>16. Rolling(a)' = SumOver(f, Q)
  BY <1>4, <1>6, <1>10 DEF Rolling
<1> QED
  BY <1>5, <1>12, <1>14, <1>15, <1>16

LEMMA WeighTyped ==
  ASSUME LedgerTyped, NEW a
  PROVE  Gone(a) \in Int /\ Rolling(a) \in Int /\ Lost(a) \in Int
BY WeightsTyped, WeighedType DEF Gone, Rolling, Lost, LedgerTyped, HoldsTyped, Entries

(* A receipt counts every row at least in full; and no more, when the report  *)
(* speaks of one row.                                                      *)
LEMMA RowsCounted ==
  ASSUME LedgerTyped, NEW c \in Clients, LedgerRequestOK(req[c]), req[c].kind = "receive",
         NEW R, R = RowsWith(req[c].line)
  PROVE  /\ R \subseteq DOMAIN hold /\ IsFiniteSet(R)
         /\ \A k \in R : /\ Good(c, k) \in Nat /\ Short(c, k) \in Nat
                         /\ hold[k].quantity \in Nat
                         /\ hold[k].quantity <= Good(c, k) + Short(c, k)
         /\ R = {req[c].line} =>
              \A k \in R : Good(c, k) + Short(c, k) = hold[k].quantity
<1>1. req[c].line \in DOMAIN hold /\ ReportOK(req[c])
  BY DEF LedgerRequestOK
<1>2. R \subseteq DOMAIN hold /\ IsFiniteSet(R)
  BY <1>1, RowsOfReport DEF LedgerTyped, HoldsTyped
<1>3. \A k \in DOMAIN hold : hold[k].quantity \in Nat
  BY HoldFacts DEF LedgerTyped, HoldsTyped
<1>4. ASSUME NEW k \in R
      PROVE  /\ Good(c, k) \in Nat /\ Short(c, k) \in Nat
             /\ hold[k].quantity <= Good(c, k) + Short(c, k)
             /\ R = {req[c].line} => Good(c, k) + Short(c, k) = hold[k].quantity
  <2>1. Good(c, k) \in Nat /\ Missing(c, k) \in Nat /\ req[c].damaged \in Nat
    BY <1>2, ReportTyped
  <2>2. Short(c, k) = Missing(c, k) + req[c].damaged /\ hold[k].quantity \in Nat
    BY <1>2, <1>3 DEF Short
  <2>3. CASE req[c].listed
    <3>1. /\ Good(c, k) = req[c].actual - req[c].damaged /\ req[c].actual \in Nat
          /\ Missing(c, k) = Maximum(0, hold[k].quantity - req[c].actual)
      BY <1>1, <2>3 DEF Good, Missing, ReportOK
    <3>2. R = {req[c].line} => req[c].actual <= hold[k].quantity
      BY <1>1, <2>3 DEF ReportOK
    <3> QED
      BY <2>1, <2>2, <3>1, <3>2 DEF Maximum
  <2>4. CASE ~req[c].listed
    <3>1. Good(c, k) = hold[k].quantity /\ Missing(c, k) = 0 /\ req[c].damaged = 0
      BY <1>1, <2>4 DEF Good, Missing, ReportOK
    <3> QED
      BY <2>1, <2>2, <3>1
  <2> QED
    BY <1>1, <2>3, <2>4 DEF ReportOK
<1> QED
  BY <1>2, <1>3, <1>4

(* A report of one row, received for the first time. *)
LEMMA FirstReceipt ==
  ASSUME LedgerTyped, NEW i \in DOMAIN hold, hold[i].status \in Out, HoldsLeft,
         NEW R, R = RowsWith(i), RowsReceived(R), CreditedOnce'
  PROVE  /\ CreditedOnce /\ R = {i} /\ hold[i].status = "in_transit"
<1>1. R \subseteq DOMAIN hold /\ i \in R
  BY RowsOfReport DEF LedgerTyped, HoldsTyped
<1>2. /\ HoldStep /\ DOMAIN hold' = DOMAIN hold
      /\ \A k \in DOMAIN hold \ R : hold'[k] = hold[k]
      /\ \A k \in R : hold'[k].receipts = hold[k].receipts + 1
  BY <1>1, RowsCompleted DEF LedgerTyped, HoldsTyped
<1>3. \A k \in DOMAIN hold : hold[k].receipts \in Nat
  BY HoldFacts DEF LedgerTyped, HoldsTyped
<1>4. hold'[i].receipts <= 1 /\ (hold'[i].receipts = 1 => RowsWith(i)' = {i})
  BY <1>2 DEF CreditedOnce
<1>5. hold[i].receipts = 0 /\ hold'[i].receipts = 1
  BY <1>1, <1>2, <1>3, <1>4
<1>6. R \subseteq RowsWith(i)'
  BY <1>2 DEF HoldStep, RowsWith
<1>7. R = {i}
  BY <1>1, <1>4, <1>5, <1>6
<1>8. hold[i].status = "in_transit"
  BY <1>5 DEF HoldsLeft, Out
<1>9. \A k \in DOMAIN hold : k # i => RowsWith(k) \subseteq RowsWith(k)'
  BY <1>2 DEF HoldStep, RowsWith
<1>10. CreditedOnce
  <2> SUFFICES ASSUME NEW k \in DOMAIN hold
               PROVE  hold[k].receipts <= 1 /\ (hold[k].receipts = 1 => RowsWith(k) = {k})
    BY DEF CreditedOnce
  <2>1. CASE k = i
    BY <1>5, <2>1
  <2>2. CASE k # i
    <3>1. hold'[k].receipts = hold[k].receipts
      BY <1>2, <1>7, <2>2
    <3>2. hold'[k].receipts <= 1 /\ (hold'[k].receipts = 1 => RowsWith(k)' = {k})
      BY <1>2 DEF CreditedOnce
    <3>3. k \in RowsWith(k)
      BY DEF RowsWith
    <3> QED
      BY <1>9, <2>2, <3>1, <3>2, <3>3
  <2> QED
    BY <2>1, <2>2
<1> QED
  BY <1>7, <1>8, <1>10

LEMMA ReceiptBalance ==
  ASSUME LedgerTyped, NEW c \in Clients, LedgerRequestOK(req[c]), receiveShipment(c), NEW a,
         NEW R, R = RowsWith(req[c].line),
         NEW T, T = {k \in R : hold[k].status = "in_transit"}
  PROVE  /\ Balance(a) \in Int /\ Balance(a)' \in Int /\ Balance(a) <= Balance(a)'
         /\ R = {req[c].line} /\ T = R => Balance(a)' = Balance(a)
<1>1. req[c].kind = "receive"
  BY DEF receiveShipment, At
<1>2. PICK b \in Batches : ShopRow(c) = <<"shop", b>>
  BY <1>1, RowOfShop
<1>3. PICK on \in BOOLEAN : on <=> ArticleOf[b] = a
  OBVIOUS
<1>4. /\ R \subseteq DOMAIN hold /\ IsFiniteSet(R)
      /\ \A k \in R : /\ Good(c, k) \in Nat /\ Short(c, k) \in Nat
                      /\ hold[k].quantity \in Nat
                      /\ hold[k].quantity <= Good(c, k) + Short(c, k)
      /\ R = {req[c].line} => \A k \in R : Good(c, k) + Short(c, k) = hold[k].quantity
  BY <1>1, RowsCounted
<1>5. /\ ledger' = ledger \o Imports(c) /\ createClaim(Losses(c)) /\ RowsReceived(R)
  BY DEF receiveShipment, createInventoryTransaction, RowsReceived
<1>6. PICK m : m = Imports(c)
  OBVIOUS
<1>7. m \in Entries
  BY <1>1, <1>6, ImportsTyped
<1>8. PICK good, short : good = SumOver(GoodIn(c), R) /\ short = SumOver(ShortIn(c), R)
  OBVIOUS
<1>9. Gone(a)' = Gone(a) + (IF on THEN good ELSE 0)
  <2>1. Gone(a)' = Gone(a) + Weighed(m, Departed(a))
    BY <1>5, <1>6, <1>7, GoneMore
  <2>2. PICK w : w = Departed(a)
    OBVIOUS
  <2>3. w \in [TransactionRow -> Int]
    BY <2>2, WeightsTyped
  <2>4. "shop" \in Places /\ "import" \in TransactionType
    BY DEF Places, TransactionType
  <2>5. \A q \in Nat : w[Entry(ShopRow(c), "import", q, 0)] = IF on THEN q ELSE 0
    <3> SUFFICES ASSUME NEW q \in Nat
                 PROVE  w[Entry(ShopRow(c), "import", q, 0)] = IF on THEN q ELSE 0
      OBVIOUS
    <3>1. PICK e : e = Entry(<<"shop", b>>, "import", q, 0)
      OBVIOUS
    <3>2. q \in Int /\ 0 \in Nat
      OBVIOUS
    <3>3. /\ e \in TransactionRow /\ e.at = "shop" /\ e.batch = b /\ e.type = "import"
          /\ e.change = q
      BY <2>4, <3>1, <3>2, EntryTyped
    <3>4. w[e] = IF ArticleOf[b] = a THEN q ELSE 0
      BY <2>2, <3>3 DEF Departed, Moved
    <3> QED
      BY <1>2, <1>3, <3>1, <3>4
  <2>6. Weighed(m, w) = IF on THEN AllGood(c) ELSE 0
    BY <1>1, <1>6, <2>3, <2>5, ImportsWeigh
  <2>7. AllGood(c) = good
    BY <1>1, <1>8, ReportTyped
  <2> QED
    BY <2>1, <2>2, <2>6, <2>7
<1>10. Lost(a)' = Lost(a) + (IF on THEN short ELSE 0)
  <2>1. Losses(c) \in Seq(ClaimItemRow)
    BY <1>1, LossesTyped
  <2>2. Lost(a)' = Lost(a) + Weighed(Losses(c), Claimed(a))
    BY <1>5, <2>1, ClaimWeighs
  <2>3. on <=> ArticleOf[ShopRow(c)[2]] = a
    BY <1>2, <1>3
  <2>4. Weighed(Losses(c), Claimed(a))
          = IF on THEN SumOver(ShortIn(c), RowsWith(req[c].line)) ELSE 0
    BY <1>1, <2>3, LossesWeigh
  <2> QED
    BY <1>8, <2>2, <2>4
<1>11. PICK f : f = Freight(a)
  OBVIOUS
<1>12. PICK away : away = SumOver(f, T)
  OBVIOUS
<1>13. Rolling(a)' = Rolling(a) - away
  BY <1>4, <1>5, <1>11, <1>12, RowsArrive
<1>14. \A k \in R : f[k] = IF on THEN hold[k].quantity ELSE 0
  <2>1. \A k \in R : hold[k].batch = b
    <3>1. req[c].line \in DOMAIN hold
      BY <1>1 DEF LedgerRequestOK
    <3>2. \A k \in R : hold[k].batch = hold[req[c].line].batch
      BY <3>1, RowsOfReport DEF LedgerTyped, HoldsTyped
    <3>3. hold[req[c].line].batch = b
      BY <1>2 DEF ShopRow
    <3> QED
      BY <3>2, <3>3
  <2> QED
    BY <1>3, <1>4, <1>11, <2>1 DEF Freight
<1>15. T \subseteq R /\ T \in SUBSET DOMAIN hold
  BY <1>4
<1>16. IsFiniteSet(T) /\ Ints(f, T) /\ away \in Int
  BY <1>11, <1>12, <1>15, FreightTyped
<1>17. PICK g : g = GoodIn(c)
  OBVIOUS
<1>18. PICK h : h = ShortIn(c)
  OBVIOUS
<1>19. PICK both : both = [k \in R |-> Good(c, k) + Short(c, k)]
  OBVIOUS
<1>20. /\ Ints(g, R) /\ Ints(h, R) /\ Ints(both, R)
       /\ \A k \in R : both[k] = g[k] + h[k] /\ both[k] = Good(c, k) + Short(c, k)
  BY <1>4, <1>17, <1>18, <1>19 DEF Ints, GoodIn, ShortIn
<1>21. SumOver(both, R) = good + short /\ good \in Int /\ short \in Int
  BY <1>4, <1>8, <1>17, <1>18, <1>20, SumOfSums, SumType
<1>22. PICK road : road = [k \in R |-> IF k \in T THEN f[k] ELSE 0]
  OBVIOUS
<1>23. SumOver(road, R) = away
  BY <1>4, <1>12, <1>15, <1>16, <1>22, SumOfSome
<1>24. Gone(a) \in Int /\ Rolling(a) \in Int /\ Lost(a) \in Int
  BY WeighTyped
<1>25. CASE on
  <2>1. Ints(road, R) /\ \A k \in R : road[k] <= both[k]
    BY <1>4, <1>14, <1>20, <1>22, <1>25 DEF Ints
  <2>2. away <= good + short
    BY <1>4, <1>20, <1>21, <1>23, <2>1, SumsCompare
  <2>3. ASSUME R = {req[c].line}, T = R PROVE away = good + short
    <3>1. \A k \in R : road[k] = both[k]
      BY <1>4, <1>14, <1>20, <1>22, <1>25, <2>3
    <3>2. SumOver(road, R) = SumOver(both, R)
      BY <1>4, <3>1, SumSame
    <3> QED
      BY <1>21, <1>23, <3>2
  <2> QED
    BY <1>9, <1>10, <1>13, <1>16, <1>21, <1>24, <1>25, <2>2, <2>3 DEF Balance
<1>26. CASE ~on
  <2>1. \A k \in T : f[k] = 0
    BY <1>14, <1>15, <1>26
  <2>2. away = 0
    BY <1>12, <1>16, <2>1, SumOfZeros
  <2> QED
    BY <1>9, <1>10, <1>13, <1>24, <1>26, <2>2 DEF Balance
<1> QED
  BY <1>25, <1>26

LEMMA ReceiptRoads ==
  ASSUME LedgerTyped, NEW c \in Clients, LedgerRequestOK(req[c]), LeavesOnce(req[c]),
         receiveShipment(c), RoadInv
  PROVE  RoadInv' /\ LinesStayOut
<1>1. req[c].kind = "receive"
  BY DEF receiveShipment, At
<1>2. PICK i : i = req[c].line
  OBVIOUS
<1>3. i \in DOMAIN hold /\ hold[i].status \in Out
  BY <1>1, <1>2 DEF LeavesOnce, LedgerRequestOK
<1>4. PICK R : R = RowsWith(i)
  OBVIOUS
<1>5. R \subseteq DOMAIN hold /\ i \in R
  BY <1>3, <1>4, RowsOfReport DEF LedgerTyped, HoldsTyped
<1>6. RowsReceived(R) /\ ledger' = ledger \o Imports(c)
  BY <1>2, <1>4 DEF receiveShipment, createInventoryTransaction, RowsReceived
<1>7. /\ DOMAIN hold' = DOMAIN hold
      /\ \A k \in DOMAIN hold \ R : hold'[k] = hold[k]
      /\ \A k \in R : hold'[k].status = "completed" /\ hold'[k].receipts = hold[k].receipts + 1
  BY <1>5, <1>6, RowsCompleted DEF LedgerTyped, HoldsTyped
<1>8. LossesAreNegative'
  <2>1. PICK m : m = Imports(c)
    OBVIOUS
  <2>2. m \in Entries /\ \A k \in DOMAIN m : m[k].type = "import"
    BY <1>1, <2>1, ImportsTyped
  <2>3. ledger' = ledger \o m /\ \A k \in DOMAIN m : m[k].type # "adjust_loss"
    BY <1>6, <2>1, <2>2
  <2> QED
    BY <2>2, <2>3, LossesMore DEF RoadInv
<1>9. HoldsLeft' /\ LinesStayOut
  <2>1. \A k \in DOMAIN hold : hold[k].receipts \in Nat
    BY HoldFacts DEF LedgerTyped, HoldsTyped
  <2>2. ASSUME NEW k \in DOMAIN hold', hold'[k].status = "completed"
        PROVE  hold'[k].receipts >= 1
    BY <1>5, <1>7, <2>1, <2>2 DEF RoadInv, HoldsLeft
  <2>3. LinesStayOut
    BY <1>5, <1>7 DEF LinesStayOut, Out
  <2> QED
    BY <2>2, <2>3 DEF HoldsLeft
<1>10. PICK T : T = {k \in R : hold[k].status = "in_transit"}
  OBVIOUS
<1>11. ASSUME NEW a \in Articles
       PROVE  Balance(a)' >= 0 /\ (CreditedOnce' => Balance(a)' = 0)
  <2>1. /\ Balance(a) \in Int /\ Balance(a)' \in Int /\ Balance(a) <= Balance(a)'
        /\ R = {i} /\ T = R => Balance(a)' = Balance(a)
    BY <1>2, <1>4, <1>10, ReceiptBalance
  <2>2. Balance(a) >= 0 /\ (CreditedOnce => Balance(a) = 0)
    BY DEF RoadInv, RoadBalances
  <2>3. ASSUME CreditedOnce' PROVE Balance(a)' = 0
    <3>1. CreditedOnce /\ R = {i} /\ hold[i].status = "in_transit"
      BY <1>3, <1>4, <1>6, <2>3, FirstReceipt DEF RoadInv
    <3>2. T = R
      BY <1>10, <3>1
    <3> QED
      BY <2>1, <2>2, <3>1, <3>2
  <2> QED
    BY <2>1, <2>2, <2>3
<1>12. RoadBalances'
  BY <1>11 DEF RoadBalances
<1> QED
  BY <1>8, <1>9, <1>12 DEF RoadInv

LEMMA ClaimRoads ==
  ASSUME LedgerTyped, NEW c \in Clients, LedgerRequestOK(req[c]), createManualClaim(c), RoadInv
  PROVE  RoadInv' /\ LinesStayOut
<1>1. req[c].kind = "claim"
  BY DEF createManualClaim, At
<1>2. req[c].missing \in Nat /\ req[c].damaged \in Nat
  BY <1>1 DEF LedgerRequestOK
<1>3. PICK b \in Batches : ShopRow(c) = <<"shop", b>>
  BY <1>1, RowOfShop
<1>4. PICK lost : lost = req[c].missing + req[c].damaged
  OBVIOUS
<1>5. PICK m : m = <<Entry(<<"shop", b>>, "adjustment", 0 - lost, 0)>>
  OBVIOUS
<1>6. PICK row : row = [article |-> ArticleOf[b], missing |-> req[c].missing,
                        damaged |-> req[c].damaged]
  OBVIOUS
<1>7. hold' = hold /\ createClaim(<<row>>) /\ ledger' = ledger \o m
  BY <1>3, <1>4, <1>5, <1>6 DEF createManualClaim, createInventoryTransaction
<1>8. lost \in Nat /\ 0 - lost \in Int
  BY <1>2, <1>4
<1>9. /\ m \in Entries /\ \A k \in DOMAIN m : m[k].type # "adjust_loss"
      /\ \A a : Weighed(m, Departed(a)) = IF ArticleOf[b] = a THEN 0 - lost ELSE 0
  BY <1>5, <1>8, ShopEntryWeighs
<1>10. LossesAreNegative'
  BY <1>7, <1>9, LossesMore DEF RoadInv
<1>11. HoldsLeft' /\ LinesStayOut /\ (CreditedOnce' => CreditedOnce)
  BY <1>7 DEF RoadInv, HoldsLeft, LinesStayOut, CreditedOnce, RowsWith
<1>12. ASSUME NEW a \in Articles PROVE Balance(a)' = Balance(a)
  <2>1. Gone(a)' = Gone(a) + (IF ArticleOf[b] = a THEN 0 - lost ELSE 0)
    <3>1. Gone(a)' = Gone(a) + Weighed(m, Departed(a))
      BY <1>7, <1>9, GoneMore
    <3> QED
      BY <1>9, <3>1
  <2>2. Rolling(a)' = Rolling(a)
    BY <1>7 DEF Rolling
  <2>3. Lost(a)' = Lost(a) + (IF ArticleOf[b] = a THEN lost ELSE 0)
    <3>1. PICK w : w = Claimed(a)
      OBVIOUS
    <3>2. w \in [ClaimItemRow -> Int] /\ row \in ClaimItemRow
      BY <1>2, <1>6, <3>1, WeightsTyped, ClaimRowTyped
    <3>3. <<row>> \in Seq(ClaimItemRow) /\ Weighed(<<row>>, w) = w[row]
      BY <3>2, WeighedOne
    <3>4. w[row] = IF ArticleOf[b] = a THEN lost ELSE 0
      BY <1>4, <1>6, <3>1, <3>2 DEF Claimed
    <3>5. Lost(a)' = Lost(a) + Weighed(<<row>>, w)
      BY <1>7, <3>1, <3>3, ClaimWeighs
    <3> QED
      BY <3>3, <3>4, <3>5
  <2>4. Gone(a) \in Int /\ Rolling(a) \in Int /\ Lost(a) \in Int
    BY WeighTyped
  <2> QED
    BY <1>8, <2>1, <2>2, <2>3, <2>4 DEF Balance
<1>13. RoadBalances'
  BY <1>11, <1>12, BalanceKept DEF RoadInv
<1> QED
  BY <1>10, <1>11, <1>13 DEF RoadInv

-----------------------------------------------------------------------------
(* The invariant of the reports, and the steps that keep it. *)
ReportInv == RoadInv /\ \A c \in Clients : ReaderOK(req[c]) /\ LeavesOnce(req[c])

Answered == \A d \in Clients : req'[d] = req[d] \/ (ReaderOK(req[d])' /\ LeavesOnce(req[d])')

LEMMA ReportsFollow ==
  ASSUME LedgerInv, LedgerTyped', ReportInv, RoadInv', LinesStayOut, RowsGrow, Answered
  PROVE  ReportInv'
<1>1. ASSUME NEW d \in Clients PROVE ReaderOK(req[d])' /\ LeavesOnce(req[d])'
  <2>1. PICK r : r = req[d]
    OBVIOUS
  <2>2. LedgerTyped /\ LedgerRequestOK(r) /\ ReaderOK(r) /\ LeavesOnce(r)
    BY <2>1 DEF LedgerInv, ReportInv
  <2>3. ReaderOK(r)'
    BY <2>2, ReaderStays
  <2>4. LeavesOnce(r)'
    BY <2>2 DEF LeavesOnce, LedgerRequestOK, LinesStayOut
  <2>5. CASE req'[d] = req[d]
    BY <2>1, <2>3, <2>4, <2>5 DEF ReaderOK, LeavesOnce
  <2> QED
    BY <2>5 DEF Answered
<1> QED
  BY <1>1 DEF ReportInv

LEMMA RowsGrowByTheLedger ==
  ASSUME LedgerTyped, LedgerStep
  PROVE  RowsGrow
<1>1. PICK m : BooksStep(m)
  BY DEF LedgerStep
<1>2. m \in Entries /\ ledger \in Entries /\ ledger' = ledger \o m
  BY <1>1 DEF BooksStep, LedgerTyped
<1>3. DOMAIN ledger \subseteq DOMAIN ledger' /\ \A i \in DOMAIN ledger : ledger'[i] = ledger[i]
  BY <1>2 DEF Entries
<1> QED
  BY <1>3 DEF RowsGrow, LedgerStep, InventoryStep

LEMMA TablesStand ==
  ASSUME RoadInv, UNCHANGED ledgerVars
  PROVE  RoadInv' /\ LinesStayOut /\ RowsGrow
<1>1. ledger' = ledger /\ hold' = hold /\ claimItem' = claimItem /\ inventory' = inventory
  BY DEF ledgerVars
<1>2. \A a : Gone(a)' = Gone(a) /\ Rolling(a)' = Rolling(a) /\ Lost(a)' = Lost(a)
  BY <1>1 DEF Gone, Rolling, Lost
<1>3. LossesAreNegative' /\ HoldsLeft' /\ (CreditedOnce' => CreditedOnce)
  BY <1>1 DEF RoadInv, LossesAreNegative, HoldsLeft, CreditedOnce, RowsWith
<1>4. RoadBalances'
  BY <1>2, <1>3, BalanceKept DEF RoadInv, Balance
<1> QED
  BY <1>1, <1>3, <1>4 DEF RoadInv, LinesStayOut, RowsGrow

LEMMA LedgerNextReports ==
  ASSUME LedgerInv, LedgerInv', RequestsTyped, ReportInv, LedgerNext
  PROVE  ReportInv'
<1>1. /\ LedgerTyped /\ LedgerTyped' /\ RoadInv /\ served \in Scenarios
      /\ \A c \in Clients : LedgerRequestOK(req[c]) /\ LeavesOnce(req[c])
  BY DEF LedgerInv, ReportInv
<1>2. ASSUME LedgerStep, RoadInv', LinesStayOut, Answered PROVE ReportInv'
  BY <1>1, <1>2, RowsGrowByTheLedger, ReportsFollow
<1>3. ASSUME UNCHANGED ledgerVars, Answered PROVE ReportInv'
  BY <1>1, <1>3, TablesStand, ReportsFollow
<1>4. ASSUME req' = req PROVE Answered
  BY <1>4 DEF Answered
<1>5. ASSUME NEW c \in Clients, Done(c) PROVE Answered
  <2>1. \A d \in Clients : req'[d] = req[d] \/ req'[d].kind = "idle"
    BY <1>5 DEF Done, RequestsTyped, Idle
  <2> QED
    BY <2>1 DEF Answered, ReaderOK, LeavesOnce, Lists
<1>6. ASSUME LedgerStep, QuietStep, req' = req PROVE ReportInv'
  BY <1>1, <1>2, <1>4, <1>6, QuietRoads
<1>7. ASSUME NEW c \in Clients, req'[c].kind \notin Lists, LeavesOnce(req[c])',
             \A d \in Clients \ {c} : req'[d] = req[d]
      PROVE  Answered
  BY <1>7 DEF Answered, ReaderOK
<1>8. ASSUME NEW b \in Deliveries, NEW n \in ImportAmounts, import(b, n) PROVE ReportInv'
  <2>1. req' = req
    BY <1>8 DEF import, Immediate
  <2> QED
    BY <1>1, <1>6, <1>8, <2>1, ImportKeeps
<1>9. ASSUME NEW a \in Articles, NEW n \in OrderAmounts, NEW m \in SecondAmounts(served),
             lockStockForOrder(a, n, m)
      PROVE  ReportInv'
  <2>0. m \in Nat
    BY <1>1, LedgerAssumption
  <2>1. req' = req
    BY <1>9 DEF lockStockForOrder, Immediate
  <2> QED
    BY <1>1, <1>6, <1>9, <2>0, <2>1, ReserveKeeps
<1>10. ASSUME NEW a \in Articles, NEW n \in OrderAmounts, startProduction(a, n)
       PROVE  ReportInv'
  <2>1. req' = req
    BY <1>10 DEF startProduction, Immediate
  <2> QED
    BY <1>1, <1>6, <1>10, <2>1, StartProductionKeeps
<1>11. \A order \in {hold[i].order : i \in DOMAIN hold} : order \in Nat
  BY <1>1, HoldFacts DEF LedgerTyped, HoldsTyped
<1>12. ASSUME NEW order \in Nat, releaseStock(order) PROVE ReportInv'
  <2>1. req' = req
    BY <1>12 DEF releaseStock, Immediate
  <2> QED
    BY <1>1, <1>6, <1>12, <2>1, ReleaseKeeps
<1>13. ASSUME NEW order \in Nat, export(order) PROVE ReportInv'
  <2>1. req' = req
    BY <1>13 DEF export, Immediate
  <2> QED
    BY <1>1, <1>2, <1>4, <1>13, <2>1, ExportKeeps, ExportRoads
<1>14. ASSUME NEW order \in Nat, NEW b \in Batches, NEW n \in CountedAmounts,
              finishProduction(order, b, n)
       PROVE  ReportInv'
  <2>1. req' = req
    BY <1>14 DEF finishProduction, Immediate
  <2> QED
    BY <1>1, <1>6, <1>14, <2>1, FinishProductionKeeps
<1>15. ASSUME NEW b \in Batches, NEW n \in CountedAmounts, adjustKitchenInventory(b, n)
       PROVE  ReportInv'
  <2>1. req' = req
    BY <1>15 DEF adjustKitchenInventory, Immediate
  <2> QED
    BY <1>1, <1>6, <1>15, <2>1, AdjustKeeps
<1>16. ASSUME NEW b \in Batches, NEW n \in CountedAmounts,
              NEW status \in {batchStatus[b], "active"}, correctBatch(b, n, status)
       PROVE  ReportInv'
  <2>1. req' = req
    BY <1>16 DEF correctBatch, Immediate
  <2> QED
    BY <1>1, <1>6, <1>16, <2>1, CorrectKeeps
<1>17. ASSUME NEW b \in Batches, NEW status \in {"damaged", "empty"}, reportWaste(b, status)
       PROVE  ReportInv'
  <2>1. req' = req
    BY <1>17 DEF reportWaste, Immediate
  <2> QED
    BY <1>1, <1>6, <1>17, <2>1, WasteKeeps
<1>18. ASSUME nextDay PROVE ReportInv'
  <2>1. req' = req
    BY <1>18 DEF nextDay, Immediate
  <2> QED
    BY <1>1, <1>6, <1>18, <2>1, NextDayKeeps
<1>19. ASSUME runAutoExpireExpiredBatches PROVE ReportInv'
  <2>1. req' = req
    BY <1>19 DEF runAutoExpireExpiredBatches, Immediate
  <2> QED
    BY <1>1, <1>6, <1>19, <2>1, ExpireKeeps
<1>21. ASSUME NEW c \in Clients, NEW i \in DOMAIN hold, NEW listed, NEW m, NEW d,
              ArriveReceipt(c, i, listed, m, d)
       PROVE  ReportInv'
  <2>1. UNCHANGED ledgerVars /\ hold' = hold /\ hold[i].status = "in_transit"
    BY <1>21 DEF ArriveReceipt, ledgerVars
  <2>2. /\ req'[c] = [kind |-> "receive", step |-> "select", line |-> i, listed |-> listed,
                      actual |-> IF listed THEN Sent(i) - m ELSE 0, damaged |-> d]
        /\ \A k \in Clients \ {c} : req'[k] = req[k]
    BY <1>21 DEF ArriveReceipt, Becomes, RequestsTyped
  <2>3. LeavesOnce(req[c])' /\ req'[c].kind \notin Lists
    BY <2>1, <2>2 DEF LeavesOnce, Out, Lists
  <2> QED
    BY <1>3, <1>7, <2>1, <2>2, <2>3
<1>22. ASSUME NEW c \in Clients, NEW i \in DOMAIN hold, NEW m, NEW d, ArriveClaim(c, i, m, d)
       PROVE  ReportInv'
  <2>1. UNCHANGED ledgerVars
    BY <1>22 DEF ArriveClaim, ledgerVars
  <2>2. /\ req'[c] = [kind |-> "claim", step |-> "adjust", line |-> i, missing |-> m,
                      damaged |-> d]
        /\ \A k \in Clients \ {c} : req'[k] = req[k]
    BY <1>22 DEF ArriveClaim, Becomes, RequestsTyped
  <2>3. LeavesOnce(req[c])' /\ req'[c].kind \notin Lists
    BY <2>2 DEF LeavesOnce, Lists
  <2> QED
    BY <1>3, <1>7, <2>1, <2>2, <2>3
<1>23. ASSUME NEW c \in Clients, selectShopRow(c) PROVE ReportInv'
  <2>1. UNCHANGED ledgerVars /\ hold' = hold
    BY <1>23 DEF selectShopRow, ledgerVars
  <2>2. PICK q : q = RowOf(ShopRow(c)).quantity
    OBVIOUS
  <2>3. PICK found : found = Stocked(ShopRow(c))
    OBVIOUS
  <2>4. /\ req'[c] = [kind |-> "receive", step |-> "write", line |-> req[c].line,
                      listed |-> req[c].listed, actual |-> req[c].actual,
                      damaged |-> req[c].damaged,
                      found |-> Stocked(ShopRow(c)), quantity |-> q]
        /\ \A k \in Clients \ {c} : req'[k] = req[k]
    BY <1>23, <2>2 DEF selectShopRow, RequestsTyped
  <2>5. req[c].kind = "receive" /\ LeavesOnce(req[c])
    BY <1>1, <1>23 DEF selectShopRow, At
  <2>6. req'[c].kind = "receive" /\ req'[c].line = req[c].line
    BY <2>4
  <2>7. LeavesOnce(req[c])' /\ req'[c].kind \notin Lists
    BY <2>1, <2>5, <2>6 DEF LeavesOnce, Lists
  <2> QED
    BY <1>3, <1>7, <2>1, <2>4, <2>7
<1>24. ASSUME NEW c \in Clients, receiveShipment(c) PROVE ReportInv'
  <2>1. Done(c)
    BY <1>24 DEF receiveShipment
  <2> QED
    BY <1>1, <1>2, <1>5, <1>24, <2>1, ReceiptKeeps, ReceiptRoads
<1>25. ASSUME NEW c \in Clients, createManualClaim(c) PROVE ReportInv'
  <2>1. Done(c)
    BY <1>25 DEF createManualClaim
  <2> QED
    BY <1>1, <1>2, <1>5, <1>25, <2>1, ClaimKeeps, ClaimRoads
<1>27. ASSUME NEW order \in {hold[i].order : i \in DOMAIN hold},
              \/ releaseStock(order) \/ export(order)
              \/ \E b \in Batches \ Deliveries, n \in CountedAmounts :
                   finishProduction(order, b, n)
       PROVE  ReportInv'
  BY <1>11, <1>12, <1>13, <1>14, <1>27
<1> QED
  BY <1>8, <1>9, <1>10, <1>15, <1>16, <1>17, <1>18, <1>19, <1>21, <1>22, <1>23, <1>24, <1>25,
     <1>27 DEF LedgerNext

LEMMA ReaderNextReports ==
  ASSUME LedgerInv, LedgerTyped', RequestsTyped, ReportInv, ReaderNext
  PROVE  ReportInv'
<1>1. LedgerTyped /\ RoadInv /\ \A c \in Clients : ReaderOK(req[c])
  BY DEF LedgerInv, ReportInv
<1>2. ASSUME NEW c \in Clients, UNCHANGED ledgerVars, ReaderOK(req[c])', req'[c].kind \in Lists,
             \A d \in Clients \ {c} : req'[d] = req[d]
      PROVE  ReportInv'
  <2>1. LeavesOnce(req[c])'
    BY <1>2 DEF LeavesOnce, Lists
  <2>2. Answered
    BY <1>2, <2>1 DEF Answered
  <2> QED
    BY <1>1, <1>2, <2>2, TablesStand, ReportsFollow
<1>3. ASSUME NEW c \in Clients, NEW list \in Lists, ArriveReader(c, list) PROVE ReportInv'
  <2>1. req'[c].kind = list
    BY <1>3 DEF ArriveReader, Becomes, RequestsTyped
  <2> QED
    BY <1>1, <1>2, <1>3, <2>1, ReaderArrives
<1>4. ASSUME NEW c \in Clients, NEW list \in Lists, NextPage(c, list) PROVE ReportInv'
  <2>1. PICK seen, step : req' = [req EXCEPT ![c].page = @ + 1, ![c].seen = @ \cup seen,
                                            ![c].step = step]
    BY <1>4 DEF NextPage
  <2>2. req[c].kind = list
    BY <1>4 DEF NextPage, At
  <2>3. "kind" \in DOMAIN req[c]
    BY DEF RequestsTyped
  <2>4. req'[c].kind = req[c].kind
    BY <2>1, <2>3 DEF RequestsTyped
  <2> QED
    BY <1>1, <1>2, <1>4, <2>2, <2>4, PageIsRead
<1> QED
  BY <1>3, <1>4 DEF ReaderNext, getWarehouseInventoryTransactions, getStoreTransactions,
     getStoreInventory, Lists

LEMMA ApartFromReports ==
  ASSUME LedgerInv, LedgerTyped', ReportInv, Elsewhere(LedgerKinds), UNCHANGED ledgerVars
  PROVE  ReportInv'
<1>1. Answered
  BY DEF Elsewhere, LedgerKinds, Answered, ReaderOK, LeavesOnce, Lists
<1>2. RoadInv
  BY DEF ReportInv
<1> QED
  BY <1>1, <1>2, TablesStand, ReportsFollow

LEMMA ReportStart == Init => ReportInv
<1> SUFFICES ASSUME Init PROVE ReportInv
  OBVIOUS
<1>1. ledger = <<>> /\ hold = <<>> /\ claimItem = <<>>
  BY DEF Init, LedgerInit
<1>2. \A c \in Clients : ReaderOK(req[c]) /\ LeavesOnce(req[c])
  BY DEF Init, RequestsInit, Idle, ReaderOK, LeavesOnce, Lists
<1>3. LossesAreNegative /\ HoldsLeft
  BY <1>1 DEF LossesAreNegative, HoldsLeft
<1>4. ASSUME NEW a PROVE Balance(a) = 0
  <2>1. PICK u, v, w : u = Departed(a) /\ v = OnRoad(a) /\ w = Claimed(a)
    OBVIOUS
  <2>2. /\ u \in [TransactionRow -> Int] /\ v \in [HoldRow -> Int] /\ w \in [ClaimItemRow -> Int]
        /\ ledger \in Seq(TransactionRow) /\ hold \in Seq(HoldRow)
        /\ claimItem \in Seq(ClaimItemRow)
        /\ DOMAIN ledger = {} /\ DOMAIN hold = {} /\ DOMAIN claimItem = {}
    BY <1>1, <2>1, WeightsTyped
  <2>3. Weighed(ledger, u) = 0 /\ Weighed(hold, v) = 0 /\ Weighed(claimItem, w) = 0
    BY <2>2, WeighedNothing
  <2> QED
    BY <2>1, <2>3 DEF Gone, Rolling, Lost, Balance
<1> QED
  BY <1>2, <1>3, <1>4 DEF ReportInv, RoadInv, RoadBalances

LEMMA ReportInvariant == Spec => []ReportInv
<1>1. LedgerInv /\ LedgerInv' /\ RequestsTyped /\ ReportInv /\ [Next]_vars => ReportInv'
  <2> SUFFICES ASSUME LedgerInv, LedgerInv', RequestsTyped, ReportInv, [Next]_vars
               PROVE  ReportInv'
    OBVIOUS
  <2>0. LedgerTyped' /\ "idle" \notin LedgerKinds
    BY DEF LedgerInv, LedgerKinds
  <2>1. CASE AccountNext /\ UNCHANGED ledgerVars
    BY <2>0, <2>1, AccountWithin, WithinIsElsewhere, ApartFromReports
       DEF AccountKinds, LedgerKinds
  <2>2. CASE CatalogueNext /\ UNCHANGED ledgerVars
    BY <2>0, <2>2, CatalogueWithin, WithinIsElsewhere, ApartFromReports
       DEF CatalogueKinds, LedgerKinds
  <2>3. CASE LogisticsNext /\ UNCHANGED ledgerVars
    BY <2>0, <2>3, LogisticsWithin, WithinIsElsewhere, ApartFromReports
       DEF LogisticsKinds, LedgerKinds
  <2>4. CASE LedgerNext
    BY <2>4, LedgerNextReports
  <2>5. CASE ReaderNext
    BY <2>0, <2>5, ReaderNextReports
  <2>6. ASSUME UNCHANGED ledgerVars, \A d \in Clients : req'[d] = req[d] \/ req'[d] = Idle
        PROVE  ReportInv'
    BY <2>0, <2>6, IdlingIsElsewhere, ApartFromReports
  <2>7. CASE ConfigNext /\ UNCHANGED ledgerVars
    <3>1. CASE Within(ConfigKinds)
      BY <2>0, <2>7, <3>1, WithinIsElsewhere, ApartFromReports DEF ConfigKinds, LedgerKinds
    <3>2. CASE Restarted
      BY <2>6, <2>7, <3>2 DEF Restarted
    <3> QED
      BY <2>7, <3>1, <3>2, ConfigWithin
  <2>8. ASSUME NEW c \in Clients, Fail(c), UNCHANGED ledgerVars PROVE ReportInv'
    <3>1. \A d \in Clients : req'[d] = req[d] \/ req'[d] = Idle
      BY <2>8 DEF Fail, Abort, Done, RequestsTyped
    <3> QED
      BY <2>6, <2>8, <3>1
  <2>9. CASE UNCHANGED vars
    <3>1. UNCHANGED ledgerVars /\ \A d \in Clients : req'[d] = req[d]
      BY <2>9 DEF vars, ledgerVars
    <3> QED
      BY <2>6, <3>1
  <2> QED
    BY <2>1, <2>2, <2>3, <2>4, <2>5, <2>7, <2>8, <2>9 DEF Next
<1> QED
  BY ReportStart, <1>1, RequestsStayTyped, LedgerInvariant, PTL DEF Spec

-----------------------------------------------------------------------------
(* The books of a product.  Each sum of the reports weighs the rows of one   *)
(* table.                                                                  *)
(* The entries that moved stock at a place; of one product. *)
MovedAt(at) ==
  [e \in TransactionRow |-> IF e.at = at /\ Moved(e) THEN e.change ELSE 0]
MovedThere(at, a) ==
  [e \in TransactionRow |->
     IF e.at = at /\ Moved(e) /\ ArticleOf[e.batch] = a THEN e.change ELSE 0]
BatchOf == [e \in TransactionRow |-> e.batch]

LEMMA MovesTyped ==
  ASSUME NEW at, NEW a
  PROVE  MovedAt(at) \in [TransactionRow -> Int] /\ MovedThere(at, a) \in [TransactionRow -> Int]
<1>1. \A e \in TransactionRow : e.change \in Int
  BY DEF TransactionRow
<1> QED
  BY <1>1 DEF MovedAt, MovedThere

(* What the reports find on the shelves of a place is what was moved there.  *)
LEMMA ShelvesAreBooked ==
  ASSUME LedgerInv, NEW at \in Places, NEW a \in Articles,
         \A r \in doubtful : ArticleOf[r[2]] # a
  PROVE  getInventorySummary(at, a) = Weighed(ledger, MovedThere(at, a))
<1>1. PICK l : l = ledger
  OBVIOUS
<1>2. PICK R : R = TransactionRow
  OBVIOUS
<1>3. LedgerTyped /\ Balanced /\ ledger \in Entries /\ l \in Seq(R)
  BY <1>1, <1>2 DEF LedgerInv, LedgerTyped, Entries
<1>4. IsFiniteSet(DOMAIN l) /\ \A i \in DOMAIN l : l[i] \in R /\ l[i].batch \in Batches
  <2>1. IsFiniteSet(DOMAIN l) /\ \A i \in DOMAIN l : l[i] \in TransactionRow
    BY <1>1, <1>3, EntriesFinite
  <2> QED
    BY <1>2, <2>1 DEF TransactionRow
<1>5. PICK named : named = [i \in DOMAIN l |-> l[i].batch]
  OBVIOUS
<1>6. PICK N : N = {named[i] : i \in DOMAIN l}
  OBVIOUS
<1>7. PICK S : S = {b \in Batches : (Known(b) \/ b \in N) /\ ArticleOf[b] = a}
  OBVIOUS
<1>8. IsFiniteSet(S)
  <2>1. IsFiniteSet(N)
    <3>1. named \in Surjection(DOMAIN l, N)
      BY <1>5, <1>6 DEF Surjection
    <3> QED
      BY <1>4, <3>1, FS_Surjection
  <2>2. IsFiniteSet({b \in Batches : Known(b)})
    BY <1>3 DEF LedgerTyped, StatusTyped
  <2>3. IsFiniteSet({b \in Batches : Known(b)} \cup N)
    BY <2>1, <2>2, FS_Union
  <2>4. S \subseteq {b \in Batches : Known(b)} \cup N
    BY <1>7
  <2> QED
    BY <2>3, <2>4, FS_Subset
<1>9. PICK g : g = [b \in S |-> RowOf(<<at, b>>).quantity]
  OBVIOUS
<1>10. PICK w : w = MovedAt(at)
  OBVIOUS
<1>11. PICK key : key = BatchOf
  OBVIOUS
<1>12. PICK parts : parts = [b \in S |-> [e \in R |-> IF key[e] \in {b} THEN w[e] ELSE 0]]
  OBVIOUS
<1>13. PICK v : v = [e \in R |-> IF key[e] \in S THEN w[e] ELSE 0]
  OBVIOUS
<1>14. w \in [R -> Int]
  BY <1>2, <1>10, MovesTyped
<1>15. ASSUME NEW b \in S PROVE OfKeys(R, w, key, {b}, parts[b])
  <2>1. parts[b] = [e \in R |-> IF key[e] \in {b} THEN w[e] ELSE 0]
    BY <1>12
  <2> QED
    BY <1>14, <2>1, OfKeysExists
<1>16. OfKeys(R, w, key, S, v)
  BY <1>13, <1>14, OfKeysExists
<1>17. ASSUME NEW b \in S PROVE g[b] = Weighed(l, parts[b])
  <2>1. b \in Batches /\ ArticleOf[b] = a
    BY <1>7
  <2>2. <<at, b>> \in (Places \X Batches) \ doubtful
    <3>1. <<at, b>> \notin doubtful
      <4>1. ASSUME <<at, b>> \in doubtful PROVE FALSE
        <5>1. ArticleOf[<<at, b>>[2]] # a
          BY <4>1
        <5> QED
          BY <2>1, <5>1
      <4> QED
        BY <4>1
    <3> QED
      BY <2>1, <3>1
  <2>3. g[b] = Booked(ledger, <<at, b>>)
    BY <1>3, <1>9, <2>2 DEF Balanced
  <2>4. PICK f : f = ChangeOf(l, <<at, b>>)
    OBVIOUS
  <2>5. PICK h : h = [i \in DOMAIN l |-> parts[b][l[i]]]
    OBVIOUS
  <2>6. ASSUME NEW i \in DOMAIN l PROVE f[i] = h[i]
    <3>1. l[i] \in R
      BY <1>4
    <3>2. h[i] = IF key[l[i]] \in {b} THEN w[l[i]] ELSE 0
      BY <1>12, <2>5, <3>1
    <3>3. h[i] = IF l[i].batch = b /\ l[i].at = at /\ Moved(l[i]) THEN l[i].change ELSE 0
      BY <1>2, <1>10, <1>11, <3>1, <3>2 DEF BatchOf, MovedAt
    <3>4. f[i] = IF l[i].at = at /\ l[i].batch = b /\ Moved(l[i]) THEN l[i].change ELSE 0
      BY <2>4 DEF ChangeOf, Counts
    <3> QED
      BY <3>3, <3>4
  <2>7. SumOver(f, DOMAIN l) = SumOver(h, DOMAIN l)
    BY <1>4, <2>6, SumSame
  <2> QED
    BY <1>1, <2>3, <2>4, <2>5, <2>7 DEF Booked, Weighed
<1>18. SumOver(g, S) = Weighed(l, v)
  <2>1. PartsByKey(R, w, key, S, parts)
    BY <1>15 DEF PartsByKey
  <2>2. EachWeighed(g, l, S, parts)
    BY <1>17 DEF EachWeighed
  <2> QED
    BY <1>3, <1>8, <1>14, <1>16, <2>1, <2>2, WeighedByKey
<1>19. PICK u : u = MovedThere(at, a)
  OBVIOUS
<1>20. ASSUME NEW i \in DOMAIN l PROVE v[l[i]] = u[l[i]]
  <2>1. l[i] \in R /\ l[i].batch \in Batches /\ l[i].batch \in N
    BY <1>4, <1>5, <1>6
  <2>2. v[l[i]] = IF l[i].batch \in S THEN w[l[i]] ELSE 0
    BY <1>2, <1>11, <1>13, <2>1 DEF BatchOf
  <2>3. l[i].batch \in S <=> ArticleOf[l[i].batch] = a
    BY <1>7, <2>1
  <2> QED
    BY <1>2, <1>10, <1>19, <2>1, <2>2, <2>3 DEF MovedAt, MovedThere
<1>21. Weighed(l, v) = Weighed(l, u)
  BY <1>3, <1>20, WeighedSame
<1>22. PICK B : B = BatchesOf(a)
  OBVIOUS
<1>23. PICK row : row = [b \in B |-> RowOf(<<at, b>>).quantity]
  OBVIOUS
<1>24. getInventorySummary(at, a) = SumOver(row, B)
  <2>1. getInventorySummary(at, a) = Total(row)
    BY <1>22, <1>23 DEF getInventorySummary
  <2> QED
    BY <1>23, <2>1, TotalIsSum
<1>25. B \subseteq S /\ Ints(row, B) /\ \A b \in S : g[b] = IF b \in B THEN row[b] ELSE 0
  <2>1. B \subseteq S
    BY <1>7, <1>22 DEF BatchesOf
  <2>2. Ints(row, B)
    <3>1. \A b \in B : row[b] \in Int
      BY <1>3, <1>23, AnyRow DEF LedgerTyped
    <3> QED
      BY <3>1 DEF Ints
  <2>3. ASSUME NEW b \in S PROVE g[b] = IF b \in B THEN row[b] ELSE 0
    <3>1. CASE b \in B
      BY <1>9, <1>23, <3>1
    <3>2. CASE b \notin B
      <4>1. ~Known(b)
        BY <1>7, <1>22, <3>2 DEF BatchesOf
      <4>2. <<at, b>> \notin DOMAIN inventory
        <5>1. ASSUME <<at, b>> \in DOMAIN inventory PROVE FALSE
          <6>1. Known(<<at, b>>[2])
            BY <1>3, <5>1 DEF LedgerTyped, InventoryTyped
          <6> QED
            BY <4>1, <6>1
        <5> QED
          BY <5>1
      <4> QED
        BY <1>9, <3>2, <4>2 DEF RowOf, Stocked
    <3> QED
      BY <3>1, <3>2
  <2> QED
    BY <2>1, <2>2, <2>3
<1>26. SumOver(g, S) = SumOver(row, B)
  BY <1>8, <1>25, SumOfSome
<1> QED
  BY <1>1, <1>18, <1>19, <1>21, <1>24, <1>26

(* What came in, and what the loss report calls a loss of the kitchen. *)
CameIn(e) ==
  \/ e.type \in {"import", "production_output", "production_consume", "adjust_surplus"}
  \/ e.type = "adjustment" /\ e.change > 0
InWeight(a) ==
  [e \in TransactionRow |->
     IF e.at = "kitchen" /\ ArticleOf[e.batch] = a /\ CameIn(e) THEN e.change ELSE 0]
WasteWeight(a) ==
  [e \in TransactionRow |->
     IF e.at = "kitchen" /\ ArticleOf[e.batch] = a /\ WasteLike(e) THEN e.change ELSE 0]

LEMMA InAndWasteTyped ==
  ASSUME NEW a
  PROVE  InWeight(a) \in [TransactionRow -> Int] /\ WasteWeight(a) \in [TransactionRow -> Int]
<1>1. \A e \in TransactionRow : e.change \in Int
  BY DEF TransactionRow
<1> QED
  BY <1>1 DEF InWeight, WasteWeight

LEMMA IncomingWeighs ==
  ASSUME ledger \in Entries, NEW a
  PROVE  Incoming(a) = Weighed(ledger, InWeight(a))
<1> DEFINE P == {k \in DOMAIN ledger :
                   ledger[k].at \in {"kitchen"}
                   /\ (/\ ArticleOf[ledger[k].batch] = a
                       /\ \/ ledger[k].type \in {"import", "production_output",
                                                 "production_consume", "adjust_surplus"}
                          \/ ledger[k].type = "adjustment" /\ ledger[k].change > 0)}
           f == [i \in P |-> ledger[i].change]
<1>1. Incoming(a) = Total(f)
  BY DEF Incoming, Changes
<1>2. Total(f) = SumOver(f, P)
  BY TotalIsSum
<1>3. PICK w : w = InWeight(a)
  OBVIOUS
<1>4. \A i \in DOMAIN ledger : ledger[i] \in TransactionRow
  BY EntriesFinite
<1>5. \A i \in DOMAIN ledger : w[ledger[i]] = IF i \in P THEN f[i] ELSE 0
  BY <1>3, <1>4 DEF InWeight, CameIn
<1>6. P \subseteq DOMAIN ledger
  OBVIOUS
<1>7. w \in [TransactionRow -> Int] /\ ledger \in Seq(TransactionRow)
  BY <1>3, InAndWasteTyped DEF Entries
<1> HIDE DEF P, f
<1>8. SumOver(f, P) = Weighed(ledger, w)
  BY <1>5, <1>6, <1>7, WeighedSome
<1> QED
  BY <1>1, <1>2, <1>3, <1>8

LEMMA WasteWeighs ==
  ASSUME ledger \in Entries, NEW a
  PROVE  wasteQuery(a) = 0 - Weighed(ledger, WasteWeight(a))
<1> DEFINE P == {k \in DOMAIN ledger :
                   ledger[k].at \in {"kitchen"}
                   /\ (ArticleOf[ledger[k].batch] = a /\ WasteLike(ledger[k]))}
           f == [i \in P |-> ledger[i].change]
<1>1. wasteQuery(a) = 0 - Total(f)
  BY DEF wasteQuery, getWasteAnalytics, Changes
<1>2. Total(f) = SumOver(f, P)
  BY TotalIsSum
<1>3. PICK w : w = WasteWeight(a)
  OBVIOUS
<1>4. \A i \in DOMAIN ledger : ledger[i] \in TransactionRow
  BY EntriesFinite
<1>5. \A i \in DOMAIN ledger : w[ledger[i]] = IF i \in P THEN f[i] ELSE 0
  BY <1>3, <1>4 DEF WasteWeight
<1>6. P \subseteq DOMAIN ledger
  OBVIOUS
<1>7. w \in [TransactionRow -> Int] /\ ledger \in Seq(TransactionRow)
  BY <1>3, InAndWasteTyped DEF Entries
<1> HIDE DEF P, f
<1>8. SumOver(f, P) = Weighed(ledger, w)
  BY <1>5, <1>6, <1>7, WeighedSome
<1> QED
  BY <1>1, <1>2, <1>3, <1>8

(* Every entry that moved stock came in, was lost, or left the kitchen. *)
LEMMA MovesAreOfOneKind ==
  ASSUME NEW e \in TransactionRow, NEW a
  PROVE  MovedThere("kitchen", a)[e] + MovedThere("shop", a)[e]
           = InWeight(a)[e] + WasteWeight(a)[e] + Departed(a)[e]
<1>1. e.change \in Int /\ e.at \in {"kitchen", "shop"} /\ e.type \in TransactionType
  BY DEF TransactionRow, Places
<1>2. /\ MovedThere("kitchen", a)[e]
           = IF e.at = "kitchen" /\ Moved(e) /\ ArticleOf[e.batch] = a THEN e.change ELSE 0
      /\ MovedThere("shop", a)[e]
           = IF e.at = "shop" /\ Moved(e) /\ ArticleOf[e.batch] = a THEN e.change ELSE 0
      /\ InWeight(a)[e] = IF e.at = "kitchen" /\ ArticleOf[e.batch] = a /\ CameIn(e)
                          THEN e.change ELSE 0
      /\ WasteWeight(a)[e] = IF e.at = "kitchen" /\ ArticleOf[e.batch] = a /\ WasteLike(e)
                             THEN e.change ELSE 0
      /\ Departed(a)[e] = IF /\ ArticleOf[e.batch] = a
                             /\ IF e.at = "kitchen" THEN e.type = "export" ELSE Moved(e)
                          THEN e.change ELSE 0
  BY DEF MovedThere, InWeight, WasteWeight, Departed
<1>3. CASE e.at = "shop"
  BY <1>1, <1>2, <1>3
<1>4. CASE e.at = "kitchen" /\ ArticleOf[e.batch] # a
  BY <1>1, <1>2, <1>4
<1>5. CASE e.at = "kitchen" /\ ArticleOf[e.batch] = a /\ e.type = "export"
  BY <1>1, <1>2, <1>5 DEF Moved, CameIn, WasteLike
<1>6. CASE e.at = "kitchen" /\ ArticleOf[e.batch] = a /\ e.type # "export"
  <2>1. CASE e.type = "adjustment"
    BY <1>1, <1>2, <1>6, <2>1 DEF Moved, CameIn, WasteLike
  <2>2. CASE e.type # "adjustment"
    BY <1>1, <1>2, <1>6, <2>2 DEF Moved, CameIn, WasteLike, TransactionType
  <2> QED
    BY <2>1, <2>2
<1> QED
  BY <1>1, <1>3, <1>4, <1>5, <1>6

LEMMA MovesAddUp ==
  ASSUME ledger \in Entries, NEW a
  PROVE  /\ Weighed(ledger, MovedThere("kitchen", a)) + Weighed(ledger, MovedThere("shop", a))
              = Weighed(ledger, InWeight(a)) + Weighed(ledger, WasteWeight(a)) + Gone(a)
         /\ Weighed(ledger, MovedThere("kitchen", a)) \in Int
         /\ Weighed(ledger, MovedThere("shop", a)) \in Int
         /\ Weighed(ledger, InWeight(a)) \in Int /\ Weighed(ledger, WasteWeight(a)) \in Int
<1>1. PICK R : R = TransactionRow
  OBVIOUS
<1>2. PICK k, s, in, waste, out :
        /\ k = MovedThere("kitchen", a) /\ s = MovedThere("shop", a)
        /\ in = InWeight(a) /\ waste = WasteWeight(a) /\ out = Departed(a)
  OBVIOUS
<1>3. /\ k \in [R -> Int] /\ s \in [R -> Int] /\ in \in [R -> Int] /\ waste \in [R -> Int]
      /\ out \in [R -> Int]
  BY <1>1, <1>2, MovesTyped, InAndWasteTyped, WeightsTyped
<1>4. PICK x : x = [e \in R |-> in[e] + waste[e]]
  OBVIOUS
<1>5. PICK y : y = [e \in R |-> k[e] + s[e]]
  OBVIOUS
<1>6. PICK l : l = ledger
  OBVIOUS
<1>7. l \in Seq(R) /\ \A i \in DOMAIN l : l[i] \in R
  BY <1>1, <1>6, EntriesFinite DEF Entries
<1>8. x \in [R -> Int] /\ y \in [R -> Int]
  BY <1>3, <1>4, <1>5
<1>9. \A e \in R : y[e] = x[e] + out[e]
  <2>1. ASSUME NEW e \in R PROVE k[e] + s[e] = in[e] + waste[e] + out[e]
    BY <1>1, <1>2, MovesAreOfOneKind
  <2> QED
    BY <1>4, <1>5, <2>1
<1>10. l \in Seq(R)
  BY <1>7
<1>11. Weighed(l, x) = Weighed(l, in) + Weighed(l, waste)
  <2>1. x \in [R -> Int] /\ in \in [R -> Int] /\ waste \in [R -> Int]
    BY <1>3, <1>8
  <2>2. \A i \in DOMAIN l : x[l[i]] = in[l[i]] + waste[l[i]]
    BY <1>4, <1>7
  <2> QED
    BY <1>10, <2>1, <2>2, WeighedTogether
<1>12. Weighed(l, y) = Weighed(l, k) + Weighed(l, s)
  <2>1. y \in [R -> Int] /\ k \in [R -> Int] /\ s \in [R -> Int]
    BY <1>3, <1>8
  <2>2. \A i \in DOMAIN l : y[l[i]] = k[l[i]] + s[l[i]]
    BY <1>5, <1>7
  <2> QED
    BY <1>10, <2>1, <2>2, WeighedTogether
<1>13. Weighed(l, y) = Weighed(l, x) + Weighed(l, out)
  <2>1. y \in [R -> Int] /\ x \in [R -> Int] /\ out \in [R -> Int]
    BY <1>3, <1>8
  <2>2. \A i \in DOMAIN l : y[l[i]] = x[l[i]] + out[l[i]]
    BY <1>7, <1>9
  <2> QED
    BY <1>10, <2>1, <2>2, WeighedTogether
<1>14. Weighed(l, k) \in Int /\ Weighed(l, s) \in Int /\ Weighed(l, in) \in Int
       /\ Weighed(l, waste) \in Int
  BY <1>3, <1>7, WeighedType
<1> QED
  BY <1>2, <1>6, <1>11, <1>12, <1>13, <1>14 DEF Gone

LEMMA TrucksRoll ==
  ASSUME LedgerTyped, NEW a
  PROVE  OnTrucks(a) = Rolling(a)
<1>1. PICK P : P = {k \in DOMAIN hold : /\ hold[k].status = "in_transit"
                                        /\ ArticleOf[hold[k].batch] = a}
  OBVIOUS
<1>2. PICK f : f = [i \in P |-> hold[i].quantity]
  OBVIOUS
<1>3. OnTrucks(a) = Total(f) /\ DOMAIN f = P
  BY <1>1, <1>2 DEF OnTrucks
<1>4. PICK w : w = OnRoad(a)
  OBVIOUS
<1>5. w \in [HoldRow -> Int] /\ hold \in Seq(HoldRow)
  BY <1>4, WeightsTyped DEF LedgerTyped, HoldsTyped
<1>6. P \subseteq DOMAIN hold /\ \A i \in DOMAIN hold : w[hold[i]] = IF i \in P THEN f[i] ELSE 0
  <2>1. \A i \in DOMAIN hold : hold[i] \in HoldRow
    BY <1>5, HoldFacts
  <2> QED
    BY <1>1, <1>2, <1>4, <2>1 DEF OnRoad
<1>7. SumOver(f, P) = Weighed(hold, w)
  BY <1>5, <1>6, WeighedSome
<1> QED
  BY <1>3, <1>4, <1>7, TotalIsSum DEF Rolling

(* A column of the claims. *)
LEMMA ClaimsWeigh ==
  ASSUME LedgerTyped, NEW a
  PROVE  LET missing == Total([i \in ClaimsOf(a) |-> claimItem[i].missing])
         IN claimQuery(a) \in Int /\ missing \in Int /\ Lost(a) = claimQuery(a) + missing
<1>1. PICK R : R = ClaimItemRow
  OBVIOUS
<1>2. PICK l : l = claimItem
  OBVIOUS
<1>3. l \in Seq(R) /\ \A i \in DOMAIN l : l[i] \in R
  BY <1>1, <1>2, ElementsTyped DEF LedgerTyped
<1>4. PICK P : P = ClaimsOf(a)
  OBVIOUS
<1>5. P \subseteq DOMAIN l /\ P = {i \in DOMAIN l : l[i].article = a}
  BY <1>2, <1>4 DEF ClaimsOf
<1>6. PICK m : m = [i \in P |-> claimItem[i].missing]
  OBVIOUS
<1>7. PICK d : d = [i \in P |-> claimItem[i].damaged]
  OBVIOUS
<1>8. PICK u : u = [k \in R |-> IF k.article = a THEN k.missing ELSE 0]
  OBVIOUS
<1>9. PICK v : v = [k \in R |-> IF k.article = a THEN k.damaged ELSE 0]
  OBVIOUS
<1>10. PICK w : w = Claimed(a)
  OBVIOUS
<1>11. \A k \in R : k.missing \in Nat /\ k.damaged \in Nat
  BY <1>1 DEF ClaimItemRow
<1>12. u \in [R -> Int] /\ v \in [R -> Int] /\ w \in [R -> Int]
  BY <1>1, <1>8, <1>9, <1>10, <1>11, WeightsTyped
<1>13. /\ \A i \in DOMAIN l : u[l[i]] = IF i \in P THEN m[i] ELSE 0
       /\ \A i \in DOMAIN l : v[l[i]] = IF i \in P THEN d[i] ELSE 0
  BY <1>2, <1>3, <1>5, <1>6, <1>7, <1>8, <1>9
<1>14. \A i \in DOMAIN l : w[l[i]] = u[l[i]] + v[l[i]]
  BY <1>1, <1>3, <1>8, <1>9, <1>10, <1>11 DEF Claimed
<1>15. SumOver(m, P) = Weighed(l, u)
  BY <1>3, <1>5, <1>12, <1>13, WeighedSome
<1>16. SumOver(d, P) = Weighed(l, v)
  BY <1>3, <1>5, <1>12, <1>13, WeighedSome
<1>17. Weighed(l, w) = Weighed(l, u) + Weighed(l, v)
  BY <1>3, <1>12, <1>14, WeighedTogether
<1>18. Weighed(l, u) \in Int /\ Weighed(l, v) \in Int
  BY <1>3, <1>12, WeighedType
<1>19. Total(m) = SumOver(m, P) /\ Total(d) = SumOver(d, P)
  BY <1>6, <1>7, TotalIsSum
<1>20. claimQuery(a) = Total(d) /\ Total([i \in ClaimsOf(a) |-> claimItem[i].missing]) = Total(m)
  BY <1>4, <1>6, <1>7 DEF claimQuery
<1>21. Lost(a) = Weighed(l, w)
  BY <1>2, <1>10 DEF Lost
<1> QED
  BY <1>15, <1>16, <1>17, <1>18, <1>19, <1>20, <1>21

LEMMA NothingIsLostTwice ==
  ASSUME LedgerInv, ReportInv
  PROVE  LossesAddUp
<1> SUFFICES ASSUME NEW a \in Articles, \A r \in doubtful : ArticleOf[r[2]] # a
             PROVE  /\ Incoming(a) <= Accounted(a)
                    /\ CreditedOnce => Incoming(a) = Accounted(a)
  BY DEF LossesAddUp
<1>1. LedgerTyped /\ ledger \in Entries
  BY DEF LedgerInv, LedgerTyped
<1>2. PICK k, s, in, waste :
        /\ k = Weighed(ledger, MovedThere("kitchen", a))
        /\ s = Weighed(ledger, MovedThere("shop", a))
        /\ in = Weighed(ledger, InWeight(a)) /\ waste = Weighed(ledger, WasteWeight(a))
  OBVIOUS
<1>3. "kitchen" \in Places /\ "shop" \in Places
  BY DEF Places
<1>4. OnShelves(a) = k + s
  BY <1>2, <1>3, ShelvesAreBooked DEF OnShelves
<1>5. Incoming(a) = in /\ wasteQuery(a) = 0 - waste
  BY <1>1, <1>2, IncomingWeighs, WasteWeighs
<1>6. k + s = in + waste + Gone(a) /\ k \in Int /\ s \in Int /\ in \in Int /\ waste \in Int
  BY <1>1, <1>2, MovesAddUp
<1>7. PICK missing : missing = Total([i \in ClaimsOf(a) |-> claimItem[i].missing])
  OBVIOUS
<1>8. claimQuery(a) \in Int /\ missing \in Int /\ Lost(a) = claimQuery(a) + missing
  BY <1>1, <1>7, ClaimsWeigh
<1>9. OnTrucks(a) = Rolling(a)
  BY <1>1, TrucksRoll
<1>10. /\ Gone(a) + Rolling(a) + Lost(a) >= 0
       /\ CreditedOnce => Gone(a) + Rolling(a) + Lost(a) = 0
       /\ Gone(a) \in Int /\ Rolling(a) \in Int
  <2>1. Balance(a) >= 0 /\ (CreditedOnce => Balance(a) = 0)
    BY DEF ReportInv, RoadInv, RoadBalances
  <2> QED
    BY <1>1, <2>1, WeighTyped DEF Balance
<1>11. getFinancialLoss(a).totalLossQty = wasteQuery(a) + claimQuery(a)
  BY DEF getFinancialLoss
<1>12. Accounted(a) = k + s + Rolling(a) + (wasteQuery(a) + claimQuery(a)) + missing
  BY <1>4, <1>7, <1>9, <1>11 DEF Accounted
<1>13. Accounted(a) = in + (Gone(a) + Rolling(a) + Lost(a))
  BY <1>5, <1>6, <1>8, <1>10, <1>12
<1> QED
  BY <1>5, <1>6, <1>8, <1>10, <1>13

(* What a client reads of the lists leaves out no row that was there when it *)
(* began but ties; and the reports, each with its filters, tell the same of *)
(* the stock: what came in is on a shelf, on a truck or a loss, and no less *)
(* is there than came in.  It is counted once, unless a row was received    *)
(* twice or shares the report of its batch (shipment.service.ts:354-382).  *)
THEOREM ReportsTellTheSame == Spec => []ReportsAgree
<1>1. LedgerInv /\ ReportInv => ReportsAgree
  <2> SUFFICES ASSUME LedgerInv, ReportInv PROVE ReportsAgree
    OBVIOUS
  <2>1. PagesMissOnlyTies
    BY PagesAreComplete DEF ReportInv
  <2>2. LossesAddUp
    BY NothingIsLostTwice
  <2>3. LedgerTyped /\ LossesAreNegative
    BY DEF LedgerInv, ReportInv, RoadInv
  <2>4. ASSUME NEW a \in {ArticleOf[b] : b \in {k \in Batches : Known(k)}}
        PROVE  /\ SummaryMatchesLines(a) /\ NextBatchIsServed(a) /\ AlertsAgree(a)
               /\ \A n \in OrderAmounts, floor \in day..(LastDay + 1) :
                    SuggestionIsTaken(a, n, floor)
    <3>1. a \in Articles
      BY LedgerAssumption
    <3>2. \A n \in OrderAmounts : n \in Nat
      BY LedgerAssumption
    <3>3. ASSUME NEW n \in OrderAmounts, NEW floor \in day..(LastDay + 1)
          PROVE  SuggestionIsTaken(a, n, floor)
      BY <2>3, <3>1, <3>2, AdviceIsTaken
    <3> QED
      BY <2>3, <3>1, <3>3, SumsAndLines, NextIsServed, AlertsRingTogether
  <2> QED
    BY <2>1, <2>2, <2>4 DEF ReportsAgree
<1> QED
  BY <1>1, LedgerInvariant, ReportInvariant, PTL
=============================================================================
