------------------------------ MODULE StockReports ------------------------------
(***************************************************************************)
(* What the services report of the stock, for one product at a time: each  *)
(* is a query of its own, with filters of its own.  A date of expiry is    *)
(* compared with the clock in the first hours of a day.  Names, codes,     *)
(* money, the filters by date and the search terms are left out.           *)
(***************************************************************************)
EXTENDS StockLedger

CONSTANTS
  NearExpiryDays,  \* KITCHEN_NEAR_EXPIRY_ALERT_DAYS
  ExpiringDays,    \* the interval of the analytics
  PageSize         \* rows of a page of the ledger

ASSUME ReportAssumption ==
  /\ {NearExpiryDays, ExpiringDays, PageSize} \subseteq Nat
  /\ ExpiringDays <= NearExpiryDays /\ PageSize > 0

Kitchen(b) == <<"kitchen", b>>
InKitchen(a) == {b \in BatchesOf(a) : Stocked(Kitchen(b))}
Dead(b) == batchStatus[b] \in {"expired", "damaged", "empty"}

Physical(S) == Total([b \in S |-> RowOf(Kitchen(b)).quantity])
Reserved(S) == Total([b \in S |-> RowOf(Kitchen(b)).reserved])

-----------------------------------------------------------------------------
(* The kitchen's own screens.                                              *)
getKitchenSummary(a) ==
  LET lots == {b \in InKitchen(a) : ~Dead(b)}
  IN [physical |-> Physical(lots), reserved |-> Reserved(lots)]

getProductIdsNearExpiryAlert ==
  {a \in Articles : \E b \in InKitchen(a) :
     /\ ExpiryDate[b] > day /\ ExpiryDate[b] <= day + NearExpiryDays
     /\ ~Dead(b)
     /\ RowOf(Kitchen(b)).quantity > 0 \/ RowOf(Kitchen(b)).reserved > 0}

getKitchenInventorySummary(a) ==
  LET sums == getKitchenSummary(a)
      available == sums.physical - sums.reserved
  IN [available |-> available,
      stockStatus |-> IF available < MinStockLevel[a] THEN "LOW_STOCK" ELSE "OK",
      expiryStatus |-> IF a \in getProductIdsNearExpiryAlert
                       THEN "NEAR_EXPIRY_ALERT" ELSE "OK",
      suggestedProductionQty |-> Maximum(0, MinStockLevel[a] - available)]

(* A batch line says what a day makes of it before the nightly job does. *)
deriveKitchenBatchLineStatus(b) ==
  IF ExpiryDate[b] <= day \/ batchStatus[b] = "expired" THEN "EXPIRED"
  ELSE IF batchStatus[b] = "damaged" THEN "DAMAGED"
  ELSE IF batchStatus[b] = "empty" THEN "EMPTY"
  ELSE IF ExpiryDate[b] <= day + MinShelfLife[ArticleOf[b]] THEN "NEAR_EXPIRY"
  ELSE "GOOD"

AvailableOnLine(b) ==
  IF deriveKitchenBatchLineStatus(b) \in {"EXPIRED", "DAMAGED", "EMPTY"} THEN 0
  ELSE Spare(Kitchen(b))

(* The first line with something available, in some order by expiry date. *)
isNextFEFO(b) ==
  /\ AvailableOnLine(b) > 0
  /\ \A k \in BatchesOf(ArticleOf[b]) :
       AvailableOnLine(k) > 0 => ExpiryDate[b] <= ExpiryDate[k]

(* The drill-down takes expired batches for available. *)
getKitchenBatchDetails(a) == [b \in BatchesOf(a) |-> RowOf(Kitchen(b))]
getKitchenDetails(a) ==
  LET lines == getKitchenBatchDetails(a)
  IN [b \in DOMAIN lines |-> lines[b].quantity - lines[b].reserved]

-----------------------------------------------------------------------------
(* What the order service tells a coordinator.                             *)
sumAtpAvailableForProduct(a, floor) ==
  Total([b \in findBatchesForFEFOWithShelfBuffer(a, floor) |-> Spare(Kitchen(b))])

canFulfill(a, requested, floor) == sumAtpAvailableForProduct(a, floor) >= requested

getApprovalSuggestion(a, requested, floor) ==
  LET atp == sumAtpAvailableForProduct(a, floor)
      suggested == Minimum(requested, atp)
  IN [suggestedApprove |-> suggested,
      canceledByStock |-> Maximum(0, requested - suggested),
      mode |-> IF suggested >= requested THEN "FULL_APPROVE"
               ELSE IF suggested > 0 THEN "PARTIAL_FULFILLMENT" ELSE "NO_STOCK"]

shortage(a, demand, deliveryDate) ==
  Maximum(0, demand - sumAtpAvailableForProduct(a, deliveryDate))

-----------------------------------------------------------------------------
(* Analytics.  None of these looks at the status of a batch.               *)
getAnalyticsSummary(a) ==
  [physical |-> Physical(InKitchen(a)), reserved |-> Reserved(InKitchen(a))]

lowStockAlerts ==
  {a \in Articles :
     getAnalyticsSummary(a).physical - getAnalyticsSummary(a).reserved < MinStockLevel[a]}

expiringBatches ==
  {b \in Batches :
     /\ Known(b) /\ Stocked(Kitchen(b))
     /\ ExpiryDate[b] >= day /\ ExpiryDate[b] <= day + ExpiringDays
     /\ RowOf(Kitchen(b)).quantity > 0 \/ RowOf(Kitchen(b)).reserved > 0}

getInventorySummary(at, a) ==
  Total([b \in BatchesOf(a) |-> RowOf(<<at, b>>).quantity])

getLowStockItems == {a \in Articles : Physical(InKitchen(a)) <= MinStockLevel[a]}

(* The share of its shelf life a batch has left: above 50 %, above 20 %. *)
AgingBucket(b) ==
  LET left == ExpiryDate[b] - day
      life == ShelfLifeDays[ArticleOf[b]]
  IN IF 2 * left > life THEN "fresh"
     ELSE IF 5 * left > life THEN "warning" ELSE "critical"

getAgingReport ==
  [b \in {k \in Batches : Known(k) /\ RowOf(Kitchen(k)).quantity > 0} |-> AgingBucket(b)]

-----------------------------------------------------------------------------
(* Losses, from the ledger and from the claims.                            *)
Changes(at, Test(_)) ==
  Total([i \in {k \in DOMAIN ledger : ledger[k].at \in at /\ Test(ledger[k])}
           |-> ledger[i].change])

WasteLike(e) ==
  e.type \in {"waste", "adjust_loss"} \/ (e.type = "adjustment" /\ e.change < 0)

getWasteAnalytics(at, a) ==
  0 - Changes(at, LAMBDA e : ArticleOf[e.batch] = a /\ WasteLike(e))

getWasteReportDetailed(at, a) ==
  0 - Changes(at, LAMBDA e : ArticleOf[e.batch] = a /\ e.type = "waste")

ClaimsOf(a) == {i \in DOMAIN claimItem : claimItem[i].article = a}
wasteQuery(a) == getWasteAnalytics({"kitchen"}, a)
claimQuery(a) == Total([i \in ClaimsOf(a) |-> claimItem[i].damaged])

(* What a kitchen destroys and what shops find damaged, kept apart and      *)
(* added up.  What is missing on arrival is nobody's loss here.            *)
getFinancialLoss(a) ==
  [kitchenWasteQty |-> wasteQuery(a), storeDamagedQty |-> claimQuery(a),
   totalLossQty |-> wasteQuery(a) + claimQuery(a)]

-----------------------------------------------------------------------------
(* Lists are read page by page: the ledger of the kitchen and of the shop,  *)
(* the latest rows first, and the stock of the shop, the first to expire   *)
(* first.  Rows the order does not tell apart come in any order, which     *)
(* each query chooses anew: a page is possible when each group of ties has *)
(* as many rows on it as its places in the list overlap the page.          *)
Lists == {"readLedger", "readShopLedger", "readShopStock"}

RowsOf(list) ==
  CASE list = "readLedger"     -> {i \in DOMAIN ledger : ledger[i].at = "kitchen"}
    [] list = "readShopLedger" -> {i \in DOMAIN ledger : ledger[i].at = "shop"}
    [] list = "readShopStock"  -> {b \in Batches : Stocked(<<"shop", b>>)}

Precedes(list, x, y) ==
  IF list = "readShopStock" THEN ExpiryDate[x] < ExpiryDate[y]
  ELSE ledger[x].created > ledger[y].created

Ahead(list, x) == {y \in RowsOf(list) : Precedes(list, y, x)}
Ties(list, x) ==
  {y \in RowsOf(list) : ~Precedes(list, x, y) /\ ~Precedes(list, y, x)}

Overlap(list, x, offset) ==
  LET ahead == Cardinality(Ahead(list, x))
  IN Minimum(offset + PageSize, ahead + Cardinality(Ties(list, x))) - Maximum(offset, ahead)

PossiblePages(list, offset) ==
  {P \in SUBSET RowsOf(list) :
     \A x \in RowsOf(list) :
       Cardinality(P \cap Ties(list, x)) = Maximum(0, Overlap(list, x, offset))}

(* Readers do not disturb each other: an instance has one at a time. *)
ArriveReader(c, list) ==
  /\ RowsOf(list) # {} /\ \A k \in Clients : req[k].kind \notin Lists
  /\ Becomes(c, [kind |-> list, step |-> "page", page |-> 0,
                 began |-> RowsOf(list), seen |-> {}])
  /\ UNCHANGED ledgerVars

NextPage(c, list) ==
  /\ At(c, list, "page")
  /\ LET offset == req[c].page * PageSize
     IN \E page \in PossiblePages(list, offset) :
          req' = [req EXCEPT ![c].page = @ + 1, ![c].seen = @ \cup page,
                    ![c].step = IF offset + PageSize >= Cardinality(RowsOf(list))
                                THEN "read" ELSE "page"]
  /\ UNCHANGED ledgerVars

getWarehouseInventoryTransactions(c) == NextPage(c, "readLedger")
getStoreTransactions(c) == NextPage(c, "readShopLedger")
getStoreInventory(c) == NextPage(c, "readShopStock")

ReaderNext ==
  \E c \in Clients :
    \/ \E list \in Lists : ArriveReader(c, list)
    \/ getWarehouseInventoryTransactions(c)
    \/ getStoreTransactions(c) \/ getStoreInventory(c)

-----------------------------------------------------------------------------
Moved(e) == e.type \notin {"reservation", "release"}

Explained(r) ==
  inventory[r].quantity = Changes({r[1]}, LAMBDA e : e.batch = r[2] /\ Moved(e))

(* The ledger and the stock are written by different statements of a dozen  *)
(* endpoints, and only the stock is ever decided on.  The changes logged   *)
(* for a row sum up to its quantity, except where a receipt wrote the sum  *)
(* over a row that had changed (inventory.repository.ts:299), a batch was  *)
(* corrected by hand, or an output was logged twice.  README_INVENTORY.md   *)
(* tells the reader to reconcile the stock this way, without exceptions.   *)
LedgerExplainsStock == \A r \in DOMAIN inventory \ doubtful : Explained(r)

(* Goods that came in are on a shelf, on a truck, or in one of the two      *)
(* sources of the loss reports: none drops out of the reports, and but for *)
(* rows that were received twice or share the report of their batch with   *)
(* another row of their shipment (shipment.service.ts:354-382), none is    *)
(* counted twice.  Goods of a claim leave no loss in the ledger of the     *)
(* kitchen, and those destroyed in the kitchen no claim.                   *)
Incoming(a) ==
  Changes({"kitchen"}, LAMBDA e :
    /\ ArticleOf[e.batch] = a
    /\ \/ e.type \in {"import", "production_output", "production_consume", "adjust_surplus"}
       \/ e.type = "adjustment" /\ e.change > 0)

OnTrucks(a) ==
  Total([i \in {k \in DOMAIN hold : /\ hold[k].status = "in_transit"
                                   /\ ArticleOf[hold[k].batch] = a} |-> hold[i].quantity])

OnShelves(a) == getInventorySummary("kitchen", a) + getInventorySummary("shop", a)

Accounted(a) ==
  OnShelves(a) + OnTrucks(a) + getFinancialLoss(a).totalLossQty
    + Total([i \in ClaimsOf(a) |-> claimItem[i].missing])

CreditedOnce ==
  \A i \in DOMAIN hold :
    hold[i].receipts <= 1 /\ (hold[i].receipts = 1 => RowsWith(i) = {i})

LossesAddUp ==
  \A a \in Articles :
    (\A r \in doubtful : ArticleOf[r[2]] # a)
    => /\ Incoming(a) <= Accounted(a)
       /\ CreditedOnce => Incoming(a) = Accounted(a)

(* The reports agree on the same stock, though each filters it its own way. *)
(* The sums of the summary and the lines of the drill-down differ by the   *)
(* batches that are due and not marked yet.                                *)
SummaryMatchesLines(a) ==
  LET due == {b \in InKitchen(a) : ~Dead(b) /\ ExpiryDate[b] <= day}
  IN getKitchenInventorySummary(a).available
       = Total([b \in BatchesOf(a) |-> AvailableOnLine(b)]) + Physical(due) - Reserved(due)

(* The batch a screen marks as the next one is the first a reservation      *)
(* takes from, unless its line says NEAR_EXPIRY: then no reservation may.  *)
NextBatchIsServed(a) ==
  LET offered == findBatchesForFEFOWithShelfBuffer(a, day + MinShelfLife[a])
  IN \A b \in {k \in BatchesOf(a) : isNextFEFO(k)} :
       IF deriveKitchenBatchLineStatus(b) = "GOOD"
       THEN b \in offered /\ \A k \in offered : ExpiryDate[b] <= ExpiryDate[k]
       ELSE b \notin offered

(* What is suggested is what a reservation takes, if nothing comes between, *)
(* and the three answers to a coordinator tell the same story.             *)
SuggestionIsTaken(a, n, floor) ==
  LET advice == getApprovalSuggestion(a, n, floor)
  IN /\ \A s \in FefoOrders(findBatchesForFEFOWithShelfBuffer(a, floor)) :
          Total(Takes(s, n)) = advice.suggestedApprove
     /\ canFulfill(a, n, floor) <=> advice.mode = "FULL_APPROVE"
     /\ shortage(a, n, floor) = advice.canceledByStock

(* Alerts of the analytics also ring on the kitchen's screen, but for dead  *)
(* batches; what has expired is never reported as fresh.                   *)
AlertsAgree(a) ==
  /\ a \in lowStockAlerts /\ (\A b \in InKitchen(a) : Dead(b) => Spare(Kitchen(b)) >= 0)
       => getKitchenInventorySummary(a).stockStatus = "LOW_STOCK"
  /\ a \in lowStockAlerts
       <=> Total(getKitchenDetails(a)) < MinStockLevel[a]
  /\ a \in getLowStockItems /\ Reserved(InKitchen(a)) > 0 => a \in lowStockAlerts
  /\ (\E b \in expiringBatches : ArticleOf[b] = a /\ ~Dead(b) /\ ExpiryDate[b] > day)
       => getKitchenInventorySummary(a).expiryStatus = "NEAR_EXPIRY_ALERT"
  /\ \A b \in DOMAIN getAgingReport :
       deriveKitchenBatchLineStatus(b) = "EXPIRED" /\ batchStatus[b] # "expired"
         => getAgingReport[b] = "critical"
  /\ getWasteReportDetailed(Places, a) <= getWasteAnalytics(Places, a)

(* A client that has read to the last page has seen every row that was      *)
(* there when it began, although rows keep coming in front of those it has *)
(* not read yet: all but the rows that tie with another.                   *)
PagesMissOnlyTies ==
  \A c \in Clients :
    req[c].kind \in Lists /\ req[c].step = "read"
      => \A x \in req[c].began \ req[c].seen : Ties(req[c].kind, x) # {x}

(* The tables are compared while no request is under way: any request may   *)
(* be aborted, so no state of the tables is left out.                      *)
ReportsAgree ==
  /\ PagesMissOnlyTies
  /\ (\A c \in Clients : Idling(c)) =>
       /\ LossesAddUp
       /\ \A a \in {ArticleOf[b] : b \in {k \in Batches : Known(k)}} :
            /\ SummaryMatchesLines(a) /\ NextBatchIsServed(a) /\ AlertsAgree(a)
            /\ \A n \in OrderAmounts, floor \in day..(LastDay + 1) :
                 SuggestionIsTaken(a, n, floor)
=============================================================================
