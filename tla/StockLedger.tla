------------------------------ MODULE StockLedger ------------------------------
(***************************************************************************)
(* The two books of the stock: the rows of inventory and the rows of       *)
(* inventory_transactions, which every service writes side by side.  Here  *)
(* are all the endpoints that write both (or one without the other), at    *)
(* the grain of their statements where no lock holds them together.  What  *)
(* they do to orders, shipments and manifests is the business of           *)
(* SupplyChain: a hold stands for the line of a shipment or of a           *)
(* production order that keeps, carries or has consumed the goods.         *)
(***************************************************************************)
EXTENDS Requests, Quantities, Sequences, FiniteSets, SequencesExt

CONSTANTS
  Articles,        \* products
  Batches, ArticleOf, ExpiryDate,          \* the batches that may come
  Deliveries,      \* those a supplier delivers; the others are made
  MinShelfLife, ShelfLifeDays, MinStockLevel,   \* columns of products
  ImportAmounts, OrderAmounts, CountedAmounts,  \* the inputs of an instance
  SecondAmounts(_),   \* of a second line of the same product, 0 for none
  Discrepancies(_),   \* pairs of a missing and a damaged quantity
  MaxRows(_),      \* rows of the ledger in a scenario: a bound of an instance,
  MaxHolds, LastDay    \* as these are

VARIABLES
  day,          \* CURRENT_DATE
  inventory,    \* inventory: <<place, batch>> -> quantity and reserved
  batchStatus,  \* batches.status, "none" before the batch exists
  ledger,       \* inventory_transactions, oldest first
  hold,         \* lines of shipments and production reservations
  claimItem,    \* claim_items
  doubtful      \* rows whose quantity was written over or logged twice
                \* (history)

ledgerVars == <<day, inventory, batchStatus, ledger, hold, claimItem, doubtful>>

Places == {"kitchen", "shop"}
BatchStatus == {"pending", "available", "empty", "expired", "active", "damaged"}
TransactionType ==
  {"import", "export", "waste", "adjustment", "production_consume",
   "production_output", "reservation", "release", "adjust_loss", "adjust_surplus"}

InventoryRow == [quantity : Int, reserved : Nat]
TransactionRow ==
  [at : Places, batch : Batches, type : TransactionType, change : Int,
   reference : Nat, created : Nat]
HoldRow ==
  [batch : Batches, quantity : Nat, order : Nat,
   status : {"reserved", "in_transit", "completed", "released",
             "cooking", "consumed"},
   receipts : Nat]   \* times it was received (history)
ClaimItemRow == [article : Articles, missing : Nat, damaged : Nat]

ASSUME LedgerAssumption ==
  /\ Deliveries \subseteq Batches
  /\ ArticleOf \in [Batches -> Articles] /\ ExpiryDate \in [Batches -> Nat]
  /\ {MinShelfLife, ShelfLifeDays, MinStockLevel} \subseteq [Articles -> Nat]
  /\ ImportAmounts \cup OrderAmounts \subseteq Nat \ {0} /\ CountedAmounts \subseteq Nat
  /\ \A S \in Scenarios : /\ SecondAmounts(S) \subseteq Nat /\ MaxRows(S) \in Nat
                          /\ Discrepancies(S) \subseteq Nat \X Nat
  /\ LastDay \in Nat

LedgerInit ==
  /\ day = 0
  /\ inventory = [r \in {} |-> r] /\ batchStatus = [b \in Batches |-> "none"]
  /\ ledger = <<>> /\ hold = <<>> /\ claimItem = <<>> /\ doubtful = {}

Known(b) == batchStatus[b] # "none"
BatchesOf(a) == {b \in Batches : Known(b) /\ ArticleOf[b] = a}
Stocked(r) == r \in DOMAIN inventory

(* What a LEFT JOIN and a coalesce make of a row that is not there. *)
RowOf(r) == IF Stocked(r) THEN inventory[r] ELSE [quantity |-> 0, reserved |-> 0]
Spare(r) == RowOf(r).quantity - RowOf(r).reserved

Upserted(r, row) ==
  [k \in DOMAIN inventory \cup {r} |-> IF k = r THEN row ELSE inventory[k]]
Credited(r, q) == Upserted(r, [RowOf(r) EXCEPT !.quantity = @ + q])

-----------------------------------------------------------------------------
(* The ledger.  created_at is the start of the transaction, so the rows of  *)
(* one transaction share it; transactions are taken to start in the order  *)
(* in which they commit.                                                   *)
Started == IF ledger = <<>> THEN 1 ELSE Last(ledger).created + 1

Entry(r, type, change, reference) ==
  [at |-> r[1], batch |-> r[2], type |-> type, change |-> change,
   reference |-> reference, created |-> Started]

createInventoryTransaction(entries) ==
  /\ Len(ledger) + Len(entries) <= MaxRows(served)
  /\ ledger' = ledger \o entries

HoldsOf(order, status) ==
  {i \in DOMAIN hold : hold[i].order = order /\ hold[i].status = status}
HoldsBecome(S, status) ==
  hold' = [i \in DOMAIN hold |->
             IF i \in S THEN [hold[i] EXCEPT !.status = status] ELSE hold[i]]
HeldIn(S, b) == Total([i \in {k \in S : hold[k].batch = b} |-> hold[i].quantity])

-----------------------------------------------------------------------------
(* A line of a receipt becomes a batch; the credit is one ON CONFLICT       *)
(* statement, and the import is logged next to it.                         *)
import(b, n) ==
  /\ Immediate("import")
  /\ ~Known(b)
  /\ batchStatus' = [batchStatus EXCEPT ![b] = "available"]
  /\ inventory' = Credited(<<"kitchen", b>>, n)
  /\ createInventoryTransaction(<<Entry(<<"kitchen", b>>, "import", n, 0)>>)
  /\ UNCHANGED <<day, hold, claimItem, doubtful>>

(* Mutant: the floor itself counts as outlived. *)
findBatchesForFEFOWithShelfBuffer_Inclusive(a, floor) ==
  {b \in BatchesOf(a) :
     /\ Stocked(<<"kitchen", b>>) /\ Spare(<<"kitchen", b>>) > 0
     /\ ExpiryDate[b] >= floor
     /\ batchStatus[b] \notin {"expired", "damaged", "empty"}}

(* The batches a reservation may take from, when goods must outlive floor. *)
findBatchesForFEFOWithShelfBuffer(a, floor) ==
  {b \in BatchesOf(a) :
     /\ Stocked(<<"kitchen", b>>) /\ Spare(<<"kitchen", b>>) > 0
     /\ ExpiryDate[b] > floor
     /\ batchStatus[b] \notin {"expired", "damaged", "empty"}}

(* ORDER BY expiry_date: batches of one day come in any order. *)
FefoOrders(S) ==
  {s \in SetToSeqs(S) :
     \A i, j \in DOMAIN s : i < j => ExpiryDate[s[i]] <= ExpiryDate[s[j]]}

(* What is taken from each batch of the sequence s for a need of n. *)
Takes(s, n) ==
  [i \in DOMAIN s |->
     LET before == Total([j \in 1..(i - 1) |-> Spare(<<"kitchen", s[j]>>)])
     IN Maximum(0, Minimum(Spare(<<"kitchen", s[i]>>), n - before))]

(* The rows of a line, one for each batch that gives. *)
Picked(s, takes) ==
  LET given == SetToSeq({k \in DOMAIN s : takes[k] > 0})
  IN [i \in DOMAIN given |-> [batch |-> s[given[i]], quantity |-> takes[given[i]]]]

(* The rows of the line of n, then those of a line of m more: it goes over  *)
(* the batches again, and a batch that gives to both has two rows.         *)
PickedForLines(s, n, m) ==
  LET first == Takes(s, n)
      both == Takes(s, n + m)
  IN Picked(s, first) \o Picked(s, [k \in DOMAIN s |-> both[k] - first[k]])

Reserving(takes) ==
  inventory' = [r \in DOMAIN inventory |->
     LET from == {i \in DOMAIN takes : <<"kitchen", takes[i].batch>> = r}
         q == Total([i \in from |-> takes[i].quantity])
     IN [inventory[r] EXCEPT !.reserved = @ + q]]

NextOrder == Len(hold) + 1

Keep(takes, status) ==
  /\ Len(hold) + Len(takes) <= MaxHolds
  /\ hold' = hold \o [i \in DOMAIN takes |->
       [batch |-> takes[i].batch, quantity |-> takes[i].quantity,
        order |-> NextOrder, status |-> status, receipts |-> 0]]

(* One order of one or, when m > 0, two lines of a product: takes in FEFO   *)
(* order under row locks, one row of the ledger for each.                  *)
lockStockForOrder(a, n, m) ==
  /\ Immediate("reserve")
  /\ \E s \in FefoOrders(findBatchesForFEFOWithShelfBuffer(a, day + MinShelfLife[a])) :
       LET takes == PickedForLines(s, n, m)
       IN /\ takes # <<>>
          /\ Reserving(takes) /\ Keep(takes, "reserved")
          /\ createInventoryTransaction(
               [i \in DOMAIN takes |-> Entry(<<"kitchen", takes[i].batch>>,
                                             "reservation", takes[i].quantity, NextOrder)])
  /\ UNCHANGED <<day, batchStatus, claimItem, doubtful>>

(* Every row "reservation" of the order is given back, never below zero. *)
releaseStock(order) ==
  /\ Immediate("release")
  /\ HoldsOf(order, "reserved") # {}
  /\ LET reservations == {i \in DOMAIN ledger : /\ ledger[i].type = "reservation"
                                                /\ ledger[i].reference = order}
         of(r) == {i \in reservations : <<"kitchen", ledger[i].batch>> = r}
         back(r) == Total([i \in of(r) |-> ledger[i].change])
         s == SetToSeq(reservations)
     IN /\ inventory' = [r \in DOMAIN inventory |->
             [inventory[r] EXCEPT !.reserved = Maximum(@ - back(r), 0)]]
        /\ createInventoryTransaction(
             [i \in DOMAIN s |-> Entry(<<"kitchen", ledger[s[i]].batch>>, "release",
                                       ledger[s[i]].change, order)])
  /\ HoldsBecome(HoldsOf(order, "reserved"), "released")
  /\ UNCHANGED <<day, batchStatus, claimItem, doubtful>>

(* quantity - q, reserved - q but never below zero. *)
decreasePhysicalAndReserved(S) ==
  inventory' = [r \in DOMAIN inventory |->
     LET q == IF r[1] = "kitchen" THEN HeldIn(S, r[2]) ELSE 0
     IN [quantity |-> inventory[r].quantity - q,
         reserved |-> Maximum(inventory[r].reserved - q, 0)]]

Debits(S, type) ==
  LET s == SetToSeq(S)
  IN [i \in DOMAIN s |-> Entry(<<"kitchen", hold[s[i]].batch>>, type,
                               0 - hold[s[i]].quantity, 0)]

(* The departure of the manifest an order travels on. *)
export(order) ==
  /\ Immediate("export")
  /\ HoldsOf(order, "reserved") # {}
  /\ decreasePhysicalAndReserved(HoldsOf(order, "reserved"))
  /\ createInventoryTransaction(Debits(HoldsOf(order, "reserved"), "export"))
  /\ HoldsBecome(HoldsOf(order, "reserved"), "in_transit")
  /\ UNCHANGED <<day, batchStatus, claimItem, doubtful>>

-----------------------------------------------------------------------------
(* startProduction holds ingredients (one for one in an instance) without a *)
(* row of the ledger.  It asks for no status and no shelf life, and gives   *)
(* up when the next batch it needs has expired.                            *)
startProduction(a, n) ==
  /\ Immediate("startProduction")
  /\ \E s \in FefoOrders({b \in BatchesOf(a) : Spare(<<"kitchen", b>>) > 0}) :
       LET takes == Picked(s, Takes(s, n))
       IN /\ Total([i \in DOMAIN takes |-> takes[i].quantity]) = n
          /\ \A i \in DOMAIN takes : ExpiryDate[takes[i].batch] >= day
          /\ Reserving(takes) /\ Keep(takes, "cooking")
  /\ UNCHANGED <<day, batchStatus, ledger, claimItem, doubtful>>

(* The output is credited with what was made, and logged with what was made *)
(* and the loss, or the surplus, once more.                                *)
OutputEntries(b, planned, actual) ==
  LET r == <<"kitchen", b>>
  IN <<Entry(r, "production_output", actual, 0)>>
     \o (IF actual < planned THEN <<Entry(r, "waste", actual - planned, 0)>> ELSE <<>>)
     \o (IF actual > planned THEN <<Entry(r, "adjustment", actual - planned, 0)>> ELSE <<>>)

finishProduction(order, b, actual) ==
  /\ Immediate("finishProduction")
  /\ actual > 0 /\ ~Known(b) /\ HoldsOf(order, "cooking") # {}
  /\ LET S == HoldsOf(order, "cooking")
         planned == Total([i \in S |-> hold[i].quantity])
     IN /\ inventory' = [r \in DOMAIN inventory \cup {<<"kitchen", b>>} |->
             LET q == IF r[1] = "kitchen" THEN HeldIn(S, r[2]) ELSE 0
             IN IF r = <<"kitchen", b>> THEN [quantity |-> actual, reserved |-> 0]
                ELSE [quantity |-> inventory[r].quantity - q,
                      reserved |-> Maximum(inventory[r].reserved - q, 0)]]
        /\ createInventoryTransaction(
             Debits(S, "production_consume") \o OutputEntries(b, planned, actual))
        /\ HoldsBecome(S, "consumed")
        /\ doubtful' = IF actual = planned THEN doubtful
                       ELSE doubtful \cup {<<"kitchen", b>>}
  /\ batchStatus' = [batchStatus EXCEPT ![b] = "available"]
  /\ UNCHANGED <<day, claimItem>>

-----------------------------------------------------------------------------
(* The statements on one row that its row lock protects. *)
updateInventoryPhysicalOnly(r, q) == inventory' = [inventory EXCEPT ![r].quantity = q]
zeroOutInventoryForBatch(r) ==
  inventory' = [inventory EXCEPT ![r] = [quantity |-> 0, reserved |-> 0]]
adjustBatchQuantity(r, change) == inventory' = [inventory EXCEPT ![r].quantity = @ + change]

(* A stocktake: not below what is reserved, and logged when it differs. *)
adjustKitchenInventory(b, actual) ==
  LET r == <<"kitchen", b>>
      diff == actual - RowOf(r).quantity
  IN /\ Immediate("adjust")
     /\ Stocked(r) /\ actual >= inventory[r].reserved /\ diff # 0
     /\ updateInventoryPhysicalOnly(r, actual)
     /\ createInventoryTransaction(
          <<Entry(r, IF diff < 0 THEN "adjust_loss" ELSE "adjust_surplus", diff, 0)>>)
     /\ UNCHANGED <<day, batchStatus, hold, claimItem, doubtful>>

(* Mutant: only what nobody has reserved is logged as destroyed. *)
reportWaste_LogsSpare(b, status) ==
  LET r == <<"kitchen", b>>
  IN /\ Immediate("waste")
     /\ Stocked(r) /\ inventory[r].quantity > 0
     /\ zeroOutInventoryForBatch(r)
     /\ batchStatus' = [batchStatus EXCEPT ![b] = status]
     /\ createInventoryTransaction(<<Entry(r, "waste", 0 - Spare(r), 0)>>)
     /\ UNCHANGED <<day, hold, claimItem, doubtful>>

(* The whole batch is destroyed, with what shipments have reserved of it. *)
reportWaste(b, status) ==
  LET r == <<"kitchen", b>>
  IN /\ Immediate("waste")
     /\ Stocked(r) /\ inventory[r].quantity > 0
     /\ zeroOutInventoryForBatch(r)
     /\ batchStatus' = [batchStatus EXCEPT ![b] = status]
     /\ createInventoryTransaction(<<Entry(r, "waste", 0 - inventory[r].quantity, 0)>>)
     /\ UNCHANGED <<day, hold, claimItem, doubtful>>

nextDay ==
  /\ Immediate("nextDay")
  /\ day < LastDay /\ day' = day + 1
  /\ UNCHANGED <<inventory, batchStatus, ledger, hold, claimItem, doubtful>>

(* The nightly job: it gives reservations back without a row of the ledger. *)
listBatchesToExpire ==
  {b \in Batches : /\ Known(b) /\ ExpiryDate[b] <= day
                   /\ batchStatus[b] \notin {"expired", "damaged"}}

clearReservedForBatchInventory(S) ==
  inventory' = [r \in DOMAIN inventory |->
    IF r[2] \in S THEN [inventory[r] EXCEPT !.reserved = 0] ELSE inventory[r]]

runAutoExpireExpiredBatches ==
  /\ Immediate("expire")
  /\ listBatchesToExpire # {}
  /\ clearReservedForBatchInventory(listBatchesToExpire)
  /\ batchStatus' = [b \in Batches |->
       IF b \in listBatchesToExpire THEN "expired" ELSE batchStatus[b]]
  /\ UNCHANGED <<day, ledger, hold, claimItem, doubtful>>

(* PATCH of a batch: the quantity "entered wrongly" replaces the one of the *)
(* row, and is logged as if it were a change.                              *)
correctBatch(b, n, status) ==
  LET r == <<"kitchen", b>>
  IN /\ Immediate("correct")
     /\ Known(b) /\ n > 0
     /\ batchStatus' = [batchStatus EXCEPT ![b] = status]
     /\ inventory' = Upserted(r, [RowOf(r) EXCEPT !.quantity = n])
     /\ createInventoryTransaction(<<Entry(r, "adjustment", n, 0)>>)
     /\ doubtful' = IF RowOf(r).quantity = 0 THEN doubtful ELSE doubtful \cup {r}
     /\ UNCHANGED <<day, hold, claimItem>>

-----------------------------------------------------------------------------
(* receiveShipment of what a shipment carries of one batch, of which it may *)
(* have several rows; its other batches are received apart.  The report    *)
(* names batches, a row of a batch it does not name arrives in full (which *)
(* differs from a full report only when it is not alone), and more than    *)
(* was sent is not reported.  The transaction locks nothing: the status of *)
(* the shipment is read, the row of the shop is read, and the sum is       *)
(* written.                                                                *)
RowsWith(i) ==
  {k \in DOMAIN hold : hold[k].order = hold[i].order /\ hold[k].batch = hold[i].batch}
Sent(i) == Total([k \in RowsWith(i) |-> hold[k].quantity])

ArriveReceipt(c, i, listed, missing, damaged) ==
  LET actual == IF listed THEN Sent(i) - missing ELSE 0
  IN /\ hold[i].status = "in_transit"
     /\ IF listed THEN damaged <= actual
        ELSE missing = 0 /\ damaged = 0 /\ RowsWith(i) # {i}
     /\ Becomes(c, [kind |-> "receive", step |-> "select", line |-> i,
                    listed |-> listed, actual |-> actual, damaged |-> damaged])
     /\ UNCHANGED ledgerVars

ShopRow(c) == <<"shop", hold[req[c].line].batch>>

(* What the report of its batch makes of a row. *)
Good(c, k) == IF req[c].listed THEN req[c].actual - req[c].damaged ELSE hold[k].quantity
Missing(c, k) == IF req[c].listed THEN Maximum(0, hold[k].quantity - req[c].actual) ELSE 0
AllGood(c) == Total([k \in RowsWith(req[c].line) |-> Good(c, k)])

selectShopRow(c) ==
  /\ At(c, "receive", "select")
  /\ req' = [req EXCEPT ![c] = [kind |-> "receive", step |-> "write",
               line |-> @.line, listed |-> @.listed,
               actual |-> @.actual, damaged |-> @.damaged,
               found |-> Stocked(ShopRow(c)), quantity |-> RowOf(ShopRow(c)).quantity]]
  /\ UNCHANGED ledgerVars

(* INSERT when no row was found (unique_inventory_item refuses it when one  *)
(* has come since), UPDATE with the sum when one was.  The second row of a *)
(* batch reads what the first has written.                                 *)
upsertInventory(c) ==
  IF AllGood(c) = 0 THEN UNCHANGED inventory
  ELSE /\ req[c].found \/ ~Stocked(ShopRow(c))
       /\ inventory' = Upserted(ShopRow(c),
             [RowOf(ShopRow(c)) EXCEPT !.quantity = req[c].quantity + AllGood(c)])

Imports(c) ==
  LET s == SetToSeq({k \in RowsWith(req[c].line) : Good(c, k) > 0})
  IN [i \in DOMAIN s |-> Entry(ShopRow(c), "import", Good(c, s[i]), 0)]

Losses(c) ==
  LET s == SetToSeq({k \in RowsWith(req[c].line) : Missing(c, k) + req[c].damaged > 0})
  IN [i \in DOMAIN s |-> [article |-> ArticleOf[ShopRow(c)[2]],
                          missing |-> Missing(c, s[i]), damaged |-> req[c].damaged]]

createClaim(items) == claimItem' = claimItem \o items

receiveShipment(c) ==
  /\ At(c, "receive", "write")
  /\ upsertInventory(c)
  /\ createInventoryTransaction(Imports(c))
  /\ createClaim(Losses(c))
  /\ hold' = [k \in DOMAIN hold |->
       IF k \in RowsWith(req[c].line)
       THEN [hold[k] EXCEPT !.status = "completed", !.receipts = @ + 1] ELSE hold[k]]
  /\ doubtful' = IF AllGood(c) > 0 /\ req[c].quantity # RowOf(ShopRow(c)).quantity
                 THEN doubtful \cup {ShopRow(c)} ELSE doubtful
  /\ Done(c)
  /\ UNCHANGED <<day, batchStatus>>

getBatchQuantity(r) == inventory[r].quantity

(* A claim after the receipt: the goods leave the shop under a row lock     *)
(* (adjustBatchQuantity), after a check of the quantity without one.       *)
ArriveClaim(c, i, missing, damaged) ==
  LET r == <<"shop", hold[i].batch>>
  IN /\ hold[i].status = "completed" /\ missing + damaged > 0
     /\ Stocked(r) /\ missing + damaged <= getBatchQuantity(r)
     /\ Becomes(c, [kind |-> "claim", step |-> "adjust", line |-> i,
                    missing |-> missing, damaged |-> damaged])
     /\ UNCHANGED ledgerVars

createManualClaim(c) ==
  LET lost == req[c].missing + req[c].damaged
  IN /\ At(c, "claim", "adjust")
     /\ adjustBatchQuantity(ShopRow(c), 0 - lost)
     /\ createInventoryTransaction(<<Entry(ShopRow(c), "adjustment", 0 - lost, 0)>>)
     /\ createClaim(<<[article |-> ArticleOf[ShopRow(c)[2]],
                       missing |-> req[c].missing, damaged |-> req[c].damaged]>>)
     /\ Done(c)
     /\ UNCHANGED <<day, batchStatus, hold, doubtful>>

-----------------------------------------------------------------------------
LedgerNext ==
  \/ \E b \in Deliveries, n \in ImportAmounts : import(b, n)
  \/ \E a \in Articles, n \in OrderAmounts : 
       \/ startProduction(a, n)
       \/ \E m \in SecondAmounts(served) : lockStockForOrder(a, n, m)
  \/ \E order \in {hold[i].order : i \in DOMAIN hold} :
       \/ releaseStock(order) \/ export(order)
       \/ \E b \in Batches \ Deliveries, n \in CountedAmounts : finishProduction(order, b, n)
  \/ \E b \in Batches, n \in CountedAmounts :
       \/ adjustKitchenInventory(b, n)
       \/ \E status \in {batchStatus[b], "active"} : correctBatch(b, n, status)
  \/ \E b \in Batches, status \in {"damaged", "empty"} : reportWaste(b, status)
  \/ nextDay \/ runAutoExpireExpiredBatches
  \/ \E c \in Clients :
       \/ \E i \in DOMAIN hold, d \in Discrepancies(served) :
            \/ \E listed \in BOOLEAN : ArriveReceipt(c, i, listed, d[1], d[2])
            \/ ArriveClaim(c, i, d[1], d[2])
       \/ selectShopRow(c) \/ receiveShipment(c) \/ createManualClaim(c)

LedgerTypeOK ==
  /\ day \in 0..LastDay
  /\ DOMAIN inventory \subseteq Places \X Batches
  /\ \A r \in DOMAIN inventory : inventory[r] \in InventoryRow /\ Known(r[2])
  /\ batchStatus \in [Batches -> BatchStatus \cup {"none"}]
  /\ \A i \in DOMAIN ledger : ledger[i] \in TransactionRow
  /\ \A i \in DOMAIN hold : hold[i] \in HoldRow
  /\ \A i \in DOMAIN claimItem : claimItem[i] \in ClaimItemRow
  /\ doubtful \subseteq DOMAIN inventory
=============================================================================
