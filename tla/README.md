# A TLA+ model of the central-kitchen supply chain

The repository is the back end of a franchise chain: stores order food from a
central kitchen, the kitchen reserves stock batch by batch, first expired first
out, loads trucks, and the stores receive and claim. It is a NestJS server over
PostgreSQL (drizzle); several requests run at the same time, in transactions at
the default isolation level, READ COMMITTED. Everything hard about it is in one
sentence: **many services read and write the same few rows, some with row locks
and some without**. The modules in this directory model those rows and those
services, TLC checks them on small instances, and TLAPS proves most of what TLC
checks for any instance: the inventory rows, the goods receipts, production, the
life of an order from its creation to its claims with the abstract specification
it implements, and the administration services.

Paths below are relative to `src/src/` of the repository.

1. [Inventory of the system](#1-inventory-of-the-system)
2. [The modules](#2-the-modules)
3. [The properties](#3-the-properties)
4. [The runs and their bounds](#4-the-runs-and-their-bounds)
5. [Where the code disagrees with itself](#5-where-the-code-disagrees-with-itself)
6. [Proofs](#6-proofs)
7. [Abstractions](#7-abstractions)
8. [Not modelled, and why](#8-not-modelled-and-why)
9. [Plan](#9-plan)

## 1. Inventory of the system

| component (`module/...`) | state it keeps | operations that change it | status |
|---|---|---|---|
| **inventory** | `inventory` (quantity, reserved), `batches` (status and copied totals), `inventory_transactions` | reserve, release, export, stock count, waste, nightly expiry, correction of a batch; reports and lists | rows: `StockRows`; the two books: `StockLedger`; reports: `StockReports` |
| **order** | `orders`, `order_items` | create, approve, let the kitchen decide on a short order, reject, cancel, force-cancel, coordination inquiry, batch approval | `OrderService` |
| **shipment** | `shipments`, `shipment_items`, `shipment_orders` | create or join, consolidate, receive | `Fulfilment`, `OrderService`; receipt statement by statement: `StockLedger` |
| **warehouse** | `manifests`, picking state of shipment items | cancel task, finalize, create and consolidate manifests, scan, replace a damaged batch, cancel a manifest, depart | `WarehouseService`; the vehicle of a manifest: `Logistics` |
| **production** | `production_orders`, `production_reservations`, `batch_lineage`, `recipes` | create, start, complete; recipes | `ProductionService`; recipes: `Catalogue` |
| **inbound** | `receipts`, `receipt_items`, new batches | draft, add and delete lines, approve variance, complete, remove | `InboundService` |
| **claim** | `claims`, `claim_items`, store stock | create, resolve | `ClaimService` |
| **auth**, **franchise-store** | `users`, `refresh_tokens`, `otp_codes`, `stores` | log in, rotate, log out, reset; request, approve and reject staff; open, change and close stores; two nightly jobs | `AccountService` |
| **product**, **supplier** | `base_units`, `products`, `batches`, `suppliers` | create, update, deactivate, restore | `Catalogue` |
| **logistics** | `vehicles`, `routes` | create, update, remove | `Logistics` |
| **system-config** | `system_configs`, and a map in the process | read, update, start | `ConfigCache` |
| cloudinary, mail, utilities, controllers, DTOs, seeds | none | I/O, validation | not modelled |

### How they interact

There are no messages between the components. They call each other inside one
transaction (`database/unit-of-work.ts` hands the transaction down) and they
share tables:

```
 store ---> OrderService -----reserve / release-----> InventoryService
              |  create or join a shipment                 ^   ^   ^
              v                                            |   |   |
         ShipmentService <---items---- WarehouseService ---+   |   |
              ^                            (export)            |   |
 store -------+ receive ---shortage---> ClaimService           |   |
                     ProductionService --reserve, consume------+   |
                     nightly job 00:01 --expire, clear reserved----+
 InboundService --- one new batch, put on stock, per accepted line
```

An order is `pending`, perhaps `coordinating` (the kitchen is asked first and
the stock is held meanwhile), `approved`, `picking`, `delivering`, and finally
`completed` or `claimed`, or else `rejected` or `cancelled`. A shipment is
`preparing`, `consolidated`, `in_transit`, `completed` or `cancelled`; it is
made for one order but other orders of the same store and delivery day may join
it. A manifest is a truck load of shipments.

### What is hard

* **Plain reads.** Status checks are SELECTs without a lock, made before the
  write (often before the transaction), and the UPDATE that follows names the
  row by id alone. Two requests about one order both pass the check.
* **Locks where they are used.** The FEFO query of a reservation is
  `FOR UPDATE`; the departure of a manifest takes an advisory lock; an order
  placement takes an advisory lock per store. Each is the only thing between
  the code and a double booking, and no unit test notices when it goes.
* **Deadlocks.** Transactions lock the rows of several batches in the order in
  which they come across them.
* **The nightly job** clears reservations that shipments still rely on.
* **Two bookkeepings.** Reservations are a number on the batch, a log per order
  and items of a shipment; each endpoint must move all three by the same
  amount. The batch's totals are copies, to be recomputed after every write.
* **Checks before writes everywhere else.** The administration endpoints open no
  transaction at all: each is a chain of statements, and another request, or a
  crash, comes between any two.
* **Clamping.** Releases and exports stop at zero (`GREATEST(..., 0)`), which
  hides that something was released twice by eating another order's share.

What makes each component correct:

* *inventory*: no row promises more than it has; physical = available +
  reserved; FEFO; an order is cut only for lack of stock; transactions end.
* *order, shipment, warehouse*: goods of an order stay reserved until they
  leave or the order is called off, and not longer; the physical stock falls by
  what trucks take; nothing leaves unscanned; final decisions are final.
* *production*: ingredients held are there, exactly as the recipe says, and
  each unit consumed can be traced to one output batch.
* *inbound*: a receipt is completed once, with one batch for each line that was
  accepted and none beyond the tolerance without approval.
* *claim*: a claim takes what the store has, once, and is resolved once.

* *accounts*: nobody signs in on an account that has not been handed over;
  sessions end.
* *reference data*: a production order is cooked from the bill it was created
  for; a vehicle on the road is not given away; the settings in memory are those
  of the table.
* *the two books*: the ledger explains the stock, and the reports agree.

The full list of hazards, each at its line and with the properties that cover
it, is in `PROJECT.json`.

## 2. The modules

```
 Quantities  (GREATEST, LEAST, SUM)  ---- QuantitiesProofs (lemmas on sums)
 StockRows -------------------------- StockRowsProofs         MCStockRows
 Fulfilment  (tables, helpers of the services)
   +-- OrderService      \
   +-- WarehouseService   | SupplyChain --------------------- MCSupplyChain
   +-- ClaimService      /    |    +-- SupplyChainProofs  (types, loads)
                              |         +-- WorkflowProofs  (orders, stock)
                    refines   |              +-- PromiseProofs  (refinement, hub)
                         StockPromise
 ProductionService ------------------ ProductionProofs        MCProductionService
 InboundService --------------------- InboundProofs           MCInboundService

 Requests  (clients, and the statements of their requests)
   +-- AccountService \
   +-- Catalogue       |
   +-- Logistics       | Administration ---------------------- MCAdministration
   +-- ConfigCache     |       +-- AdministrationProofs
   +-- StockLedger     |
         +-- StockReports /
```

### StockRows: inventory rows under READ COMMITTED

The finest grain of the project: a step is one SQL statement, or, for the
`FOR UPDATE` query, the locking of one row.

| in the model | in the code |
|---|---|
| `rows[b]`, `base[b]` | newest and committed version of a batch's row in `inventory` together with its status and totals in `batches` |
| `holder[b]` | PostgreSQL's row lock |
| `todo[c]`, `phase[c]` | the statements a service method has left, in its transaction (`UnitOfWork.runInTransaction`) |
| `FindBatches`, `LockRow` | `findBatchesForFEFOWithShelfBuffer`: the WHERE clause sees committed rows; `FOR UPDATE` waits, locks and evaluates it again on the new version |
| `TakeBatch`, `EndLine` | the loop of `lockStockForOrder`, with `available`, `take`, `missing` |
| `Release`, `Export`, `AdjustKitchen`, `ReportWaste`, `ExpireBatch` | `releaseStock(ForShipment)`, `confirmManifestDeparture`, `adjustKitchenInventory`, `reportWaste`, `runAutoExpireExpiredBatches` |
| `Synced` | `syncBatchTotalsFromInventory`, a part of every write |
| `Commit`, `Rollback`, `Throw`, `DeadlockVictim` | end of the transaction: normal, exception or crash, a failed check, PostgreSQL's deadlock detector |

`seen[c]` is what the loop has in memory: the quantities as they were read.
That they are still true when they are used is a property, not an assumption.

### Fulfilment, OrderService, WarehouseService, ClaimService, SupplyChain

One step coarser: the row locks of the statements are the business of
`StockRows`, so an endpoint's transaction is one step. What stays visible is the
read before it. Every endpoint with an unlocked status check is two actions:

* `ArriveX(c)`: the request reads, its guard holds; what it has read and will
  use later (orders, shipments, a load) is kept in `req[c]`;
* the action named for the method: what its transaction writes, whatever has
  happened since.

`Fail(c)` is any exception in between: validation, lost connection, rollback.
`createOrder` and `verifyManifestItem` are one step each: the first is
serialised by an advisory lock per store, the second reads and writes one row.
`Fulfilment` has the tables and the helpers that the services call inside their
transactions; `Offered` and `Allocation` are `lockStockForOrder` as a function
(`StockRows` shows that it may be taken as one), `ShipmentForOrder` is
`createShipmentForOrder`, `ToRelease` is what `releaseStock` looks up.
`Endpoints` chooses which endpoints an instance offers.

The other end of the chain is `storeStock`, the `inventory` rows of the store
warehouses, and `claim`: a receipt credits what it reports good and claims the
rest in the same transaction (`receiveShipment`): row by row, each by the report on
its *batch*. An order may ask for a product in two lines (`FirstLine` says how much of
it the first asks for), and `lockStockForOrder` makes the rows of a shipment line by
line (`RowsOfLine`, `ItemsOf`), so two rows of a shipment may be of one batch. A manual claim takes goods out
of the stock of the store again (`createManualClaim`, whose checks are
`ArriveClaim`), and `resolveClaim` gives a verdict, which moves no goods.

### StockPromise: the abstract specification

An order owns goods until they leave for it, or is called off and all of them
are free again. No tables, requests, shipments or trucks. `SupplyChain` shows
with `KeepsThePromise` that it implements this, under the mapping

    state <- the order's status, in six classes
    free  <- quantity - reserved, per batch
    held  <- the items of the live shipment made for the order
    gone  <- opening quantity - quantity

so that, for example, cancelling a picking task must be one `CallOff` of
exactly that order, and a departure one `Ship` of exactly the orders on board.

### ProductionService

`startProduction` is three steps, because it makes two unlocked reads: the
status (`ArriveStart`), the free quantities (`listAvailableInventoryFefo`), and
the transaction. `completeProduction` is two. The nightly expiry and waste
reports write the same lots at any moment in between. `output[o]` is the
sequence of batches an order has produced, with their lineage.

### InboundService

Receipts and their lines, for any number of requests at a time. The endpoints
differ in how they look at the status of the receipt, and that is what the model
keeps:

| in the model | in the code |
|---|---|
| `receipt[r]`, `approved[r]` | `receipts.status`, `variance_approved_by` |
| `line[i]` | a row of `receipt_items`: its receipt, whether it is still there, whether it has its batch |
| `imported[i]` | what has been put on stock for the line: one batch and one `inventory` row each time |
| `Locked(r)` | `findReceiptWithLock`, held until the transaction of `completeReceipt` ends |
| `findReceiptWithLock`, `completeReceipt` | the two halves of `completeReceipt`: lock, checks and reads; then the writes and the commit |
| `approveReceiptVariance` | lock, check and write with nothing in between: one step |
| `ArriveAdd`, `addReceiptItem` | the draft check (plain SELECT) and, later, the INSERT |
| `ArriveDeleteLine`, `deleteReceiptLine` | the same for the deletion of a line |
| `ArriveRemove`, `ReadBatchIds`, `deleteReceipt` | draft check, SELECT of the batch ids, deletion of the lines and the receipt |
| `Fail` | exception or crash: rollback |

The INSERT of a line checks its foreign key with a `KEY SHARE` lock on the
receipt, which conflicts with the completion's `FOR UPDATE` (and no other lock of
the code would): that is the guard `~Locked` of `addReceiptItem`, and the
mutant without it loses a line. The row of a batch on stock is referenced by
`inventory`, so a removal that has read a batch id fails in the end.

### Requests, Administration

The administration endpoints share a shape: check, perhaps read, write, with an
`await` after each statement and no transaction around them. `Requests` has it
once: `req[c]` is the endpoint a client is in, the statement it has reached and
what it has read. An endpoint is an action `ArriveX` for the checks and one
action for each statement that writes, named for the method. An endpoint whose
check cannot go stale (rows are never deleted, a flag is only set) is one step.
`Abort` is an exception, a lost connection or the end of the process: what has
been written stays. `Administration` puts the services side by side. They share
the clients and no table, so `served` picks, at the start of a behaviour, which
endpoints are called; the sets it is picked from (`Scenarios`) join what meets
in one table.

### AccountService

`store`, `account`, `session` and `code` are the tables `stores`, `users`,
`refresh_tokens` and `otp_codes`. New staff get a placeholder for an address and
a password nobody knows (`insertStaffUsers`); the approval gives them the first
free address of their name and the default password. `password` says who knows
it: nobody, the one who knows the default, or the owner. The unique column
`users.email` is the guard `Unique` of each write. A reset is for whoever reads
the mail: a placeholder address receives none.

### Catalogue

Base units, products, batches as the product module writes them, suppliers,
recipes, and production orders as far as recipes are concerned. Rows are
deactivated, not deleted, and foreign keys hold by construction. The interesting
part is `updateRecipe`: whether an open production order uses the recipe is
asked before, and outside, the transaction that changes it, and `seen` records
which orders there were when it was asked.

### Logistics

Vehicles and routes, with the three places in the warehouse service that touch a
vehicle: a consolidation reads it without a lock, a departure marks it after its
own transaction has committed, and nothing but a PATCH by hand brings it back.
`shown` records the trips whose departure the vehicle's status shows.

### ConfigCache

The table `system_configs` and the map of the process. A read that missed
(`findByKey`, `cacheValue`) and an update (`writeSetting`, `cacheValue`) write the
map after the database has answered, so a value may be overtaken on the way.
`crossed` records for which keys that has happened since the process started;
`Restart` loses the requests and reads the table anew.

### StockLedger, StockReports

`StockLedger` keeps both books of the stock: `inventory`, place by place and
batch by batch, and `ledger`, the rows of `inventory_transactions`. Its actions
are all the endpoints that write either, and what each *logs* is modelled as
carefully as what it does: a reservation and a release log amounts that move
nothing, a start of production logs nothing, a completion logs twice, a
correction logs an absolute quantity. Orders, shipments and manifests are
reduced to `hold`, the rows that keep, carry or have consumed goods. An order may
have a second line of its product (`SecondAmounts`), so that a shipment has two rows
of a batch; it stands for the orders that join a shipment as well. A receipt
is three steps (status, SELECT of the shop's row, write), a manual claim two; it takes
all the rows of a batch, which share what is reported of it (`RowsWith`, `Good`).
`doubtful` collects the rows that were written over or logged twice.

`StockReports` is a module of operators, one for each query on these rows: the
kitchen's summary, drill-down and FEFO mark, the ATP answers a coordinator gets,
the analytics, the losses. Three lists are read page by page by clients
(`NextPage`); rows that the ORDER BY does not tell apart come in any order, which
each query may choose anew.

## 3. The properties

| property | says | can be broken by |
|---|---|---|
| `NeverOverReserved` | no version of a row reserves more than it has | a read that is not locked, a count below the reservations |
| `GoldenEquation` | committed totals satisfy physical = available + reserved | one handler that forgets to synchronise |
| `ReadsStayCurrent` | what the FEFO loop has read is still so when it is used | a missing `FOR UPDATE` |
| `ShortOnlyWhenExhausted` | a line ends short only if the rows it holds are exhausted | a loop that stops early |
| `FirstExpiredFirstOut` (both modules) | a later batch is touched only when the earlier ones are used up | a wrong ORDER BY |
| `EveryTransactionEnds` | no session waits for ever | a wait that is not in the lock graph |
| `PromisedIsReserved` | a batch reserves at least what live shipments hold of it | a release of too much, expiry a day early, a lost increment |
| `ReservedIsPromised` | and nothing more | a cancellation that forgets to release |
| `QueueHoldsItsStock` | reservations = queue + live shipments | release after reserve, double hold |
| `OrderFollowsShipment` | orders and shipments are in matching states | a cancellation that reaches only one of the two |
| `ClosedOrdersStayClosed` | rejected, cancelled and claimed are final, and only a claim may follow completed | a stale status check |
| `FreshAtDelivery` | nothing on a shipment expires before its delivery plus travel and buffer | the cut-off |
| `NeverMoreThanRequested` | a shipment carries at most what its orders asked for | an allocation by whole batches |
| `PhysicalFollowsTrucks` | stock falls by exactly what trucks took, once | a departure that runs twice |
| `NothingLeavesUnscanned` | what is on a departed manifest has left, and was scanned | a check that is skipped, an item that joins late |
| `EveryUnitIsAccounted` | every unit on a received shipment is in the stock of its store or in a claim, and only once unless the store has received two rows of one batch on one shipment; no store has less than nothing | a second receipt, a claim of goods the store has not |
| `NoUnitIsCreditedTwice` | the stock and the claims of a store have no more than has arrived there | expected to fail: two rows of one batch |
| `KeepsThePromise` | refinement of `StockPromise` | any of the above that moves the wrong order's goods |
| `HeldIsReserved`, `RecipeIsMet`, `ConsumptionIsTraced`, `OneBatchPerOrder`, `NeverOutlivesIngredients` | production: ingredients reserved are those of the orders in progress; they cover the recipe exactly; consumption equals lineage; one output; the output expires no later than its ingredients | an allocation by whole lots, a completion that gives back the wrong amount or runs twice |
| `ImportedOnce` | a receipt line comes on stock at most once, and with the accepted quantity | a completion that does not lock the receipt, a net or gross quantity |
| `ExcessIsApproved` | no line beyond the tolerance comes on stock without an approval | a rejected part that does not count as received |
| `CompletionIsWhole` | (action) a completion leaves out no accepted line that is there when it commits | a line inserted between the completion's reads and its writes |
| `OnlyHandedOverAccountsSignIn` | no session belongs to an account that still has its placeholder address | a password given before the approval |
| `SessionsEnd` | an expired refresh token is deleted in the end | a job that deletes the live ones |
| `BillsChangeOnlyUnderNewOrders` | (action) a bill of materials changes only if no order that the change has seen is open on it | a status that does not count as open |
| `DepartedVehicleIsBusy` | once a departure has marked its vehicle, it is on the road until somebody sets its status | an edit that saves the row as it was read |
| `StaleOnlyAfterCrossing` | the map answers with the table's value, unless a write crossed a request about to cache an older one | an update that leaves the map alone |
| `LedgerExplainsStock` | the changes logged for a row add up to its quantity, except where the code wrote over a row or logged twice | waste that logs only what was free |
| `ReportsAgree` | no unit is lost between shelves, trucks, losses and claims, and none is counted twice but those of a row that was received twice or shares the report of its batch; summary and lines, FEFO mark and reservation, suggestion and reservation, alerts and screens agree; a paged list misses only rows that tie | a report with the filter of another one |

Each property of a passing run is accompanied by a mutant of the code
(operators named `X_Something`, with the comment `Mutant:` before them) under
which TLC finds it violated.

## 4. The runs and their bounds

| run | instance | distinct states | shows |
|---|---|---|---|
| `stock_rows` | 2 sessions, 3 batches of 2 products, 6 transactions, 1 midnight | 82,578 | all properties of `StockRows`, with liveness |
| `supply_chain` | 1 request at a time, 2 orders of 2 stores, one of them with two lines of a product, 3 batches, 2 manifests (taken for each other: symmetry), days 0..2, the endpoints of the normal workflow, 2 claims and the nightly job | 288,920 | the life of an order, from request to claim, and the refinement of `StockPromise` |
| `races` | 2 requests at a time, 2 orders of one store, 1 manifest, days 0..2 | 80,384 | approvals, decisions, consolidation, scanning, departures overlapping |
| `coordination` | 1 request at a time, 2 orders of 2 stores, 1 manifest, 1 inquiry, day 0, orders from request to receipt with batch approval and every override | 854,530 | the reservation queue with batch approval, damage, cancelled manifests and forced cancellations; physical stock |
| `production` | 1 request at a time, 2 production orders, 3 lots of 2 ingredients, days 0..2 | 16,410 | production against expiry and waste |
| `inbound` | 2 requests at a time, 2 receipts, 3 lines (one ordered and exceeded in part by a rejected quantity, one rejected in full) | 281,081 | receipts against concurrent edits |
| `administration` | 2 requests at a time, 22 scenarios, 2 users with one name, 2 recipes, 2 vehicles, 1 setting, 3 batches of 2 products and a ledger of 5 to 8 rows | 298,679 | accounts, reference data, vehicles, settings, the two books and the reports |
| `repeated_inquiry`, `decision_race`, `shared_shipment`, `expired_ingredient`, `two_lines` | as needed | | the disagreements of section 5 |

**Bounds.** `Horizon` caps the days, `MaxInquiries` the inquiries, `MaxClaims` the claims
beyond which no manual claim is filed (a receipt claims whatever is short in any
case), `Deficit`
how far exports may drive a quantity below zero (the code has no limit, the
statement beyond it throws in the model), `Surplus` how many units more than
planned a production order may yield. In `administration`, `LastInstant` and
`LastDay` stop the clocks, `MaxSessions` and `MaxCodes` count the tokens and codes ever
issued, `MaxSuffix` is the 100 addresses the code tries, `MaxRows` and `MaxHolds` cap
the ledger and the lines, and `Discrepancies` is what a receipt or claim may report;
the last three depend on the scenario, as does `SecondAmounts`, which gives orders a
second line in the scenario of the receipts. Two lines of one product are the most an
order has. Requests are not bounded: they come back
as long as a guard admits them. The small values are chosen so that the
interesting cases all occur:

* two orders or sessions are the smallest number that can conflict, and every
  conflict listed under the hazards is between two;
* three pieces of chicken against a demand of four, in two batches with
  different expiry days, so that an order is cut, one is split over two batches
  and one is left with nothing, and so that `o2`, whose travel margin is longer,
  may not take the batch that `o1` may; bread has only one batch and one buyer. `o2`
  asks for its chicken in two lines of one piece, which may both come from one batch;
* the first batch expires within the horizon, while a shipment that holds it
  may still be waiting, and the day after the last delivery is reached;
* in `StockRows` one transaction releases a late batch and then reserves from
  an early one while another goes the other way, so deadlocks occur (some 600
  transitions abort a deadlock victim), and one statement is refused;
* the lines of `InboundService`: `i2` has one unit accepted and two rejected
  against two ordered, so it exceeds the order only if both count, and `i3` is
  rejected in full and yields no batch; three lines let one be added while
  another is completed and a third deleted;
* in `administration` the two users have one name and an administrator types in
  the address the first of them would get, so approvals run out of addresses and
  collide; a session may expire and wait for the night; two clients are enough
  for every crossing of a setting and every pair of decisions. The ledger has
  room for two shipments of one batch to one shop, a claim filed twice, or a
  production with a loss that takes from two batches; the reader of a list
  turns pages of one row while rows come in front of them. The tables are compared in states in
  which no request is under way: any request may die, so none of their contents
  is left out;
* the lots of `ProductionService` cover both orders once, with one lot that
  expires on day 1, so a start fails if expiry or waste comes first.

**Deadlock** is checked in `stock_rows`. In the other runs the set of orders and
the days run out and the system may stop; `CHECK_DEADLOCK FALSE` says so.

**Fairness** is assumed only in `FairSpec` of `StockRows`, for
`EveryTransactionEnds`: strong fairness of each session's own `Step`, because
the Node process goes on with a method it has started and PostgreSQL's lock
queue serves a waiter (a row is free again and again, not continuously, hence
strong), and weak fairness of `DeadlockVictim`, because the deadlock detector
runs after `deadlock_timeout`. Nothing is assumed of `Begin`, `Rollback`,
`Midnight` or the nightly job. Without the deadlock detector the property fails:
two sessions wait for each other for ever.
`Administration` assumes weak fairness of `clearExpiredTokens` alone, for
`SessionsEnd`: the scheduler runs the job every night, and it touches nothing
that another request could keep from it. Requests, and the clock, may stop.

**Why some runs are serial.** Properties are only checked where they hold, and
each restriction marks a place where the code lets go of them:

* `supply_chain` and `coordination` use orders of different stores, because orders
  that share a shipment break `OrderFollowsShipment` (run `shared_shipment`);
* `supply_chain` serves one request at a time, because overlapping decisions
  break `ClosedOrdersStayClosed` (run `decision_race`). Like `coordination` and
  `production` it therefore says nothing of requests that overlap: of two
  approvals, finalizations, receipts or completions of one thing, of which the code
  forbids none. Of the requests of the supply chain, only those that `races` serves are shown to be
  harmless,
  and the hazards of `PROJECT.json` say of the others that no property covers them;
* neither serves damage reports to `FreshAtDelivery`, which they break (section 5);
* `races` leaves out `cancelTask`, which, overlapping a consolidation, releases
  goods that the consolidated shipment still carries, and has one manifest,
  because two consolidations put one shipment on both;
* `coordination` sends one inquiry (run `repeated_inquiry`), and the kitchen
  answers only in `supply_chain`, because its answer to a queued order, or during
  an approval, breaks the reservations (section 5). It checks the reservations as
  an action property, `QueueHoldsItsStock`, which excepts the steps of the
  overrides that release what shipments still hold;
* `production` handles one request at a time, because two starts, or two
  completions, of one order both go through;
* `administration` has two requests at a time in every scenario, but one reader.

## 5. Where the code disagrees with itself

Five of these are runs that end in a violation; the trace is a few steps.

* `repeated_inquiry`: `releaseStock` gives back everything ever *logged* as
  reserved for an order and never clears the log. A second inquiry on the same
  day logs the hold again, and the batch approval then releases it twice, the
  second time from another order's stock
  (`order.service.ts:221`, the comment in the line above promises otherwise).
* `decision_race`: an order the store has cancelled becomes approved, because
  approve, reject and cancel check the status without a lock
  (`order.service.ts:826`, `1146`, `1177`).
* `shared_shipment`: departure and receipt advance the order a shipment was
  made for, not those that joined it (`warehouse.service.ts:1055`).
* `expired_ingredient`: production compares expiry with `<` where the nightly
  job uses `<=`, and does not look at the status: an expired lot is reserved
  again on its last day (`production.service.ts:403`).

* `two_lines`: a receipt credits every row of a shipment with what is reported of its
  batch (`shipment.service.ts:354-382`). An order may have two lines of one product:
  neither `create-order.dto.ts:78` nor `createOrder` (`order.service.ts:544`, `676`)
  asks for different ones, and a reservation makes a row of each
  (`inventory.service.ts:1252`). If both take from one batch, a store that
  truthfully reports the two pieces it got is credited four, where
  `bussiness-rule.md:44` says it is credited what it got. Orders that joined one
  shipment have the same effect.

The others were met while modelling, with the same modules under larger
settings, and bound what the passing runs may claim:

* a cancelled manifest releases the goods its shipments still hold
  (`warehouse.service.ts:1113`);
* two receipts of one shipment credit the store twice
  (`shipment.service.ts:333`);
* a batch approval accepts orders that are still pending, without the
  logistics cut-off of a single approval (`order.service.ts:345`);
* the replacement of a damaged batch looks neither at the expiry nor at the
  status of the substitutes (`warehouse.repository.ts:219`);
* an order that joins a shipment between the departure's reads and its writes
  leaves with the truck without having been exported
  (`warehouse.service.ts:1001`), and a damage report can race it (`:916`);
* an approval that would cut an order may be rolled back and leave it to the
  kitchen (`order.service.ts:1119`); if the kitchen accepts, the order is approved
  without goods and without a shipment, although `docs/FRONTEND_ORDER_AND_PRODUCTION.md:42`
  offers the kitchen's answer as an alternative to a second approval, which has
  both; a finalization sends it on the road, and nothing ever completes it.
  A queued order leaves its hold behind. A refusal that overlaps an approval
  releases what the new shipment carries (`:1541`);
* two approvals of one order reserve twice (`order.service.ts:826`), two
  finalizations export twice (`warehouse.service.ts:429`), two consolidations
  put a shipment on two manifests (`:693`);
* a forced cancellation is refused for three statuses instead of being accepted
  for two, as its own message says (`order.service.ts:1234`): it also takes
  orders on the road or received, and releases their stock again, or orders in
  the queue, and never releases theirs (`:1225`);
* a force-cancelled order that stayed on a manifest is revived by its
  departure (`warehouse.service.ts:1055`);
* two starts of production double its reservations, two completions yield two
  batches (`production.service.ts:357`, `474`), and a start does not
  recompute the copied totals (`:410`);
* the stock of a store is checked when a claim is made and subtracted later, so
  two claims of the same goods, or a claim that names a batch twice, drive it
  below zero (`claim.service.ts:136`); the batches need not have been on the
  claimed shipment; a claim can be resolved twice, with two verdicts (`:233`);
* the stock of a store is credited by a SELECT and an UPDATE with the sum, without
  a lock, so that one of two simultaneous changes is lost
  (`inventory.repository.ts:299`);
* the automatic shortage of an inquiry sums the demand of pending orders, which
  the same call has just made coordinating, so it finds none (`order.service.ts:247`);
* a line whose draft check came before a completion is inserted after it, on a
  completed receipt, and never comes on stock (`inbound.service.ts:257`); a
  removal or the deletion of a line that was checked before a completion deletes
  the completed receipt or line afterwards and leaves its batches on stock with
  nothing to trace them to (`:361`, `:376`);
* a line without a stated expiry date gets the day of completion plus the shelf
  life (`inbound.service.ts:139`), where `database/schema.ts:520` and the hint
  returned when it was added (`:318`) say the day of manufacture plus the shelf
  life.
* an available vehicle may be put on two manifests, and both depart with it: the
  consolidation reads it without a lock and the departure does not look
  (`warehouse.service.ts:1086`);
* a completion that yields more or less than planned credits the
  new batch once and logs the difference twice, within `production_output` and
  again as `waste` or `adjustment` (`production.service.ts:610`), so the sum the
  inventory's README tells the reader to reconcile with is off
  (`README_INVENTORY.md:43`): the reason for one of the exceptions of
  `LedgerExplainsStock`;
* `createRecipe` does not ask for an active recipe of the product, although a
  production order can then not be created for it (exactly one is required), and
  a bill may change under an order made while the change was being checked
  (`production.service.ts:143`);
* a store that was closed while its update was under way may open again; `createUser`
  accepts a closed store;
* the refresh of a session asks neither for the status of its user nor for the
  expiry kept in the row;
* the correction of a batch writes an absolute quantity over whatever stands
  there, reservations included, does not recompute the copied totals, and logs
  the quantity as if it were a change (`product.repository.ts:310`);
* a value that was overtaken stays in the map of the settings until the process
  restarts (`system-config.service.ts:78`);
* the analytics' low-stock, aging and expiring lists do not look at the status of
  a batch, which the kitchen's screens do; rows logged by an import carry no value,
  so reports in money ignore them; what is missing at a receipt is in no loss report;
* the lists are ordered by a time that all rows of one transaction share, so a
  reader of pages may see a row twice and miss another (`inventory.repository.ts:1208`).

## 6. Proofs

TLC shows a property on one small instance; the theorems below hold for every
value of the constants that their assumptions admit. Every theorem follows one
pattern: a stronger invariant that is inductive, one lemma for each handler that
says the handler keeps it, one that puts the handlers together, and a temporal step.
Where a theorem has hypotheses beyond the types of the constants, they are named
operators, the runs' own settings satisfy them, and each excludes an interleaving
or an endpoint with which the code *breaks* the property (sections 4 and 5).

| hypothesis | says | why it is there |
|---|---|---|
| `OneAtATime` | one request is served at a time | status checks are plain reads (`order.service.ts:826`, `production.service.ts:357`): with two requests the property is false, as `decision_race` shows |
| `OwnShipments` | no two orders are for one store and one day | a departure and a receipt advance only the order the shipment was made for: false otherwise, as `shared_shipment` shows |
| `Endpoints \subseteq Workflow` | no inquiry, batch approval, forced cancellation, cancelled manifest or damage report | each of them releases or moves goods that shipments hold (section 5) |
| `Normal` | the three above | the setting of the run `supply_chain`, for any number of orders, stores, batches, manifests and days |
| `Hub` | `OneAtATime`, `OwnShipments`, at most one inquiry, no answer of the kitchen and no cancelled task; every other endpoint is open | the setting of the run `coordination`, and more endpoints: a second inquiry, an answer of the kitchen and a cancelled task each release the log of an order again, or leave it behind (`repeated_inquiry`, section 5) |
| `NoBatches` | no batch approval | its cut-off is the delivery day, without the margin of the travel (`order.service.ts:345`, section 5) |
| `NoLateRows` | no manifest made by hand, no damage report | with either, a row can join a truck that is leaving |
| `NoSubstitutes` | no damage report | the substitutes may have any expiry (`warehouse.repository.ts:219`) |
| `OneMargin` | orders of one store and day have one travel margin | the margin is computed from the store (`order.service.ts:77`) |

### Quantities: sums

The invariants of production and of the supply chain are sums over sets of lots,
shipments or orders. `Total` is a fold of the community modules, and the library
has no theorem about it: its induction theorems take an operator as a parameter,
which cannot be instantiated here. `QuantitiesProofs` does without: a claim that
fails for some finite set fails for a smallest one (`SmallestSet`, from the library's
theorem that the strict subset ordering is well-founded), and that one has an
element to take away. So the value of the recursion behind the fold is shown not to
depend on the order in which elements are taken (`SumStep`: any element may come
first), and from that follow sums of equal, larger, added and renamed terms, of
unions, of sums, and of changes of one term, which the other modules cite.

### StockRows

`StockRowsProofs`, for any sets of sessions, batches and products, any
opening stock and expiry days, any set of transactions made of the modelled
statements and any horizon (`StockAssumption` only gives the constants their
types):

| theorem | states |
|---|---|
| `Invariant` | `Spec => []IInv` |
| `TypeCorrect` | `Spec => []TypeOK` |
| `ReservationSafety` | `Spec => []NeverOverReserved` |
| `GoldenEquationHolds` | `Spec => []GoldenEquation` |
| `ReadsAreCurrent` | `Spec => []ReadsStayCurrent` |
| `ShortagesAreReal` | `Spec => ShortOnlyWhenExhausted` |
| `EarliestBatchesFirst` | `Spec => FirstExpiredFirstOut` |

`NeverOverReserved` is not inductive: `TakeBatch` adds to the
reservation of a row what was free *when the row was read*. It preserves the
bound only because that read is current, and the read is current because the
session holds the lock of every row it has read. Hence `IInv` joins

* `TypeOK`;
* `Good(r)` for both versions of every row: typed, within stock, totals in sync;
* `ReadsStayCurrent`: what `seen[c]` has of a row is its newest version, and
  `c` holds its lock (so that two sessions cannot both have read it);
* `UnlockedIsCommitted`: a row nobody holds has no uncommitted version, so that
  what `LockRow` reads after waiting is what the last holder committed;
* `ReadsOnlyInALine`: a session outside a reservation line has nothing in
  memory, and in one it has a statement to serve.

Lemmas about the SQL on one row come first (`SyncedRow`,
`ReserveRow`, `ReleaseRow`, `ExportRow`, `AdjustRow`, `WasteRow`, `ExpireRow`:
each keeps a row good, reserving under the condition that the amount is free).
Then one lemma per kind of step: `WriteRowStep` for a statement that writes a
good row under its lock, `StatementStep` for the five statements, `QuietStep`
for the steps that write no row, `LockRowStep`, `TakeBatchStep`,
`ExpireBatchStep`, and `EndStep` for commit and rollback.

What the theorems do not say: they are about transactions that keep to the
locking of the modelled statements. `replaceDamagedBatchTransaction` and
`startProduction` reserve after an unlocked read and are outside them.

### InboundService

`InboundProofs` proves all the properties of `InboundService`, for any sets of
requests, receipts and lines, any quantities and tolerance
(`InboundAssumption` only gives the constants their types):

| theorem | states |
|---|---|
| `InboundInvariant` | `Spec => []IInv` |
| `InboundTypeCorrect` | `Spec => []TypeOK` |
| `LinesImportedOnce` | `Spec => []ImportedOnce` |
| `NoUnapprovedExcess` | `Spec => []ExcessIsApproved` |
| `CompletionsAreWhole` | `Spec => CompletionIsWhole` |

`ImportedOnce` is not inductive: it needs that a completion's receipt is still a
draft when it writes and that what is on stock belongs to a receipt that is a
draft no more (`OnStockIsCompleted`). The first is a part of `ReadsHold`, which
says that while a completion runs, its receipt is a draft, no line of it has
been missed, and each excess is approved; it holds because nobody else holds the
receipt (`Exclusive`), an INSERT and a removal wait for the lock, approvals are
never withdrawn, and lines only go. There is one lemma per action
(`AddItemStep`, `DeleteReceiptStep`, `BeginCompletionStep`, `CompleteStep`, ...),
`NextIInv` puts them together, and `CompletionStepIsWhole` turns `ReadsHold`
into the action property.

### ProductionService

`ProductionProofs`, for any recipe, orders and lots:

| theorem | states | assumes |
|---|---|---|
| `TypeCorrect` | `Spec => []TypeOK` | |
| `FreshGoods` | `Spec => []NeverOutlivesIngredients` | |
| `IngredientsReserved` | `Spec => []HeldIsReserved` | `OneAtATime` |
| `ConsumptionTraced` | `Spec => []ConsumptionIsTraced` | `OneAtATime` |
| `RecipeMet` | `Spec => []RecipeIsMet` | `OneAtATime` |
| `OneBatch` | `Spec => []OneBatchPerOrder` | `OneAtATime` |
| `EarliestLotsFirst` | `Spec => FirstExpiredFirstOut` | `OneAtATime` |

The first two hold however many requests overlap. The others rest on one
invariant, because none of them is inductive: a completion subtracts from the lots what it
has read as held, so that the sums stay right only if its read is (`ReadsHold`); what
an order holds of a lot must be nothing unless it is in progress; and the
free quantities a start has read must still be those of the lots that are available,
while expiry and waste may have taken lots away. `AllocationServes` is the lemma about the loop over the lots:
it takes no more of a lot than is free, meets the need if it can be met, and touches
a later lot only when the earlier ones are used up.

### SupplyChain

| theorem | states | assumes |
|---|---|---|
| `TypeCorrect` (`SupplyChainProofs`) | `Spec => []TypeOK` | |
| `LoadsAreScanned` (`SupplyChainProofs`) | `Spec => []NothingLeavesUnscanned` | `NoLateRows` |
| `GoodsArriveFresh` (`WorkflowProofs`) | `Spec => []FreshAtDelivery` | `NoBatches`, `NoSubstitutes`, `OneMargin` |
| `OrdersFollowShipments` (`WorkflowProofs`) | `Spec => []OrderFollowsShipment` | `Normal` |
| `ClosedStaysClosed` (`WorkflowProofs`) | `Spec => ClosedOrdersStayClosed` | `Normal` |
| `RequestsAreLimits` (`WorkflowProofs`) | `Spec => []NeverMoreThanRequested` | `Normal` |
| `TrucksTakeTheStock` (`WorkflowProofs`) | `Spec => []PhysicalFollowsTrucks` | `Normal` |
| `NoReservationLeaks` (`WorkflowProofs`) | `Spec => []ReservedIsPromised` | `Normal` |
| `PromisesStayReserved` (`WorkflowProofs`) | `Spec => []PromisedIsReserved` | `Normal` |
| `GoodsAreAccounted` (`WorkflowProofs`) | `Spec => []EveryUnitIsAccounted` | `Normal` |
| `PromiseIsKept` (`PromiseProofs`) | `Spec => KeepsThePromise` | `Normal` |
| `QueueIsKept` (`PromiseProofs`) | `Spec => QueueHoldsItsStock` | `Hub` |
| `TrucksTakeTheStockAnyway` (`PromiseProofs`) | `Spec => []PhysicalFollowsTrucks` | `Hub` |

The first three are about any number of overlapping requests. The inquiry and the
batch approval loop over a choice of orders, in folds within folds (`Requeue`,
`Grant`, `ConsolidatedShipment`), and no lemma about a fold can be proved by
induction here. A fold is unrolled instead: `LoopTurns` gives the *run* of the loop,
a function from the number of turns to what it has computed so far, and `EachTurn`
takes a property from one turn to the next by the smallest turn where it fails. That
is the argument of `InquiryTyped`, `GrantRuns` and `BatchApproveTyped`, the three
loops of the coordination hub. Nothing leaves
unscanned because what is on a manifest is closed to other orders, and because the load
that a departure has read is all there is on its manifest when it writes
(`LoadsScanned`). Goods arrive fresh because all orders on a shipment are for one store
and day, with one cut-off (`FreshLoads`).

With one request at a time and without overrides, `Kept` is the invariant:

* `Typed`: the types, and those of what each kind of request has read;
* `Tracked`: every shipment has exactly one order and every order at most one
  shipment (`OneEach`), in a status that suits it, on an open manifest only while it is
  being prepared (`InStep`), and what the request under way has read still holds
  (`ReadsHold`);
* `Logged`: what is logged as reserved for an order is what is on its shipment, and
  within what it asked for, and nothing is logged for an order that has none;
* `Booked`: each batch has lost what the shipments that left took, and reserves
  what the live ones hold, which is there, unless it has expired.

No part holds alone. A cancelled task releases what the *log* says, which keeps the
sums of `Booked` only by `Logged`; a departure exports the load the request has read,
which is the load of the manifest by `ReadsHold` and each shipment once by `InStep`;
and the clamps of `Released` and `Exported`, which would hide a wrong amount, do
nothing because no more is released than is reserved.

The other end of the road has two books of its own, and `GoodsAreAccounted` adds to
`Typed` and `Tracked`:

* `Delivered`: for each store and product, its stock and its claims together are at
  least the goods of the shipments that have arrived there, and exactly those if none
  of these shipments has two rows of one batch. A report of a receipt is a map from
  batches, so two rows of one batch are both credited with what was reported of the
  batch; `ReceiptSplits` is the lemma that says what becomes of a batch: what is
  credited and what is claimed cover what was sent, and are what was sent if it came
  in one row;
* `ClaimsCovered`: what a claim under way names is still in the stock of its store. The
  check reads outside the transaction (`claim.service.ts`), so this rests on
  `OneAtATime`.

**The refinement.** `StockPromise` sees classes of statuses and sums of goods, so its
steps are stated about the values of four functions (`Story`: the state of each order,
what is free, what is held for whom, what has gone), and there is one
lemma per handler that says which step of the story its writes tell: an approval is a
`Promise` or a `Refuse`, a cancelled task a `CallOff` of exactly that order, a
departure a `Ship` of exactly the orders on board, the nightly job a `Spoil`, a
receipt a `Finish`, and a read, a scan or a manifest is a stutter. `NextTold` joins
them, `InitTold` is the initial state, and `PromiseIsKept` is the theorem.

**The coordination hub.** `Hub` lets the coordinators intervene, and then neither
`InStep` nor `Booked` holds: a forced cancellation reaches an order and not its
truck, a damaged batch loses stock under a shipment, and a batch approval shares out
what the queue holds. What is left of the order is `Life`: still one shipment for each
order (`OneEach`); an order that has one waits no more, an approved order's shipment
is being prepared, and what is on an open truck has not left (`InOrder`); nothing is
logged for an order that is still pending (`LoggedLater`), and none is queued before
the inquiry (`QueuedOnce`), so that an inquiry finds no log to release. `HubReads` is
what the request under way has read of this.

`BooksFollow` is what a step does to the books: the physical stock still follows the
trucks, and reservations that were accounted for by the queue and the live shipments
still are, unless an override takes this very step. Every handler has a lemma
`...Advances` that it keeps `Life` and is such a step. Those of the inquiry and the
batch approval go along the run of the loop: every turn, in which an order gives back
what its log says and takes what it is given, leaves the logs of the queue and the
live shipments together equal to what is reserved (`Covered`, `TurnHolds`); each order
has its turn once, so that its log is what it was when the loop began (`QueueTaken`,
`GrantsTaken`); and the shipment that the last loop makes for an order carries what
that order has taken and nothing else (`ItemsOfOne`), so that what leaves the queue is
on a shipment. `NextHub` joins the handlers.

### Administration

The administration services are proved about as parts of the whole
specification `Administration!Spec`, with its two requests replaced by any number,
any scenarios, and any sets of users, recipes, orders, vehicles and keys.
`AdministrationProofs` begins with the frame: requests always have a kind, and a step of
one service changes requests of its own kinds only (`AccountWithin`,
`CatalogueWithin`, `LogisticsWithin`, `LedgerWithin`, `ConfigWithin`; only `Restart`
ends requests of all of them). On it rest the theorems:

| theorem | states | what the invariant adds |
|---|---|---|
| `SessionsAreOfOwners` | `Spec => []OnlyHandedOverAccountsSignIn` | an account with a password has an address of its own; a login, refresh or reset under way is of such an account, because an address never becomes a placeholder again; an approval under way has an address for its account |
| `OrdersKeepTheirBills` | `Spec => BillsChangeOnlyUnderNewOrders` | the orders a structural change has seen exist and, if they are on its recipe, are closed; closed orders stay closed and no order changes its recipe |
| `VehicleStaysOnTheRoad` | `Spec => []DepartedVehicleIsBusy` | a departure that has still to mark its vehicle is of a departed trip; every trip has its vehicle; an edit writes the fields it was given and no other |
| `MapIsCurrent` | `Spec => []StaleOnlyAfterCrossing` | as long as no crossing is recorded for a key, every request about to cache a value of it has the value of the table |
| `EveryTableIsTyped` | `Spec => []TypeOK` | what each request has read and will write has the type of the column it goes to, and what it refers to was there and is never deleted |
| `LedgerAndStockAgree` | `Spec => []LedgerExplainsStock` | `LedgerInv` |
| `ReportsTellTheSame` | `Spec => []ReportsAgree` | `LedgerInv` and `ReportInv` |

They assume of the constants that the rows at the start are rows of their tables,
that plates are unique and seeded references exist, and of the addresses an
administrator may type in that none is a placeholder (`AccountAssumption`,
`CatalogueAssumption`, `LogisticsAssumption`, `ConfigAssumption`); of the ledger and
the reports, that dates and amounts are numbers, imports and orders positive, the
horizon of the expiring list within that of the near-expiry one, and pages not empty
(`LedgerAssumption`, `ReportAssumption`). For each service, one lemma says what a step
that leaves the tables alone preserves, one per group of endpoints what they preserve,
and `...Invariant` puts them together.

**The ledger.** `LedgerExplainsStock` sums the entries of a row's log.
`LedgerInv` is the types of the tables and of the requests (`LedgerTyped`), with
`Balanced`: every row that nobody wrote over has a quantity equal to the sum of its
entries. Of a step, `LedgerStep` says all that the invariant needs: the entries it
appends to the log sum up, row by row, to what it does to the quantity, or else it
marks the row as doubtful. Every handler has its lemma that it is such a step. The sums
are over positions of a sequence, so `QuantitiesProofs` has the lemmas about them
(what an appended entry or an appended sequence adds, filters, and what several
entries with one key sum up to).

**The reports.** `ReportsAgree` is not inductive either, in three ways.

* That what came in is on a shelf, on a truck or a loss is a claim about
  three tables. `RoadInv` keeps its part about the road: what departures logged for a
  product, what is rolling, what the shop was credited and what was claimed add up to
  nothing less than nothing, and to nothing as long as every report spoke of one row,
  once (`RoadBalances`); a completed shipment was received (`HoldsLeft`); and
  an entry of a loss takes stock away (`LossesAreNegative`). A
  receipt writes entries, rows and claims, each loop weighed by another table;
  `Weighed`, `WeighedByKey` and `WeighedMore` change one weighing into the other, and
  `RowsArrive` compares what a report makes of the rows of a batch with what they
  carried. That a row once received twice, or in company, stays so (`OnceBefore`)
  keeps the exception from being forgotten.
* The pages are read one request at a time, while rows come in. `ReaderOK`: a row that
  was there when the client began, that it has not seen and that shares its time with
  no other, has all the rows of the pages read so far before it.
* A receipt is confirmed between two statements; `LeavesOnce` says that its line is one
  that has left the kitchen.

What the kitchen suggests to pick (`Served`) is what a departure takes, by the same
argument as the loop of the departure.

### Only model-checked

* `EveryTransactionEnds` and `SessionsEnd`: liveness under fairness is out of the
  prover's reach.
* The five properties that are expected to fail.

Every other property of a passing run, invariant or of actions, is a theorem; those
of `SupplyChain` under the hypotheses of the table above.

## 7. Abstractions

* **Quantities** are `numeric(10,2)`: integers here (hundredths in `StockRows`).
* **Guards on data that is not modelled** (debt, capacity, catalogue, high
  value, lead time, price, vehicle, load, fill rate below 20 % without `force`)
  only refuse a request: in the model it is not made, or it `Fail`s.
* **An order has at most two lines of a product** (the code has no limit): enough for
  two rows of one batch. The lines are served one after the other, and what they take
  together is what one line would; the totals of an order are kept by product.
* **Expiry ties** are left open by `ORDER BY expiry_date`; the instances have
  none, and the module assumptions say so.
* **Stale reads**: the status is read when a request arrives; further reads of a
  handler, later in the same method, are taken at its write. Where such a read
  matters (the load of a departure, the item of a damage report, the free lots
  of a production start, the reservations of a completion) it is kept in `req`.
* **Row locks beyond those modelled** (`FOR UPDATE` also locks the joined batch
  rows, the nightly job has its own advisory lock) only remove interleavings.
* **Finalization** picks the rows of the shipment made for the order. **Receipt
  reports** are truthful: of each batch they name, at most what all its rows sent. The
  code accepts any number that is not negative (`receive-shipment.dto.ts`).
* **Receipts**: the tolerance is a constant (an administrator may change it
  between two completions); codes, dates and labels of batches are left out. A
  removal deletes lines and receipt in one step: what happens in between
  (an INSERT, a completion that waits for the lines) makes one of the two fail.
  `completeLegacyLine` and `deleteBatchItem` serve lines that have a batch before
  completion, which the code no longer makes (`inbound.repository.ts:200`).
* **Claims**: missing and damaged are one number; the 24 hours and the evidence
  only refuse a claim; a manual claim names each batch once.
* **The administration services** leave out texts, images, codes, hashes, mails
  and lists. A check and a write that commute with every other statement are one
  step (deactivations). Which endpoints meet is a scenario: services that share no
  table are not interleaved with each other.
* **The ledger** leaves money out. There is one kitchen and one shop (the code
  picks the central warehouse by the number of its rows, and the choice may change
  while there are few). Transactions start in the order in which they commit; a
  start of production takes its ingredients in one step and one for one. Receipts
  report at most what was shipped; the code also accepts more. The batches of a
  shipment are received apart, the rows of one batch together; the second line of an
  order finds batches that expire on one day in the order in which the first did.
  Dates are compared in the first hours of a day: later in the day
  a batch that expires that day is already "expired" for some screens.
* In `ProductionService` the lots are compared with their lineage while they are
  `available`: expiry and waste clear reservations by design.

## 8. Not modelled, and why

* `reportIssue`, the older form of the damage report: it takes any shipment item
  of the batch, one on the road or received included, and throws after it has
  committed, so no property of the model survives it. Picking-list totals.
* Production requests raised by an approval or an inquiry: they create drafts,
  and nothing of the supply chain depends on them.
* The reports of a single store, of sales and of claims that are sums of money,
  and the search terms, filters and names of all the lists.
* Methods no endpoint calls: `changeStock`, `receiveDiscrepancy`, `adjustStock`,
  `adjustInventory`, `lockStockAtomic`, `lockSpecificBatch`,
  `deductStockFromSpecificBatch`, `confirmExport`, `suggestBatchesForPicking`,
  `createBatchWithInventory`, and `createClaimFromShipment`, which asks for a status
  that shipments do not have.
* The copied totals of raw materials in `ProductionService`.
* The flag `pending_price_confirm`, which is set and cleared but read by no guard.
* cloudinary, mail, utilities: I/O. Controllers, DTOs, migrations and seeds:
  declarations and data.

## 9. Plan

In order of importance:

1. `SupplyChain`: waste and stock counts under shipments; production requests
   raised by orders.
2. `ProductionService`: the copied totals; a second client under the guards
   that hold with it.
3. `InboundService` on the rows of `StockRows`: the import as one more transaction
   of a session, and the batch codes it shares with production.

Each new module has one specification, one passing run and, where the code
disagrees with its documentation, at most one run that shows it.
