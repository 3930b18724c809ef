------------------------------ MODULE StockRows ------------------------------
(***************************************************************************)
(* The inventory rows of the central kitchen and the PostgreSQL (READ      *)
(* COMMITTED) transactions that write them.                                *)
(*                                                                         *)
(* One row per batch: inventory.quantity (physical stock) and              *)
(* inventory.reservedQuantity, together with the batch's status and the    *)
(* totals copied to the batches table by syncBatchTotalsFromInventory.     *)
(* A service method is a transaction: a program, i.e. a sequence of        *)
(* statements, each of which locks the rows it writes (UPDATE, or SELECT   *)
(* ... FOR UPDATE) until commit or rollback.  "base" is what other         *)
(* transactions can read, "rows" is the newest version of each row,        *)
(* written by the transaction that holds its lock.                         *)
(*                                                                         *)
(* Quantities are numeric(10,2) in the database: here whole hundredths.    *)
(***************************************************************************)
EXTENDS Quantities, Sequences, FiniteSets

CONSTANTS
  Clients,       \* database sessions running a service method
  Batches,       \* batches stocked in the central warehouse
  Products,
  ProductOf,     \* the product of each batch
  ExpiryOf,      \* the expiry day of each batch
  MinShelfLife,  \* products.min_shelf_life, in days
  Opening,       \* opening quantity of each batch
  Programs,      \* the transactions the services run, as statement sequences
  Horizon,       \* bound: the last day of an instance
  Deficit,       \* bound: how far below zero exports may drive a quantity
  Free,          \* "no session holds the row"
  NoDate         \* a reservation without a logistics cut-off date

Days == 0..Horizon

(* A transaction is a sequence of these statements.  "safety" is the       *)
(* optional safetyMinimumExpiryDateStr of lockStockForOrder.               *)
Statement ==
       [kind : {"reserve"}, product : Products, amount : Nat \ {0},
        safety : Days \cup {NoDate}]
  \cup [kind : {"release", "export"}, batch : Batches, amount : Nat \ {0}]
  \cup [kind : {"adjust"}, batch : Batches, amount : Nat]
  \cup [kind : {"waste"}, batch : Batches, cause : {"damaged", "empty"}]

ASSUME StockAssumption ==
  /\ ProductOf \in [Batches -> Products]
  /\ ExpiryOf \in [Batches -> Nat]
  /\ MinShelfLife \in [Products -> Nat]
  /\ Opening \in [Batches -> Nat]
  /\ Programs \subseteq Seq(Statement)
  /\ Horizon \in Nat
  /\ Deficit \in Nat
  /\ Free \notin Clients
  /\ NoDate \notin Days

VARIABLES
  today,   \* CURRENT_DATE
  base,    \* committed version of every row
  rows,    \* newest version of every row
  holder,  \* the session holding the row lock, or Free
  phase,   \* per session: no transaction, between statements, in one
  todo,    \* per session: the statements still to run
  need,    \* per session: quantity still to reserve for the current line
  cand,    \* per session: rows the FEFO query has found, not yet locked
  seen     \* per session: the rows the FEFO query has returned (as read)

vars == <<today, base, rows, holder, phase, todo, need, cand, seen>>

Status == {"available", "expired", "damaged", "empty"}

Row == [quantity : Int, reserved : Nat, status : Status,
        physical : Int, kept : Nat, open : Nat]

-----------------------------------------------------------------------------
(* Row operations: the SQL the repositories run on one row.                *)

(* A row of this quantity, reservation and status after                    *)
(* syncBatchTotalsFromInventory: batches.physical, reserved and available. *)
Synced(quantity, reserved, status) ==
  [quantity |-> quantity, reserved |-> reserved, status |-> status,
   physical |-> quantity, kept |-> reserved,
   open |-> IF status = "expired" THEN 0
            ELSE Maximum(quantity - reserved, 0)]

reserveInventoryQuantity(r, n) ==
  Synced(r.quantity, r.reserved + n, r.status)

(* Mutant: the GREATEST(..., 0) around the release is dropped. *)
releaseQuantity_NoClamp(r, n) ==
  Synced(r.quantity, r.reserved - n, r.status)

releaseQuantity(r, n) ==
  Synced(r.quantity, Maximum(r.reserved - n, 0), r.status)

decreasePhysicalAndReserved(r, n) ==
  Synced(r.quantity - n, Maximum(r.reserved - n, 0), r.status)

(* Mutant: the totals of the batch are not resynchronised. *)
updateInventoryPhysicalOnly_NoSync(r, actual) == [r EXCEPT !.quantity = actual]

(* adjustKitchenInventory leaves the row, and the totals, alone when the   *)
(* counted quantity is the recorded one.                                   *)
updateInventoryPhysicalOnly(r, actual) ==
  IF actual = r.quantity THEN r ELSE Synced(actual, r.reserved, r.status)

zeroOutInventory(cause) == Synced(0, 0, cause)

clearReservedAndExpire(r) == Synced(r.quantity, 0, "expired")

-----------------------------------------------------------------------------
(* What the FEFO query of one reservation line selects.                    *)

Blocked == {"expired", "damaged", "empty"}

HasStock(r) == r.quantity > r.reserved /\ r.status \notin Blocked

CutOff(s) == IF s.safety = NoDate THEN today + MinShelfLife[s.product]
             ELSE s.safety

FefoMatch(s, b) == ProductOf[b] = s.product /\ ExpiryOf[b] > CutOff(s)

(* A statement sees committed rows and the rows its own transaction wrote. *)
Visible(c, b) == IF holder[b] = c THEN rows[b] ELSE base[b]

CanLock(c, b) == holder[b] \in {c, Free}

(* Mutant: ORDER BY expiry_date DESC. *)
EarliestOf_Latest(S) == {b \in S : \A d \in S : ExpiryOf[b] >= ExpiryOf[d]}

EarliestOf(S) == {b \in S : \A d \in S : ExpiryOf[b] <= ExpiryOf[d]}

NoRows == [b \in {} |-> b]

-----------------------------------------------------------------------------
Init ==
  /\ today = 0
  /\ base = [b \in Batches |-> Synced(Opening[b], 0, "available")]
  /\ rows = base
  /\ holder = [b \in Batches |-> Free]
  /\ phase = [c \in Clients |-> "idle"]
  /\ todo = [c \in Clients |-> << >>]
  /\ need = [c \in Clients |-> 0]
  /\ cand = [c \in Clients |-> {}]
  /\ seen = [c \in Clients |-> NoRows]

(* BEGIN: a request picks one of the service methods. *)
Begin(c) ==
  /\ phase[c] = "idle"
  /\ \E p \in Programs : todo' = [todo EXCEPT ![c] = p]
  /\ phase' = [phase EXCEPT ![c] = "run"]
  /\ UNCHANGED <<today, base, rows, holder, need, cand, seen>>

(* BEGIN of the nightly job: listBatchesToExpire reads the committed rows. *)
BeginExpireJob(c) ==
  LET due == {b \in Batches : /\ ExpiryOf[b] <= today
                              /\ base[b].status \notin {"expired", "damaged"}}
  IN /\ phase[c] = "idle"
     /\ due # {}
     /\ cand' = [cand EXCEPT ![c] = due]
     /\ phase' = [phase EXCEPT ![c] = "expire"]
     /\ UNCHANGED <<today, base, rows, holder, todo, need, seen>>

(* lockStockForOrder, one line: the FEFO query evaluates its WHERE clause. *)
FindBatches(c) ==
  LET s == Head(todo[c])
  IN /\ phase[c] = "run"
     /\ todo[c] # << >>
     /\ s.kind = "reserve"
     /\ need' = [need EXCEPT ![c] = s.amount]
     /\ cand' = [cand EXCEPT ![c] =
                   {b \in Batches : FefoMatch(s, b) /\ HasStock(Visible(c, b))}]
     /\ seen' = [seen EXCEPT ![c] = NoRows]
     /\ phase' = [phase EXCEPT ![c] = "line"]
     /\ UNCHANGED <<today, base, rows, holder, todo>>

(* Mutant: the FEFO query without its FOR UPDATE clause. *)
LockRow_NoForUpdate(c) ==
  /\ phase[c] = "line"
  /\ \E b \in EarliestOf(cand[c]) :
       /\ cand' = [cand EXCEPT ![c] = @ \ {b}]
       /\ seen' = [seen EXCEPT ![c] =
            [d \in DOMAIN @ \cup {b} |-> IF d = b THEN base[b] ELSE @[d]]]
  /\ UNCHANGED <<today, base, rows, holder, phase, todo, need>>

(* ... FOR UPDATE locks the rows found in expiry order, waiting for other   *)
(* sessions, and drops a row whose new version no longer qualifies.        *)
LockRow(c) ==
  /\ phase[c] = "line"
  /\ \E b \in EarliestOf(cand[c]) :
       /\ CanLock(c, b)
       /\ holder' = [holder EXCEPT ![b] = c]
       /\ cand' = [cand EXCEPT ![c] = @ \ {b}]
       /\ seen' = [seen EXCEPT ![c] =
            IF HasStock(rows[b])
            THEN [d \in DOMAIN @ \cup {b} |-> IF d = b THEN rows[b] ELSE @[d]]
            ELSE @]
  /\ UNCHANGED <<today, base, rows, phase, todo, need>>

(* Mutant: the loop ends after the first batch. *)
TakeBatch_FirstOnly(c) ==
  /\ phase[c] = "line"
  /\ cand[c] = {}
  /\ need[c] > 0
  /\ \E b \in EarliestOf(DOMAIN seen[c]) :
       LET take == Minimum(seen[c][b].quantity - seen[c][b].reserved, need[c])
       IN /\ rows' = [rows EXCEPT ![b] = reserveInventoryQuantity(@, take)]
          /\ need' = [need EXCEPT ![c] = @ - take]
  /\ seen' = [seen EXCEPT ![c] = NoRows]
  /\ UNCHANGED <<today, base, holder, phase, todo, cand>>

(* One turn of the loop over the batches returned: take what is free of    *)
(* the quantities read, up to what the line still needs.                   *)
TakeBatch(c) ==
  /\ phase[c] = "line"
  /\ cand[c] = {}
  /\ need[c] > 0
  /\ \E b \in EarliestOf(DOMAIN seen[c]) :
       LET available == seen[c][b].quantity - seen[c][b].reserved
           take == Minimum(available, need[c])
       IN /\ seen' = [seen EXCEPT ![c] = [d \in DOMAIN @ \ {b} |-> @[d]]]
          /\ IF available <= 0
             THEN UNCHANGED <<rows, need>>
             ELSE /\ rows' = [rows EXCEPT ![b] =
                                reserveInventoryQuantity(@, take)]
                  /\ need' = [need EXCEPT ![c] = @ - take]
  /\ UNCHANGED <<today, base, holder, phase, todo, cand>>

(* Mutant: a backorder, the line waits until it is served in full. *)
EndLine_Backorder(c) ==
  /\ phase[c] = "line"
  /\ cand[c] = {}
  /\ need[c] = 0
  /\ todo' = [todo EXCEPT ![c] = Tail(@)]
  /\ seen' = [seen EXCEPT ![c] = NoRows]
  /\ phase' = [phase EXCEPT ![c] = "run"]
  /\ UNCHANGED <<today, base, rows, holder, need, cand>>

(* The line is served, or the batches are used up: "missing" is need.      *)
EndLine(c) ==
  /\ phase[c] = "line"
  /\ cand[c] = {}
  /\ need[c] = 0 \/ DOMAIN seen[c] = {}
  /\ todo' = [todo EXCEPT ![c] = Tail(@)]
  /\ need' = [need EXCEPT ![c] = 0]
  /\ seen' = [seen EXCEPT ![c] = NoRows]
  /\ phase' = [phase EXCEPT ![c] = "run"]
  /\ UNCHANGED <<today, base, rows, holder, cand>>

(* A statement that writes the row of one batch, under its lock. *)
WriteRow(c, b, r) ==
  /\ CanLock(c, b)
  /\ holder' = [holder EXCEPT ![b] = c]
  /\ rows' = [rows EXCEPT ![b] = r]
  /\ todo' = [todo EXCEPT ![c] = Tail(@)]
  /\ UNCHANGED <<today, base, phase, need, cand, seen>>

AtStatement(c, kind) ==
  phase[c] = "run" /\ todo[c] # << >> /\ Head(todo[c]).kind = kind

(* releaseStock and releaseStockForShipment: one logged quantity. *)
Release(c) ==
  /\ AtStatement(c, "release")
  /\ LET s == Head(todo[c])
     IN WriteRow(c, s.batch, releaseQuantity(rows[s.batch], s.amount))

(* confirmManifestDeparture: one shipment item leaves the warehouse. *)
Export(c) ==
  /\ AtStatement(c, "export")
  /\ LET s == Head(todo[c])
     IN /\ rows[s.batch].quantity - s.amount >= -Deficit
        /\ WriteRow(c, s.batch,
                    decreasePhysicalAndReserved(rows[s.batch], s.amount))

(* Mutant: a count below the reserved quantity is accepted. *)
AdjustKitchen_AnyCount(c) ==
  /\ AtStatement(c, "adjust")
  /\ LET s == Head(todo[c])
     IN WriteRow(c, s.batch, updateInventoryPhysicalOnly(rows[s.batch], s.amount))

(* adjustKitchenInventory: the physical quantity becomes the counted one,  *)
(* refused when it is below what is reserved.                              *)
AdjustKitchen(c) ==
  /\ AtStatement(c, "adjust")
  /\ LET s == Head(todo[c])
     IN /\ s.amount >= rows[s.batch].reserved
        /\ WriteRow(c, s.batch,
                    updateInventoryPhysicalOnly(rows[s.batch], s.amount))

(* reportWaste: the whole batch is destroyed, whoever reserved it. *)
ReportWaste(c) ==
  /\ AtStatement(c, "waste")
  /\ LET s == Head(todo[c])
     IN /\ rows[s.batch].quantity > 0
        /\ WriteRow(c, s.batch, zeroOutInventory(s.cause))

(* runAutoExpireExpiredBatches: one batch of the list read at the start. *)
ExpireBatch(c) ==
  /\ phase[c] = "expire"
  /\ \E b \in cand[c] :
       /\ CanLock(c, b)
       /\ holder' = [holder EXCEPT ![b] = c]
       /\ rows' = [rows EXCEPT ![b] = clearReservedAndExpire(@)]
       /\ cand' = [cand EXCEPT ![c] = @ \ {b}]
  /\ UNCHANGED <<today, base, phase, todo, need, seen>>

Held(c) == {b \in Batches : holder[b] = c}

EndTransaction(c) ==
  /\ holder' = [b \in Batches |-> IF holder[b] = c THEN Free ELSE holder[b]]
  /\ phase' = [phase EXCEPT ![c] = "idle"]
  /\ todo' = [todo EXCEPT ![c] = << >>]
  /\ need' = [need EXCEPT ![c] = 0]
  /\ cand' = [cand EXCEPT ![c] = {}]
  /\ seen' = [seen EXCEPT ![c] = NoRows]

Commit(c) ==
  /\ \/ phase[c] = "run" /\ todo[c] = << >>
     \/ phase[c] = "expire" /\ cand[c] = {}
  /\ base' = [b \in Batches |-> IF holder[b] = c THEN rows[b] ELSE base[b]]
  /\ EndTransaction(c)
  /\ UNCHANGED <<today, rows>>

(* An exception, a lost connection or a crash: the database rolls back. *)
Rollback(c) ==
  /\ phase[c] # "idle"
  /\ rows' = [b \in Batches |-> IF holder[b] = c THEN base[b] ELSE rows[b]]
  /\ EndTransaction(c)
  /\ UNCHANGED <<today, base>>

(* The checks that make a service method throw; the one on exports stands  *)
(* for the bound Deficit.                                                  *)
MustThrow(c) ==
  \/ /\ AtStatement(c, "adjust")
     /\ LET s == Head(todo[c])
        IN CanLock(c, s.batch) /\ s.amount < rows[s.batch].reserved
  \/ /\ AtStatement(c, "export")
     /\ LET s == Head(todo[c])
        IN CanLock(c, s.batch) /\ rows[s.batch].quantity - s.amount < -Deficit
  \/ /\ AtStatement(c, "waste")
     /\ LET s == Head(todo[c])
        IN CanLock(c, s.batch) /\ rows[s.batch].quantity <= 0

Throw(c) == MustThrow(c) /\ Rollback(c)

(* The rows a session may be waiting for, and the deadlock detector.       *)
Wanted(c) ==
  IF phase[c] = "line" THEN EarliestOf(cand[c])
  ELSE IF phase[c] = "expire" THEN cand[c]
  ELSE IF phase[c] = "run" /\ todo[c] # << >> /\ Head(todo[c]).kind # "reserve"
       THEN {Head(todo[c]).batch} ELSE {}

Waiting(c) == Wanted(c) # {} /\ \A b \in Wanted(c) : ~CanLock(c, b)

Deadlocked(c) ==
  \E S \in SUBSET Clients :
    /\ c \in S
    /\ \A d \in S : Waiting(d) /\ \A b \in Wanted(d) : holder[b] \in S

DeadlockVictim(c) == Deadlocked(c) /\ Rollback(c)

Midnight ==
  /\ today < Horizon
  /\ today' = today + 1
  /\ UNCHANGED <<base, rows, holder, phase, todo, need, cand, seen>>

Step(c) ==
  \/ FindBatches(c) \/ LockRow(c) \/ TakeBatch(c) \/ EndLine(c)
  \/ Release(c) \/ Export(c) \/ AdjustKitchen(c) \/ ReportWaste(c)
  \/ ExpireBatch(c) \/ Commit(c) \/ Throw(c)

Next ==
  \/ \E c \in Clients :
       Begin(c) \/ BeginExpireJob(c) \/ Step(c) \/ Rollback(c)
       \/ DeadlockVictim(c)
  \/ Midnight

Spec == Init /\ [][Next]_vars

(* The Node process keeps running a started method, PostgreSQL queues lock *)
(* requests (a waiter is served), and aborts one session of a deadlock.    *)
Fairness ==
  /\ \A c \in Clients : SF_vars(Step(c))
  /\ WF_vars(\E c \in Clients : DeadlockVictim(c))

FairSpec == Spec /\ Fairness

-----------------------------------------------------------------------------
(* Properties.                                                             *)

(* Every variable has its type. *)
TypeOK ==
  /\ today \in Days
  /\ base \in [Batches -> Row]
  /\ rows \in [Batches -> Row]
  /\ holder \in [Batches -> Clients \cup {Free}]
  /\ phase \in [Clients -> {"idle", "run", "line", "expire"}]
  /\ todo \in [Clients -> Seq(Statement)]
  /\ need \in [Clients -> Nat]
  /\ cand \in [Clients -> SUBSET Batches]
  /\ seen = [c \in Clients |-> seen[c]]
  /\ \A c \in Clients : /\ DOMAIN seen[c] \subseteq Batches
                       /\ \A b \in DOMAIN seen[c] : seen[c][b] \in Row

(* No row version, committed or not, promises more stock than is there:    *)
(* reserved never exceeds the physical quantity (a quantity driven below   *)
(* zero by an export carries no reservation).  This is what the FOR UPDATE *)
(* of the FEFO query is for.                                               *)
WithinStock(r) == r.reserved <= Maximum(r.quantity, 0)

NeverOverReserved ==
  \A b \in Batches : WithinStock(rows[b]) /\ WithinStock(base[b])

(* The Golden Equation of the batches table, Physical = Available +        *)
(* Reserved, holds in every committed version of a batch that has not      *)
(* expired and was not over-exported: no handler forgets to resynchronise  *)
(* the totals, and the clamp of "available" at zero never hides a deficit. *)
InSync(r) ==
  /\ r.physical = r.quantity
  /\ r.kept = r.reserved
  /\ r.status = "expired" => r.open = 0
  /\ r.status # "expired" => r.open = Maximum(r.quantity - r.reserved, 0)

GoldenEquation ==
  \A b \in Batches :
    /\ InSync(base[b])
    /\ base[b].status # "expired" /\ base[b].physical >= 0
         => base[b].physical = base[b].open + base[b].kept

(* The quantities a reservation line has read are still those of the row   *)
(* when the loop uses them, because the session holds the row's lock.      *)
ReadsStayCurrent ==
  \A c \in Clients : \A b \in DOMAIN seen[c] :
    holder[b] = c /\ seen[c][b] = rows[b]

(* A line ends short only when every sellable row of the product that the  *)
(* session holds is fully reserved: an order is cut ("missing") for lack   *)
(* of stock and for no other reason.                                       *)
ShortOnlyWhenExhausted ==
  \A c \in Clients :
    phase[c] = "line" /\ cand[c] = {} /\ DOMAIN seen[c] = {} /\ need[c] > 0
      => \A b \in Held(c) : FefoMatch(Head(todo[c]), b) => ~HasStock(rows[b])

(* First expired, first out: a session reserves from a batch only when     *)
(* every batch of the product it holds that expires earlier (and still     *)
(* passes the cut-off date) has nothing left to reserve.                   *)
Takes(c, b) == /\ phase[c] = "line" /\ phase'[c] = "line"
               /\ holder[b] = c
               /\ rows'[b].reserved > rows[b].reserved

FirstExpiredFirstOut ==
  [][\A c \in Clients : \A b \in Batches : Takes(c, b) =>
       \A d \in Held(c) :
         FefoMatch(Head(todo[c]), d) /\ ExpiryOf[d] < ExpiryOf[b]
           => ~HasStock(rows[d])]_vars

(* Every transaction ends: no session waits for a row for ever, whatever   *)
(* the order in which two orders list their products.                      *)
EveryTransactionEnds ==
  \A c \in Clients : phase[c] # "idle" ~> phase[c] = "idle"
=============================================================================
