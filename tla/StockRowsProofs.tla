--------------------------- MODULE StockRowsProofs ---------------------------
(* Theorems of StockRows, for any number of sessions, batches and products *)
(* and any set of transactions.                                            *)
EXTENDS StockRows, TLAPS

(* What every version of a row satisfies. *)
Good(r) == r \in Row /\ WithinStock(r) /\ InSync(r)

(* The inductive invariant: good rows, reads that are current because they *)
(* are locked, and no uncommitted change on a row nobody holds.            *)
UnlockedIsCommitted ==
  \A b \in Batches : holder[b] = Free => rows[b] = base[b]

ReadsOnlyInALine ==
  \A c \in Clients : /\ phase[c] # "line" => DOMAIN seen[c] = {}
                     /\ phase[c] = "line" => todo[c] # << >>

IInv ==
  /\ TypeOK
  /\ \A b \in Batches : Good(rows[b]) /\ Good(base[b])
  /\ ReadsStayCurrent
  /\ UnlockedIsCommitted
  /\ ReadsOnlyInALine

-----------------------------------------------------------------------------
(* Lemmas about the SQL on one row.                                        *)

(* A row that syncBatchTotalsFromInventory has just recomputed is good as  *)
(* soon as it does not reserve more than it holds.                         *)
LEMMA SyncedRow ==
  ASSUME NEW q \in Int, NEW v \in Nat, NEW s \in Status, v <= Maximum(q, 0)
  PROVE  Good(Synced(q, v, s))
  BY DEF Good, Synced, Row, WithinStock, InSync, Maximum

(* Reserving what is free keeps a row good. *)
LEMMA ReserveRow ==
  ASSUME NEW r \in Row, NEW n \in Nat, n <= r.quantity - r.reserved
  PROVE  Good(reserveInventoryQuantity(r, n))
<1>1. /\ r.quantity \in Int /\ r.reserved \in Nat /\ r.status \in Status
  BY DEF Row
<1>2. /\ r.reserved + n \in Nat /\ r.reserved + n <= Maximum(r.quantity, 0)
  BY <1>1 DEF Maximum
<1> QED
  BY <1>1, <1>2, SyncedRow DEF reserveInventoryQuantity

(* Giving back any quantity, more than was taken included, does. *)
LEMMA ReleaseRow ==
  ASSUME NEW r \in Row, WithinStock(r), NEW n \in Nat
  PROVE  Good(releaseQuantity(r, n))
<1>1. /\ r.quantity \in Int /\ r.reserved \in Nat /\ r.status \in Status
  BY DEF Row
<1>2. /\ Maximum(r.reserved - n, 0) \in Nat
      /\ Maximum(r.reserved - n, 0) <= Maximum(r.quantity, 0)
  BY <1>1 DEF Maximum, WithinStock
<1> QED
  BY <1>1, <1>2, SyncedRow DEF releaseQuantity

(* So does taking goods out of the warehouse, reserved or not. *)
LEMMA ExportRow ==
  ASSUME NEW r \in Row, WithinStock(r), NEW n \in Nat
  PROVE  Good(decreasePhysicalAndReserved(r, n))
<1>1. /\ r.quantity \in Int /\ r.reserved \in Nat /\ r.status \in Status
  BY DEF Row
<1>2. /\ r.quantity - n \in Int
      /\ Maximum(r.reserved - n, 0) \in Nat
      /\ Maximum(r.reserved - n, 0) <= Maximum(r.quantity - n, 0)
  BY <1>1 DEF Maximum, WithinStock
<1> QED
  BY <1>1, <1>2, SyncedRow DEF decreasePhysicalAndReserved

(* A stock count that is not below the reservations does. *)
LEMMA AdjustRow ==
  ASSUME NEW r, Good(r), NEW n \in Nat, n >= r.reserved
  PROVE  Good(updateInventoryPhysicalOnly(r, n))
<1>1. /\ r.quantity \in Int /\ r.reserved \in Nat /\ r.status \in Status
  BY DEF Good, Row
<1>2. Good(Synced(n, r.reserved, r.status))
  BY <1>1, SyncedRow DEF Maximum
<1> QED
  BY <1>2 DEF updateInventoryPhysicalOnly

(* Destroying or expiring a batch does: its reservations go with it. *)
LEMMA WasteRow ==
  ASSUME NEW cause \in Status
  PROVE  Good(zeroOutInventory(cause))
  BY SyncedRow DEF zeroOutInventory, Maximum

(* Expiry cancels every reservation of the batch. *)
LEMMA ExpireRow ==
  ASSUME NEW r \in Row
  PROVE  Good(clearReservedAndExpire(r))
<1>1. r.quantity \in Int /\ 0 <= Maximum(r.quantity, 0)
  BY DEF Row, Maximum
<1> QED
  BY <1>1, SyncedRow DEF clearReservedAndExpire, Status

(* The fields of a statement, kind by kind. *)
LEMMA StatementFields ==
  ASSUME NEW s \in Statement
  PROVE  /\ s.kind = "reserve" => s.product \in Products /\ s.amount \in Nat
         /\ s.kind \in {"release", "export", "adjust"}
              => s.batch \in Batches /\ s.amount \in Nat
         /\ s.kind = "waste" => s.batch \in Batches /\ s.cause \in Status
  BY DEF Statement, Status

-----------------------------------------------------------------------------
(* The invariant holds initially and every step keeps it.                  *)

(* The freshly seeded warehouse satisfies the invariant. *)
LEMMA InitIInv == Init => IInv
<1> SUFFICES ASSUME Init PROVE IInv
  OBVIOUS
<1>1. \A b \in Batches : Good(Synced(Opening[b], 0, "available"))
  BY StockAssumption, SyncedRow DEF Maximum, Status
<1>2. TypeOK
  BY <1>1, StockAssumption DEF Init, TypeOK, Good, Days, NoRows
<1>3. \A b \in Batches : Good(rows[b]) /\ Good(base[b])
  BY <1>1 DEF Init
<1>4. ReadsStayCurrent /\ UnlockedIsCommitted /\ ReadsOnlyInALine
  BY DEF Init, ReadsStayCurrent, UnlockedIsCommitted, ReadsOnlyInALine, NoRows
<1> QED
  BY <1>2, <1>3, <1>4 DEF IInv

(* A statement that writes a good row under its lock keeps the invariant.  *)
LEMMA WriteRowStep ==
  ASSUME IInv, NEW c \in Clients, NEW b \in Batches, NEW r, Good(r),
         phase[c] = "run", todo[c] # << >>, WriteRow(c, b, r)
  PROVE  IInv'
<1> USE DEF WriteRow, IInv
<1>1. TypeOK'
  <2>1. Tail(todo[c]) \in Seq(Statement)
    BY DEF TypeOK
  <2> QED
    BY <2>1 DEF TypeOK, Good
<1>2. (\A d \in Batches : Good(rows[d]) /\ Good(base[d]))'
  BY DEF TypeOK
<1>3. ReadsStayCurrent'
  <2>1. SUFFICES ASSUME NEW d \in Clients, NEW e \in DOMAIN seen[d]
                 PROVE  holder'[e] = d /\ seen[d][e] = rows'[e]
    BY DEF ReadsStayCurrent
  <2>2. e \in Batches /\ holder[e] = d /\ seen[d][e] = rows[e]
    BY DEF ReadsStayCurrent, TypeOK
  <2>3. d # c
    BY DEF ReadsOnlyInALine
  <2>4. e # b
    BY <2>2, <2>3, StockAssumption DEF CanLock
  <2> QED
    BY <2>2, <2>4 DEF TypeOK
<1>4. UnlockedIsCommitted'
  BY StockAssumption DEF UnlockedIsCommitted, TypeOK
<1>5. ReadsOnlyInALine'
  BY DEF ReadsOnlyInALine
<1> QED
  BY <1>1, <1>2, <1>3, <1>4, <1>5

(* The statements that write one row. *)
LEMMA StatementStep ==
  ASSUME IInv, NEW c \in Clients,
         Release(c) \/ Export(c) \/ AdjustKitchen(c) \/ ReportWaste(c)
  PROVE  IInv'
<1> DEFINE s == Head(todo[c])
<1>1. /\ phase[c] = "run" /\ todo[c] # << >>
      /\ s.kind \in {"release", "export", "adjust", "waste"}
  BY DEF Release, Export, AdjustKitchen, ReportWaste, AtStatement
<1>2. s \in Statement
  BY <1>1 DEF IInv, TypeOK
<1>3. s.batch \in Batches
  BY <1>1, <1>2, StatementFields
<1>4. /\ Good(rows[s.batch])
      /\ rows[s.batch] \in Row
      /\ WithinStock(rows[s.batch])
  BY <1>3 DEF IInv, Good
<1>5. CASE Release(c)
  <2>1. s.amount \in Nat
    BY <1>2, <1>5, StatementFields DEF Release, AtStatement
  <2>2. Good(releaseQuantity(rows[s.batch], s.amount))
    BY <1>4, <2>1, ReleaseRow
  <2> QED
    BY <1>1, <1>3, <1>5, <2>2, WriteRowStep DEF Release
<1>6. CASE Export(c)
  <2>1. s.amount \in Nat
    BY <1>2, <1>6, StatementFields DEF Export, AtStatement
  <2>2. Good(decreasePhysicalAndReserved(rows[s.batch], s.amount))
    BY <1>4, <2>1, ExportRow
  <2> QED
    BY <1>1, <1>3, <1>6, <2>2, WriteRowStep DEF Export
<1>7. CASE AdjustKitchen(c)
  <2>1. s.amount \in Nat /\ s.amount >= rows[s.batch].reserved
    BY <1>2, <1>7, StatementFields DEF AdjustKitchen, AtStatement
  <2>2. Good(updateInventoryPhysicalOnly(rows[s.batch], s.amount))
    BY <1>4, <2>1, AdjustRow
  <2> QED
    BY <1>1, <1>3, <1>7, <2>2, WriteRowStep DEF AdjustKitchen
<1>8. CASE ReportWaste(c)
  <2>1. s.cause \in Status
    BY <1>2, <1>8, StatementFields DEF ReportWaste, AtStatement
  <2>2. Good(zeroOutInventory(s.cause))
    BY <2>1, WasteRow
  <2> QED
    BY <1>1, <1>3, <1>8, <2>2, WriteRowStep DEF ReportWaste
<1> QED
  BY <1>5, <1>6, <1>7, <1>8

(* BEGIN, the FEFO query, the end of a line and midnight write no row.     *)
LEMMA QuietStep ==
  ASSUME IInv, NEW c \in Clients,
         Begin(c) \/ BeginExpireJob(c) \/ FindBatches(c) \/ EndLine(c) \/ Midnight
  PROVE  IInv'
<1> USE DEF IInv
<1>1. CASE Begin(c)
  <2>1. TypeOK'
    BY <1>1, StockAssumption DEF Begin, TypeOK
  <2> QED
    BY <1>1, <2>1 DEF Begin, ReadsStayCurrent, UnlockedIsCommitted,
                      ReadsOnlyInALine, TypeOK
<1>2. CASE BeginExpireJob(c)
  <2>1. TypeOK'
    BY <1>2 DEF BeginExpireJob, TypeOK
  <2> QED
    BY <1>2, <2>1 DEF BeginExpireJob, ReadsStayCurrent, UnlockedIsCommitted,
                      ReadsOnlyInALine, TypeOK
<1>3. CASE FindBatches(c)
  <2>1. Head(todo[c]).amount \in Nat
    BY <1>3, StatementFields DEF FindBatches, TypeOK
  <2>2. TypeOK'
    BY <1>3, <2>1 DEF FindBatches, TypeOK, NoRows
  <2> QED
    BY <1>3, <2>2 DEF FindBatches, ReadsStayCurrent, UnlockedIsCommitted,
                      ReadsOnlyInALine, TypeOK, NoRows
<1>4. CASE EndLine(c)
  <2>1. todo'[c] \in Seq(Statement)
    BY <1>4 DEF EndLine, TypeOK, ReadsOnlyInALine
  <2>2. TypeOK'
    BY <1>4, <2>1 DEF EndLine, TypeOK, NoRows
  <2> QED
    BY <1>4, <2>2 DEF EndLine, ReadsStayCurrent, UnlockedIsCommitted,
                      ReadsOnlyInALine, TypeOK, NoRows
<1>5. CASE Midnight
  <2>1. TypeOK'
    BY <1>5, StockAssumption DEF Midnight, TypeOK, Days
  <2> QED
    BY <1>5, <2>1 DEF Midnight, ReadsStayCurrent, UnlockedIsCommitted,
                      ReadsOnlyInALine, TypeOK
<1> QED
  BY <1>1, <1>2, <1>3, <1>4, <1>5

(* FOR UPDATE: a row is locked, and read if it still qualifies. *)
LEMMA LockRowStep ==
  ASSUME IInv, NEW c \in Clients, LockRow(c)
  PROVE  IInv'
<1> USE DEF IInv
<1>1. PICK b \in EarliestOf(cand[c]) :
        /\ CanLock(c, b)
        /\ holder' = [holder EXCEPT ![b] = c]
        /\ cand' = [cand EXCEPT ![c] = @ \ {b}]
        /\ seen' = [seen EXCEPT ![c] =
             IF HasStock(rows[b])
             THEN [d \in DOMAIN @ \cup {b} |-> IF d = b THEN rows[b] ELSE @[d]]
             ELSE @]
  BY DEF LockRow
<1>2. b \in Batches
  BY DEF EarliestOf, TypeOK
<1>3. /\ phase[c] = "line"
      /\ UNCHANGED <<today, base, rows, phase, todo, need>>
  BY DEF LockRow
<1>4. \A d \in Clients : \A e \in DOMAIN seen'[d] :
        \/ e \in DOMAIN seen[d] /\ seen'[d][e] = seen[d][e]
        \/ d = c /\ e = b /\ seen'[d][e] = rows[b]
  BY <1>1 DEF TypeOK
<1>5. TypeOK'
  <2>1. \A d \in Clients : /\ DOMAIN seen'[d] \subseteq Batches
                         /\ \A e \in DOMAIN seen'[d] : seen'[d][e] \in Row
    BY <1>2, <1>4 DEF TypeOK
  <2>2. holder' \in [Batches -> Clients \cup {Free}]
    BY <1>1, <1>2 DEF TypeOK
  <2>3. cand' \in [Clients -> SUBSET Batches]
    BY <1>1 DEF TypeOK
  <2>4. seen' = [d \in Clients |-> seen'[d]]
    BY <1>1 DEF TypeOK
  <2> QED
    BY <1>3, <2>1, <2>2, <2>3, <2>4 DEF TypeOK
<1>6. ReadsStayCurrent'
  <2>1. SUFFICES ASSUME NEW d \in Clients, NEW e \in DOMAIN seen'[d]
                 PROVE  holder'[e] = d /\ seen'[d][e] = rows'[e]
    BY DEF ReadsStayCurrent
  <2>2. CASE e \in DOMAIN seen[d] /\ seen'[d][e] = seen[d][e]
    <3>1. e \in Batches /\ holder[e] = d /\ seen[d][e] = rows[e]
      BY <2>2 DEF ReadsStayCurrent, TypeOK
    <3>2. e = b => d = c
      BY <1>1, <3>1, StockAssumption DEF CanLock
    <3> QED
      BY <1>1, <1>3, <2>2, <3>1, <3>2 DEF TypeOK
  <2>3. CASE d = c /\ e = b /\ seen'[d][e] = rows[b]
    BY <1>1, <1>2, <1>3, <2>3 DEF TypeOK
  <2> QED
    BY <1>4, <2>2, <2>3
<1>7. UnlockedIsCommitted'
  BY <1>1, <1>2, <1>3, StockAssumption DEF UnlockedIsCommitted, TypeOK
<1>8. ReadsOnlyInALine'
  BY <1>1, <1>3 DEF ReadsOnlyInALine, TypeOK
<1> QED
  BY <1>3, <1>5, <1>6, <1>7, <1>8

(* One turn of the loop: what is taken was free when it was read, and the  *)
(* lock makes that free still.                                             *)
LEMMA TakeBatchStep ==
  ASSUME IInv, NEW c \in Clients, TakeBatch(c)
  PROVE  IInv'
<1> USE DEF IInv
<1>1. PICK b \in EarliestOf(DOMAIN seen[c]) :
        LET available == seen[c][b].quantity - seen[c][b].reserved
            take == Minimum(available, need[c])
        IN /\ seen' = [seen EXCEPT ![c] = [d \in DOMAIN @ \ {b} |-> @[d]]]
           /\ IF available <= 0
              THEN UNCHANGED <<rows, need>>
              ELSE /\ rows' = [rows EXCEPT ![b] =
                                 reserveInventoryQuantity(@, take)]
                   /\ need' = [need EXCEPT ![c] = @ - take]
  BY DEF TakeBatch
<1>2. /\ phase[c] = "line"
      /\ UNCHANGED <<today, base, holder, phase, todo, cand>>
  BY DEF TakeBatch
<1>3. /\ b \in DOMAIN seen[c] /\ b \in Batches
      /\ holder[b] = c /\ seen[c][b] = rows[b]
  BY DEF EarliestOf, TypeOK, ReadsStayCurrent
<1> DEFINE available == rows[b].quantity - rows[b].reserved
           take == Minimum(available, need[c])
<1>4. \/ rows' = rows /\ need' = need
      \/ /\ take \in Nat /\ need[c] - take \in Nat
         /\ Good(reserveInventoryQuantity(rows[b], take))
         /\ rows' = [rows EXCEPT ![b] = reserveInventoryQuantity(@, take)]
         /\ need' = [need EXCEPT ![c] = @ - take]
  <2>1. rows[b] \in Row /\ available \in Int /\ need[c] \in Nat
    BY <1>3 DEF TypeOK, Row
  <2>2. CASE available <= 0
    BY <1>1, <1>3, <2>2
  <2>3. CASE ~(available <= 0)
    <3>1. take \in Nat /\ take <= available /\ need[c] - take \in Nat
      BY <2>1, <2>3 DEF Minimum
    <3>2. Good(reserveInventoryQuantity(rows[b], take))
      BY <2>1, <3>1, ReserveRow
    <3> QED
      BY <1>1, <1>3, <2>3, <3>1, <3>2
  <2> QED
    BY <2>2, <2>3
<1>5. \A d \in Clients : \A e \in DOMAIN seen'[d] :
        /\ e \in DOMAIN seen[d] /\ seen'[d][e] = seen[d][e]
        /\ e # b
  <2>1. SUFFICES ASSUME NEW d \in Clients, NEW e \in DOMAIN seen'[d]
                 PROVE  /\ e \in DOMAIN seen[d] /\ seen'[d][e] = seen[d][e]
                        /\ e # b
    OBVIOUS
  <2>2. e \in DOMAIN seen[d] /\ seen'[d][e] = seen[d][e]
    BY <1>1 DEF TypeOK
  <2>3. holder[e] = d
    BY <2>2 DEF ReadsStayCurrent
  <2>4. d = c => e # b
    BY <1>1, <2>1 DEF TypeOK
  <2> QED
    BY <1>3, <2>2, <2>3, <2>4
<1>6. (\A d \in Batches : Good(rows[d]) /\ Good(base[d]))'
  BY <1>2, <1>3, <1>4 DEF TypeOK
<1>7. TypeOK'
  <2>1. rows' \in [Batches -> Row]
    BY <1>3, <1>4 DEF TypeOK, Good
  <2>2. need' \in [Clients -> Nat]
    BY <1>4 DEF TypeOK
  <2>3. seen' = [d \in Clients |-> seen'[d]]
    BY <1>1 DEF TypeOK
  <2>4. \A d \in Clients : /\ DOMAIN seen'[d] \subseteq Batches
                         /\ \A e \in DOMAIN seen'[d] : seen'[d][e] \in Row
    BY <1>5 DEF TypeOK
  <2> QED
    BY <1>2, <2>1, <2>2, <2>3, <2>4 DEF TypeOK
<1>8. ReadsStayCurrent'
  BY <1>2, <1>3, <1>4, <1>5 DEF ReadsStayCurrent, TypeOK
<1>9. UnlockedIsCommitted'
  BY <1>2, <1>3, <1>4, StockAssumption DEF UnlockedIsCommitted, TypeOK
<1>10. ReadsOnlyInALine'
  BY <1>1, <1>2 DEF ReadsOnlyInALine, TypeOK
<1> QED
  BY <1>6, <1>7, <1>8, <1>9, <1>10

(* The nightly job, one batch. *)
LEMMA ExpireBatchStep ==
  ASSUME IInv, NEW c \in Clients, ExpireBatch(c)
  PROVE  IInv'
<1> USE DEF IInv
<1>1. PICK b \in cand[c] :
        /\ CanLock(c, b)
        /\ holder' = [holder EXCEPT ![b] = c]
        /\ rows' = [rows EXCEPT ![b] = clearReservedAndExpire(@)]
        /\ cand' = [cand EXCEPT ![c] = @ \ {b}]
  BY DEF ExpireBatch
<1>2. /\ phase[c] = "expire"
      /\ UNCHANGED <<today, base, phase, todo, need, seen>>
  BY DEF ExpireBatch
<1>3. b \in Batches /\ rows[b] \in Row
  BY DEF TypeOK
<1>4. Good(clearReservedAndExpire(rows[b]))
  BY <1>3, ExpireRow
<1>5. TypeOK'
  BY <1>1, <1>2, <1>3, <1>4 DEF TypeOK, Good
<1>6. (\A d \in Batches : Good(rows[d]) /\ Good(base[d]))'
  BY <1>1, <1>2, <1>3, <1>4 DEF TypeOK
<1>7. ReadsStayCurrent'
  <2>1. SUFFICES ASSUME NEW d \in Clients, NEW e \in DOMAIN seen[d]
                 PROVE  holder'[e] = d /\ seen[d][e] = rows'[e]
    BY <1>2 DEF ReadsStayCurrent
  <2>2. e \in Batches /\ holder[e] = d /\ seen[d][e] = rows[e]
    BY DEF ReadsStayCurrent, TypeOK
  <2>3. d # c
    BY <1>2 DEF ReadsOnlyInALine
  <2>4. e # b
    BY <1>1, <2>2, <2>3, StockAssumption DEF CanLock
  <2> QED
    BY <1>1, <2>2, <2>4 DEF TypeOK
<1>8. UnlockedIsCommitted'
  BY <1>1, <1>2, <1>3, StockAssumption DEF UnlockedIsCommitted, TypeOK
<1>9. ReadsOnlyInALine'
  BY <1>2 DEF ReadsOnlyInALine
<1> QED
  BY <1>5, <1>6, <1>7, <1>8, <1>9

(* The end of a transaction publishes the rows it holds, or restores them, *)
(* and frees them.                                                         *)
LEMMA EndStep ==
  ASSUME IInv, NEW c \in Clients, Commit(c) \/ Rollback(c)
  PROVE  IInv'
<1> USE DEF IInv
<1>1. /\ EndTransaction(c) /\ UNCHANGED today
      /\ \/ /\ base' = [b \in Batches |-> IF holder[b] = c THEN rows[b] ELSE base[b]]
            /\ rows' = rows
         \/ /\ rows' = [b \in Batches |-> IF holder[b] = c THEN base[b] ELSE rows[b]]
            /\ base' = base
  BY DEF Commit, Rollback
<1>2. /\ holder' = [b \in Batches |-> IF holder[b] = c THEN Free ELSE holder[b]]
      /\ phase' = [phase EXCEPT ![c] = "idle"]
      /\ todo' = [todo EXCEPT ![c] = << >>]
      /\ seen' = [seen EXCEPT ![c] = NoRows]
  BY <1>1 DEF EndTransaction
<1>3. (\A b \in Batches : Good(rows[b]) /\ Good(base[b]))'
  BY <1>1
<1>4. TypeOK'
  <2>1. rows' \in [Batches -> Row] /\ base' \in [Batches -> Row]
    BY <1>1 DEF TypeOK
  <2>2. holder' \in [Batches -> Clients \cup {Free}]
    BY <1>2 DEF TypeOK
  <2>3. seen' = [d \in Clients |-> seen'[d]]
    BY <1>2 DEF TypeOK
  <2>4. \A d \in Clients : /\ DOMAIN seen'[d] \subseteq Batches
                         /\ \A e \in DOMAIN seen'[d] : seen'[d][e] \in Row
    BY <1>2 DEF TypeOK, NoRows
  <2> QED
    BY <1>1, <2>1, <2>2, <2>3, <2>4 DEF TypeOK, EndTransaction
<1>5. ReadsStayCurrent'
  <2>1. SUFFICES ASSUME NEW d \in Clients, NEW e \in DOMAIN seen'[d]
                 PROVE  holder'[e] = d /\ seen'[d][e] = rows'[e]
    BY DEF ReadsStayCurrent
  <2>2. d # c /\ e \in DOMAIN seen[d] /\ seen'[d][e] = seen[d][e]
    BY <1>2 DEF TypeOK, NoRows
  <2>3. e \in Batches /\ holder[e] = d /\ seen[d][e] = rows[e]
    BY <2>2 DEF ReadsStayCurrent, TypeOK
  <2> QED
    BY <1>1, <1>2, <2>2, <2>3
<1>6. UnlockedIsCommitted'
  BY <1>1, <1>2 DEF UnlockedIsCommitted
<1>7. ReadsOnlyInALine'
  BY <1>2 DEF ReadsOnlyInALine, TypeOK, NoRows
<1> QED
  BY <1>3, <1>4, <1>5, <1>6, <1>7

(* Every step of Next keeps it. *)
LEMMA NextIInv == IInv /\ [Next]_vars => IInv'
<1> SUFFICES ASSUME IInv, [Next]_vars PROVE IInv'
  OBVIOUS
<1>1. CASE UNCHANGED vars
  BY <1>1 DEF vars, IInv, TypeOK, ReadsStayCurrent, UnlockedIsCommitted,
              ReadsOnlyInALine
<1>2. CASE Midnight
  <2>1. CASE \E c \in Clients : TRUE
    BY <1>2, <2>1, QuietStep
  <2>2. CASE ~ \E c \in Clients : TRUE
    BY <1>2, <2>2, StockAssumption DEF Midnight, IInv, TypeOK, Days,
       ReadsStayCurrent, UnlockedIsCommitted, ReadsOnlyInALine
  <2> QED
    BY <2>1, <2>2
<1>3. ASSUME NEW c \in Clients,
             Begin(c) \/ BeginExpireJob(c) \/ Step(c) \/ Rollback(c)
             \/ DeadlockVictim(c)
      PROVE  IInv'
  BY <1>3, QuietStep, LockRowStep, TakeBatchStep, StatementStep,
     ExpireBatchStep, EndStep DEF Step, Throw, DeadlockVictim
<1> QED
  BY <1>1, <1>2, <1>3 DEF Next

(* The invariant of every reachable state. *)
THEOREM Invariant == Spec => []IInv
  BY InitIInv, NextIInv, PTL DEF Spec

(* Every variable of StockRows keeps its type. *)
THEOREM TypeCorrect == Spec => []TypeOK
<1>1. IInv => TypeOK
  BY DEF IInv
<1> QED
  BY <1>1, Invariant, PTL

(* However the transactions of the services interleave, fail or deadlock,  *)
(* no version of a row reserves more than its physical quantity.           *)
THEOREM ReservationSafety == Spec => []NeverOverReserved
<1>1. IInv => NeverOverReserved
  BY DEF IInv, Good, NeverOverReserved
<1> QED
  BY <1>1, Invariant, PTL

(* The batches table satisfies Physical = Available + Reserved in every    *)
(* committed state.                                                        *)
THEOREM GoldenEquationHolds == Spec => []GoldenEquation
<1>1. ASSUME NEW b \in Batches, Good(base[b]),
             base[b].status # "expired", base[b].physical >= 0
      PROVE  base[b].physical = base[b].open + base[b].kept
  BY <1>1 DEF Good, WithinStock, InSync, Row, Maximum
<1>2. IInv => GoldenEquation
  BY <1>1 DEF IInv, Good, GoldenEquation
<1> QED
  BY <1>2, Invariant, PTL

(* What a reservation line has read stays true until it is used. *)
THEOREM ReadsAreCurrent == Spec => []ReadsStayCurrent
<1>1. IInv => ReadsStayCurrent
  BY DEF IInv
<1> QED
  BY <1>1, Invariant, PTL

-----------------------------------------------------------------------------
(* A line never passes over stock it could have.                           *)

(* While a line still needs something, the rows its session holds, and     *)
(* could sell from, are those it has still to lock or to use.  The rows a  *)
(* session has locked for an earlier line of the same product count too.   *)
LineOf(c) ==
  phase[c] = "line" /\ need[c] > 0 =>
    \A b \in Batches :
      holder[b] = c /\ FefoMatch(Head(todo[c]), b) /\ HasStock(rows[b])
        => b \in cand[c] \/ b \in DOMAIN seen[c]

NothingPassedOver == \A c \in Clients : LineOf(c)

(* Days pass and other sessions work: what a line may sell only shrinks.   *)
LEMMA OtherLines ==
  ASSUME IInv, NEW e \in Clients, LineOf(e),
         phase'[e] = phase[e], need'[e] = need[e], todo'[e] = todo[e],
         cand'[e] = cand[e], seen'[e] = seen[e], today' \in Int, today' >= today,
         \A b \in Batches : holder'[b] = e => holder[b] = e /\ rows'[b] = rows[b]
  PROVE  LineOf(e)'
<1> SUFFICES ASSUME phase[e] = "line", need[e] > 0, NEW b \in Batches,
                    holder'[b] = e, FefoMatch(Head(todo[e]), b)', HasStock(rows[b])'
             PROVE  b \in cand[e] \/ b \in DOMAIN seen[e]
  BY DEF LineOf
<1> DEFINE s == Head(todo[e])
<1>1. holder[b] = e /\ rows'[b] = rows[b]
  OBVIOUS
<1>2. HasStock(rows[b])
  BY <1>1 DEF HasStock
<1>3. FefoMatch(s, b)
  <2>1. s' = s
    OBVIOUS
  <2>2. ProductOf[b] = s.product /\ ExpiryOf[b] > CutOff(s)'
    BY <2>1 DEF FefoMatch, CutOff
  <2>3. today \in Int /\ ExpiryOf[b] \in Int /\ MinShelfLife[s.product] \in Int
    BY <2>2, StockAssumption DEF IInv, TypeOK, Days
  <2>4. CASE s.safety = NoDate
    BY <2>1, <2>2, <2>3, <2>4 DEF FefoMatch, CutOff
  <2>5. CASE s.safety # NoDate
    BY <2>1, <2>2, <2>5 DEF FefoMatch, CutOff
  <2> QED
    BY <2>4, <2>5
<1> QED
  BY <1>1, <1>2, <1>3 DEF LineOf

(* The statements of a transaction that are not a reservation, its begin   *)
(* and its end.                                                            *)
LEMMA OutsideLines ==
  ASSUME IInv, NothingPassedOver, NEW c \in Clients,
         \/ Begin(c) \/ BeginExpireJob(c) \/ EndLine(c) \/ ExpireBatch(c)
         \/ Release(c) \/ Export(c) \/ AdjustKitchen(c) \/ ReportWaste(c)
         \/ Commit(c) \/ Rollback(c)
  PROVE  NothingPassedOver'
<1> USE DEF IInv, TypeOK
<1>1. /\ today' = today
      /\ \A e \in Clients \ {c} :
           /\ phase'[e] = phase[e] /\ need'[e] = need[e] /\ todo'[e] = todo[e]
           /\ cand'[e] = cand[e] /\ seen'[e] = seen[e]
  BY DEF Begin, BeginExpireJob, EndLine, ExpireBatch, Release, Export,
         AdjustKitchen, ReportWaste, WriteRow, Commit, Rollback, EndTransaction
<1>2. \A e \in Clients \ {c} : \A b \in Batches :
        holder'[b] = e => holder[b] = e /\ rows'[b] = rows[b]
  <2>1. CASE Begin(c) \/ BeginExpireJob(c) \/ EndLine(c)
    BY <2>1 DEF Begin, BeginExpireJob, EndLine
  <2>2. CASE ExpireBatch(c)
    BY <2>2, StockAssumption DEF ExpireBatch, CanLock
  <2>3. CASE Release(c) \/ Export(c) \/ AdjustKitchen(c) \/ ReportWaste(c)
    <3>1. PICK b, r : WriteRow(c, b, r)
      BY <2>3 DEF Release, Export, AdjustKitchen, ReportWaste
    <3> QED
      BY <3>1, StockAssumption DEF WriteRow, CanLock
  <2>4. CASE Commit(c) \/ Rollback(c)
    BY <2>4, StockAssumption DEF Commit, Rollback, EndTransaction
  <2> QED
    BY <2>1, <2>2, <2>3, <2>4
<1>3. phase'[c] # "line"
  BY DEF Begin, BeginExpireJob, EndLine, ExpireBatch, Release, Export, AtStatement,
         AdjustKitchen, ReportWaste, WriteRow, Commit, Rollback, EndTransaction
<1>4. today' \in Int /\ today' >= today
  BY <1>1 DEF Days
<1>5. ASSUME NEW e \in Clients PROVE LineOf(e)'
  <2>1. CASE e = c
    BY <1>3, <2>1 DEF LineOf
  <2>2. CASE e # c
    BY <1>1, <1>2, <1>4, <2>2, OtherLines DEF NothingPassedOver
  <2> QED
    BY <2>1, <2>2
<1> QED
  BY <1>5 DEF NothingPassedOver

(* The FEFO query finds all a line may sell from the rows it holds. *)
LEMMA FindBatchesPasses ==
  ASSUME IInv, NothingPassedOver, NEW c \in Clients, FindBatches(c)
  PROVE  NothingPassedOver'
<1> USE DEF IInv, TypeOK
<1>1. ASSUME NEW e \in Clients, e # c PROVE LineOf(e)'
  BY <1>1, OtherLines DEF FindBatches, NothingPassedOver, Days
<1>2. LineOf(c)'
  <2>1. SUFFICES ASSUME NEW b \in Batches, holder'[b] = c,
                        FefoMatch(Head(todo[c]), b)', HasStock(rows[b])'
                 PROVE  b \in cand'[c]
    BY DEF LineOf
  <2>2. /\ cand'[c] = {d \in Batches : FefoMatch(Head(todo[c]), d) /\ HasStock(Visible(c, d))}
        /\ UNCHANGED <<today, base, rows, holder, todo>>
    BY DEF FindBatches
  <2>3. FefoMatch(Head(todo[c]), b) /\ HasStock(rows[b]) /\ holder[b] = c
    BY <2>1, <2>2 DEF FefoMatch, CutOff, HasStock
  <2> QED
    BY <2>2, <2>3 DEF Visible
<1> QED
  BY <1>1, <1>2 DEF NothingPassedOver

(* A row that is locked is read, unless there is nothing to sell in it. *)
LEMMA LockRowPasses ==
  ASSUME IInv, NothingPassedOver, NEW c \in Clients, LockRow(c)
  PROVE  NothingPassedOver'
<1> USE DEF IInv, TypeOK
<1>1. PICK b \in EarliestOf(cand[c]) :
        /\ CanLock(c, b)
        /\ holder' = [holder EXCEPT ![b] = c]
        /\ cand' = [cand EXCEPT ![c] = @ \ {b}]
        /\ seen' = [seen EXCEPT ![c] =
             IF HasStock(rows[b])
             THEN [d \in DOMAIN @ \cup {b} |-> IF d = b THEN rows[b] ELSE @[d]]
             ELSE @]
  BY DEF LockRow
<1>2. UNCHANGED <<today, base, rows, phase, todo, need>>
  BY DEF LockRow
<1>3. ASSUME NEW e \in Clients, e # c PROVE LineOf(e)'
  <2>1. \A d \in Batches : holder'[d] = e => holder[d] = e /\ rows'[d] = rows[d]
    BY <1>1, <1>2, <1>3
  <2>2. today' \in Int /\ today' >= today
    BY <1>2 DEF Days
  <2>3. seen'[e] = seen[e] /\ cand'[e] = cand[e]
    BY <1>1, <1>3
  <2> QED
    BY <1>2, <2>1, <2>2, <2>3, OtherLines DEF NothingPassedOver
<1>4. LineOf(c)'
  <2>1. SUFFICES ASSUME NEW d \in Batches, need[c] > 0, holder'[d] = c,
                        FefoMatch(Head(todo[c]), d)', HasStock(rows[d])'
                 PROVE  d \in cand'[c] \/ d \in DOMAIN seen'[c]
    BY <1>2 DEF LineOf
  <2>2. FefoMatch(Head(todo[c]), d) /\ HasStock(rows[d])
    BY <1>2, <2>1 DEF FefoMatch, CutOff, HasStock
  <2>3. CASE d = b
    BY <1>1, <2>2, <2>3
  <2>4. CASE d # b
    <3>1. holder[d] = c
      BY <1>1, <2>1, <2>4
    <3>2. d \in cand[c] \/ d \in DOMAIN seen[c]
      BY <2>1, <2>2, <3>1 DEF NothingPassedOver, LineOf, LockRow
    <3> QED
      BY <1>1, <2>4, <3>2
  <2> QED
    BY <2>3, <2>4
<1> QED
  BY <1>3, <1>4 DEF NothingPassedOver

(* What the loop leaves behind is sold out, or the line is served. *)
LEMMA TakeBatchPasses ==
  ASSUME IInv, NothingPassedOver, NEW c \in Clients, TakeBatch(c)
  PROVE  NothingPassedOver'
<1> USE DEF IInv, TypeOK
<1>1. PICK b \in EarliestOf(DOMAIN seen[c]) :
        LET available == seen[c][b].quantity - seen[c][b].reserved
            take == Minimum(available, need[c])
        IN /\ seen' = [seen EXCEPT ![c] = [d \in DOMAIN @ \ {b} |-> @[d]]]
           /\ IF available <= 0
              THEN UNCHANGED <<rows, need>>
              ELSE /\ rows' = [rows EXCEPT ![b] =
                                 reserveInventoryQuantity(@, take)]
                   /\ need' = [need EXCEPT ![c] = @ - take]
  BY DEF TakeBatch
<1>2. /\ UNCHANGED <<today, base, holder, phase, todo, cand>>
      /\ phase[c] = "line" /\ need[c] > 0
  BY DEF TakeBatch
<1>3. b \in Batches /\ holder[b] = c /\ seen[c][b] = rows[b]
  BY DEF EarliestOf, ReadsStayCurrent
<1>4. /\ rows[b].quantity \in Int /\ rows[b].reserved \in Int /\ need[c] \in Nat
      /\ \A d \in Batches \ {b} : rows'[d] = rows[d]
  BY <1>1, <1>3 DEF Row
<1>5. ASSUME NEW e \in Clients, e # c PROVE LineOf(e)'
  <2>1. \A d \in Batches : holder'[d] = e => holder[d] = e /\ rows'[d] = rows[d]
    BY <1>2, <1>3, <1>4, <1>5
  <2>2. today' \in Int /\ today' >= today
    BY <1>2 DEF Days
  <2>3. seen'[e] = seen[e] /\ need'[e] = need[e]
    BY <1>1, <1>5
  <2> QED
    BY <1>2, <2>1, <2>2, <2>3, OtherLines DEF NothingPassedOver
<1>6. LineOf(c)'
  <2>1. SUFFICES ASSUME NEW d \in Batches, need'[c] > 0, holder'[d] = c,
                        FefoMatch(Head(todo[c]), d)', HasStock(rows[d])'
                 PROVE  d \in cand'[c] \/ d \in DOMAIN seen'[c]
    BY DEF LineOf
  <2>2. d # b
    <3>1. SUFFICES ASSUME d = b PROVE FALSE
      OBVIOUS
    <3>2. rows'[b].quantity > rows'[b].reserved
      BY <2>1, <3>1 DEF HasStock
    <3> DEFINE available == rows[b].quantity - rows[b].reserved
    <3>3. CASE available <= 0
      BY <1>1, <1>3, <1>4, <3>2, <3>3
    <3>4. CASE ~(available <= 0)
      <4>1. /\ rows'[b] = reserveInventoryQuantity(rows[b], Minimum(available, need[c]))
            /\ need'[c] = need[c] - Minimum(available, need[c])
        BY <1>1, <1>3, <3>4
      <4>2. Minimum(available, need[c]) = available
        BY <1>4, <2>1, <4>1 DEF Minimum
      <4> QED
        BY <1>4, <3>2, <4>1, <4>2 DEF reserveInventoryQuantity, Synced
    <3> QED
      BY <3>3, <3>4
  <2>3. FefoMatch(Head(todo[c]), d) /\ HasStock(rows[d]) /\ holder[d] = c
    BY <1>2, <1>4, <2>1, <2>2 DEF FefoMatch, CutOff, HasStock
  <2>4. d \in cand[c] \/ d \in DOMAIN seen[c]
    BY <1>2, <2>3 DEF NothingPassedOver, LineOf
  <2> QED
    BY <1>1, <1>2, <2>2, <2>4
<1> QED
  BY <1>5, <1>6 DEF NothingPassedOver

(* Every step of Next keeps it. *)
LEMMA NextPasses == IInv /\ NothingPassedOver /\ [Next]_vars => NothingPassedOver'
<1> SUFFICES ASSUME IInv, NothingPassedOver, [Next]_vars PROVE NothingPassedOver'
  OBVIOUS
<1>1. CASE UNCHANGED vars
  BY <1>1 DEF vars, NothingPassedOver, LineOf, FefoMatch, CutOff, HasStock
<1>2. CASE Midnight
  <2>1. today' \in Int /\ today' >= today
    BY <1>2 DEF Midnight, IInv, TypeOK, Days
  <2> QED
    BY <1>2, <2>1, OtherLines DEF Midnight, NothingPassedOver
<1>3. ASSUME NEW c \in Clients,
             Begin(c) \/ BeginExpireJob(c) \/ Step(c) \/ Rollback(c)
             \/ DeadlockVictim(c)
      PROVE  NothingPassedOver'
  BY <1>3, OutsideLines, FindBatchesPasses, LockRowPasses, TakeBatchPasses
     DEF Step, Throw, DeadlockVictim
<1> QED
  BY <1>1, <1>2, <1>3 DEF Next

(* The second half of the inductive invariant. *)
LEMMA LinesPassNothing == Spec => [](IInv /\ NothingPassedOver)
<1>1. Init => IInv /\ NothingPassedOver
  BY InitIInv DEF Init, NothingPassedOver, LineOf
<1>2. IInv /\ NothingPassedOver /\ [Next]_vars => (IInv /\ NothingPassedOver)'
  BY NextIInv, NextPasses
<1> QED
  BY <1>1, <1>2, PTL DEF Spec

(* An order is cut for lack of stock and for no other reason: a line that  *)
(* ends short leaves nothing to sell in the rows its session holds.        *)
THEOREM ShortagesAreReal == Spec => []ShortOnlyWhenExhausted
<1>1. NothingPassedOver => ShortOnlyWhenExhausted
  BY DEF NothingPassedOver, LineOf, ShortOnlyWhenExhausted, Held
<1> QED
  BY <1>1, LinesPassNothing, PTL

(* Whoever else reserves, expires or corrects the same rows, a line takes  *)
(* from a batch only when the earlier ones have nothing left for it.       *)
THEOREM EarliestBatchesFirst == Spec => FirstExpiredFirstOut
<1> DEFINE Fefo == \A c \in Clients : \A b \in Batches : Takes(c, b) =>
       \A d \in Held(c) :
         FefoMatch(Head(todo[c]), d) /\ ExpiryOf[d] < ExpiryOf[b]
           => ~HasStock(rows[d])
<1>1. ASSUME IInv, NothingPassedOver, [Next]_vars PROVE [Fefo]_vars
  <2>1. SUFFICES ASSUME NEW c \in Clients, NEW b \in Batches, Takes(c, b), Next,
                        NEW d \in Held(c), FefoMatch(Head(todo[c]), d),
                        ExpiryOf[d] < ExpiryOf[b], HasStock(rows[d])
                 PROVE  FALSE
    BY <1>1
  <2> USE DEF IInv, TypeOK
  <2>2. /\ phase[c] = "line" /\ phase'[c] = "line" /\ holder[b] = c
        /\ rows'[b].reserved > rows[b].reserved
    BY <2>1 DEF Takes
  <2>3. rows'[b] # rows[b]
    BY <2>2, <1>1 DEF Row
  <2>4. TakeBatch(c)
    <3>1. ~Midnight
      BY <2>3 DEF Midnight
    <3>2. PICK e \in Clients : Begin(e) \/ BeginExpireJob(e) \/ Step(e) \/ Rollback(e)
      BY <2>1, <3>1 DEF Next, DeadlockVictim
    <3>3. ~(Begin(e) \/ BeginExpireJob(e) \/ FindBatches(e) \/ LockRow(e) \/ EndLine(e)
            \/ Commit(e))
      BY <2>3 DEF Begin, BeginExpireJob, FindBatches, LockRow, EndLine, Commit
    <3>4. ~Rollback(e)
      BY <1>1, <2>2, <2>3 DEF Rollback, EndTransaction
    <3>5. ~(Release(e) \/ Export(e) \/ AdjustKitchen(e) \/ ReportWaste(e))
      <4>1. SUFFICES ASSUME Release(e) \/ Export(e) \/ AdjustKitchen(e) \/ ReportWaste(e)
                     PROVE  FALSE
        OBVIOUS
      <4>2. phase[e] = "run"
        BY <4>1 DEF Release, Export, AdjustKitchen, ReportWaste, AtStatement
      <4>3. PICK k, r : WriteRow(e, k, r)
        BY <4>1 DEF Release, Export, AdjustKitchen, ReportWaste
      <4>4. k = b
        BY <1>1, <2>3, <4>3 DEF WriteRow
      <4> QED
        BY <2>2, <4>2, <4>3, <4>4, StockAssumption DEF WriteRow, CanLock
    <3>6. ~ExpireBatch(e)
      BY <1>1, <2>2, <2>3, StockAssumption DEF ExpireBatch, CanLock
    <3>7. TakeBatch(e)
      BY <3>2, <3>3, <3>4, <3>5, <3>6 DEF Step, Throw
    <3>8. e = c
      BY <1>1, <2>2, <2>3, <3>7 DEF TakeBatch, EarliestOf, ReadsStayCurrent
    <3> QED
      BY <3>7, <3>8
  <2>5. b \in EarliestOf(DOMAIN seen[c])
    BY <1>1, <2>3, <2>4 DEF TakeBatch
  <2>6. d \in DOMAIN seen[c]
    BY <1>1, <2>1, <2>2, <2>4 DEF TakeBatch, NothingPassedOver, LineOf, Held
  <2> QED
    BY <1>1, <2>1, <2>5, <2>6, StockAssumption DEF EarliestOf
<1> QED
  BY <1>1, LinesPassNothing, PTL DEF Spec, FirstExpiredFirstOut
=============================================================================
