---------------------------- MODULE InboundService ----------------------------
(***************************************************************************)
(* Goods from the suppliers: a receipt is drafted, its lines are declared  *)
(* one by one, and its completion makes one batch of each line and puts it *)
(* on stock.                                                               *)
(*                                                                         *)
(* completeReceipt and approveReceiptVariance lock the receipt's row (FOR  *)
(* UPDATE); addReceiptItem, deleteReceiptLine and removeDraftReceipt check *)
(* its status with a plain SELECT, so each is a request that reads and,    *)
(* later, a transaction that writes.  The foreign key of receipt_items     *)
(* makes an INSERT share-lock the receipt, and lets no receipt go that has *)
(* lines and no batch that is on stock.                                    *)
(***************************************************************************)
EXTENDS Integers, Sequences

CONSTANTS
  Clients,    \* requests the server handles at the same time
  Receipts,   \* identifiers of the receipts
  Items,      \* identifiers of the lines (serial, never used again)
  Accepted,   \* the quantity of each line that was accepted,
  Rejected,   \* the quantity that was rejected,
  Expected,   \* and the quantity that was ordered (0: not declared)
  Tolerance   \* inbound.receipt_variance_percent

ASSUME InboundAssumption ==
  /\ Accepted \in [Items -> Nat]
  /\ Rejected \in [Items -> Nat]
  /\ Expected \in [Items -> Nat]
  /\ Tolerance \in Nat

VARIABLES
  receipt,   \* status of each receipt
  approved,  \* has a manager approved the excess of the receipt?
  line,      \* receipt_items, deleted ones included
  imported,  \* per line: quantities of the batches put on stock for it
  req        \* per client: the request in flight and what it has read

vars == <<receipt, approved, line, imported, req>>

Idle == [kind |-> "idle"]

Init ==
  /\ receipt = [r \in Receipts |-> "none"]
  /\ approved = [r \in Receipts |-> FALSE]
  /\ line = [i \in {} |-> i]
  /\ imported = [i \in Items |-> << >>]
  /\ req = [c \in Clients |-> Idle]

Declared == DOMAIN line
LinesOf(r) == {i \in Declared : line[i].receipt = r /\ line[i].present}

(* A transaction holds the row of receipt r FOR UPDATE. *)
Locked(r) == \E d \in Clients : req[d].kind = "complete" /\ req[d].receipt = r

Become(c, request) == req[c] = Idle /\ req' = [req EXCEPT ![c] = request]
Done(c) == req' = [req EXCEPT ![c] = Idle]

createReceipt(r) ==
  /\ receipt[r] = "none"
  /\ receipt' = [receipt EXCEPT ![r] = "draft"]
  /\ UNCHANGED <<approved, line, imported, req>>

-----------------------------------------------------------------------------
(* Lines of a draft.                                                       *)

ArriveAdd(c) ==
  \E r \in Receipts, i \in Items \ Declared :
    /\ receipt[r] = "draft"
    /\ Accepted[i] + Rejected[i] > 0
    /\ Become(c, [kind |-> "add", receipt |-> r, line |-> i])
    /\ UNCHANGED <<receipt, approved, line, imported>>

(* Mutant: without the foreign key, the INSERT waits for nobody. *)
addReceiptItem_NoForeignKey(c) ==
  /\ req[c].kind = "add"
  /\ req[c].line \notin Declared
  /\ line' = [i \in Declared \cup {req[c].line} |->
                IF i = req[c].line
                THEN [receipt |-> req[c].receipt, present |-> TRUE, batch |-> FALSE]
                ELSE line[i]]
  /\ Done(c)
  /\ UNCHANGED <<receipt, approved, imported>>

(* addReceiptItem: the INSERT waits for a completion that holds the receipt *)
(* and fails when the receipt is gone.  It does not look at the status.    *)
addReceiptItem(c) ==
  /\ req[c].kind = "add"
  /\ req[c].line \notin Declared
  /\ ~Locked(req[c].receipt)
  /\ receipt[req[c].receipt] # "deleted"
  /\ line' = [i \in Declared \cup {req[c].line} |->
                IF i = req[c].line
                THEN [receipt |-> req[c].receipt, present |-> TRUE, batch |-> FALSE]
                ELSE line[i]]
  /\ Done(c)
  /\ UNCHANGED <<receipt, approved, imported>>

ArriveDeleteLine(c) ==
  \E i \in Declared :
    /\ line[i].present
    /\ receipt[line[i].receipt] = "draft"
    /\ Become(c, [kind |-> "deleteLine", line |-> i])
    /\ UNCHANGED <<receipt, approved, line, imported>>

(* deleteReceiptLine: the line goes, whatever the receipt has become.       *)
deleteReceiptLine(c) ==
  /\ req[c].kind = "deleteLine"
  /\ line' = [line EXCEPT ![req[c].line].present = FALSE]
  /\ Done(c)
  /\ UNCHANGED <<receipt, approved, imported>>

-----------------------------------------------------------------------------
(* Removal of a draft.                                                     *)

ArriveRemove(c) ==
  \E r \in Receipts :
    /\ receipt[r] = "draft"
    /\ Become(c, [kind |-> "remove", receipt |-> r])
    /\ UNCHANGED <<receipt, approved, line, imported>>

(* deleteReceipt first reads which batches its lines have.  With one, it    *)
(* fails in the end: the batch is on stock.                                *)
ReadBatchIds(c) ==
  /\ req[c].kind = "remove"
  /\ \A i \in LinesOf(req[c].receipt) : ~line[i].batch
  /\ req' = [req EXCEPT ![c] = [kind |-> "delete", receipt |-> req[c].receipt]]
  /\ UNCHANGED <<receipt, approved, line, imported>>

(* ... then it deletes the lines and the receipt, waiting for its lock.     *)
deleteReceipt(c) ==
  LET r == req[c].receipt
  IN /\ req[c].kind = "delete"
     /\ ~Locked(r)
     /\ line' = [i \in Declared |-> IF i \in LinesOf(r)
                                    THEN [line[i] EXCEPT !.present = FALSE]
                                    ELSE line[i]]
     /\ receipt' = [receipt EXCEPT ![r] = "deleted"]
     /\ Done(c)
     /\ UNCHANGED <<approved, imported>>

-----------------------------------------------------------------------------
(* Completion.                                                             *)

(* assertVarianceApprovedOrNotNeeded: more came than was ordered, beyond    *)
(* the tolerance (in percent).                                             *)
Over(i) ==
  /\ Expected[i] > 0
  /\ (Accepted[i] + Rejected[i] - Expected[i]) * 100 > Tolerance * Expected[i]

(* approveReceiptVariance: lock, check and write in one transaction.        *)
approveReceiptVariance(r) ==
  /\ ~Locked(r)
  /\ receipt[r] = "draft"
  /\ approved' = [approved EXCEPT ![r] = TRUE]
  /\ UNCHANGED <<receipt, line, imported, req>>

(* Mutant: the receipt is read without FOR UPDATE. *)
findReceiptWithLock_Plain(c) ==
  \E r \in Receipts :
    /\ receipt[r] = "draft"
    /\ LinesOf(r) # {}
    /\ \A i \in LinesOf(r) : Over(i) => approved[r]
    /\ Become(c, [kind |-> "complete", receipt |-> r, lines |-> LinesOf(r)])
    /\ UNCHANGED <<receipt, approved, line, imported>>

(* Mutant: a rejected quantity does not count as received. *)
findReceiptWithLock_AcceptedOnly(c) ==
  \E r \in Receipts :
    /\ ~Locked(r)
    /\ receipt[r] = "draft"
    /\ LinesOf(r) # {}
    /\ \A i \in LinesOf(r) :
         /\ Expected[i] > 0
         /\ (Accepted[i] - Expected[i]) * 100 > Tolerance * Expected[i]
         => approved[r]
    /\ Become(c, [kind |-> "complete", receipt |-> r, lines |-> LinesOf(r)])
    /\ UNCHANGED <<receipt, approved, line, imported>>

(* completeReceipt, up to its first write: the receipt is locked, checked,  *)
(* and its lines are read.                                                 *)
findReceiptWithLock(c) ==
  \E r \in Receipts :
    /\ ~Locked(r)
    /\ receipt[r] = "draft"
    /\ LinesOf(r) # {}
    /\ \A i \in LinesOf(r) : Over(i) => approved[r]
    /\ Become(c, [kind |-> "complete", receipt |-> r, lines |-> LinesOf(r)])
    /\ UNCHANGED <<receipt, approved, line, imported>>

(* Mutant: what was rejected is taken off what was accepted. *)
completeReceipt_NetOfRejected(c) ==
  LET r == req[c].receipt
      good == {i \in req[c].lines : Accepted[i] > 0}
  IN /\ req[c].kind = "complete"
     /\ receipt' = [receipt EXCEPT ![r] = "completed"]
     /\ imported' = [i \in Items |-> IF i \in good
                                     THEN Append(imported[i], Accepted[i] - Rejected[i])
                                     ELSE imported[i]]
     /\ line' = [i \in Declared |-> IF i \in good /\ line[i].present
                                    THEN [line[i] EXCEPT !.batch = TRUE]
                                    ELSE line[i]]
     /\ Done(c)
     /\ UNCHANGED approved

(* completeReceipt, the writes: a batch on stock for each line read that    *)
(* has an accepted quantity, linked to the line if it is still there.      *)
completeReceipt(c) ==
  LET r == req[c].receipt
      good == {i \in req[c].lines : Accepted[i] > 0}
  IN /\ req[c].kind = "complete"
     /\ receipt' = [receipt EXCEPT ![r] = "completed"]
     /\ imported' = [i \in Items |-> IF i \in good
                                     THEN Append(imported[i], Accepted[i])
                                     ELSE imported[i]]
     /\ line' = [i \in Declared |-> IF i \in good /\ line[i].present
                                    THEN [line[i] EXCEPT !.batch = TRUE]
                                    ELSE line[i]]
     /\ Done(c)
     /\ UNCHANGED approved

(* An exception: the transaction is rolled back. *)
Fail(c) ==
  /\ req[c] # Idle
  /\ Done(c)
  /\ UNCHANGED <<receipt, approved, line, imported>>

Next ==
  \/ \E r \in Receipts : createReceipt(r) \/ approveReceiptVariance(r)
  \/ \E c \in Clients :
       \/ ArriveAdd(c) \/ addReceiptItem(c)
       \/ ArriveDeleteLine(c) \/ deleteReceiptLine(c)
       \/ ArriveRemove(c) \/ ReadBatchIds(c) \/ deleteReceipt(c)
       \/ findReceiptWithLock(c) \/ completeReceipt(c)
       \/ Fail(c)

Spec == Init /\ [][Next]_vars

-----------------------------------------------------------------------------
(* Properties.                                                             *)

Request ==
       {Idle}
  \cup [kind : {"add"}, receipt : Receipts, line : Items]
  \cup [kind : {"deleteLine"}, line : Items]
  \cup [kind : {"remove", "delete"}, receipt : Receipts]
  \cup [kind : {"complete"}, receipt : Receipts, lines : SUBSET Items]

Line == [receipt : Receipts, present : BOOLEAN, batch : BOOLEAN]

(* Every variable has its type. *)
TypeOK ==
  /\ receipt \in [Receipts -> {"none", "draft", "completed", "deleted"}]
  /\ approved \in [Receipts -> BOOLEAN]
  /\ Declared \subseteq Items
  /\ line \in [Declared -> Line]
  /\ imported \in [Items -> Seq(Nat)]
  /\ req \in [Clients -> Request]

(* Whoever completes, adds, deletes and removes at the same time, a line is *)
(* put on stock at most once, and then with the quantity accepted.         *)
ImportedOnce ==
  \A i \in Items : imported[i] \in {<< >>, << Accepted[i] >>}

(* Nothing that exceeds the order beyond the tolerance comes on stock       *)
(* without the approval of a manager.                                      *)
ExcessIsApproved ==
  \A i \in Declared :
    imported[i] # << >> /\ Over(i) => approved[line[i].receipt]

(* A completion leaves out no accepted line that is there when it commits:  *)
(* a line that is being added waits until the receipt is completed, and     *)
(* cannot slip in between the completion's reads and its writes.           *)
CompletionIsWhole ==
  [][\A r \in Receipts : receipt[r] = "draft" /\ receipt'[r] = "completed" =>
       \A i \in LinesOf(r) : Accepted[i] > 0 =>
         imported'[i] # << >> /\ line'[i].batch]_vars
=============================================================================
