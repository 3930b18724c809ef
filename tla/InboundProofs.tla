---------------------------- MODULE InboundProofs ----------------------------
(* Theorems of InboundService, for any number of requests, receipts and     *)
(* lines.                                                                   *)
EXTENDS InboundService, SequenceTheorems, TLAPS

Completes(c) == req[c].kind = "complete"

(* A line on stock belongs to a receipt that has been completed.            *)
OnStockIsCompleted ==
  \A i \in Items : imported[i] # << >> =>
    i \in Declared /\ receipt[line[i].receipt] \in {"completed", "deleted"}

(* Only one completion holds a receipt.  While it does, the receipt stays a *)
(* draft, every line of it has been read, and the excess stays approved.   *)
Exclusive ==
  \A c, d \in Clients :
    Completes(c) /\ Completes(d) /\ req[c].receipt = req[d].receipt => c = d

ReadsHold ==
  \A c \in Clients : Completes(c) =>
    /\ receipt[req[c].receipt] = "draft"
    /\ LinesOf(req[c].receipt) \subseteq req[c].lines
    /\ \A i \in req[c].lines :
         /\ i \in Declared
         /\ line[i].receipt = req[c].receipt
         /\ Over(i) => approved[req[c].receipt]

IInv ==
  /\ TypeOK
  /\ OnStockIsCompleted
  /\ Exclusive
  /\ ReadsHold
  /\ ImportedOnce
  /\ ExcessIsApproved

-----------------------------------------------------------------------------
(* What a request in flight carries. *)
LEMMA RequestTypes ==
  ASSUME TypeOK, NEW c \in Clients
  PROVE  /\ req[c].kind \in {"add", "remove", "delete", "complete"}
              => req[c].receipt \in Receipts
         /\ req[c].kind \in {"add", "deleteLine"} => req[c].line \in Items
         /\ req[c].kind = "complete" => req[c].lines \subseteq Items
BY DEF TypeOK, Request, Idle

LEMMA IdleIsRequest == Idle \in Request /\ Idle.kind # "complete"
BY DEF Idle, Request

(* An empty goods office satisfies the invariant. *)
LEMMA InitIInv == Init => IInv
<1> SUFFICES ASSUME Init PROVE IInv
  OBVIOUS
<1>1. Declared = {}
  BY DEF Init, Declared
<1>2. line \in [Declared -> Line]
  BY <1>1 DEF Init
<1>3. imported \in [Items -> Seq(Nat)]
  BY DEF Init
<1>4. req \in [Clients -> Request]
  BY IdleIsRequest DEF Init
<1>5. TypeOK
  BY <1>1, <1>2, <1>3, <1>4 DEF Init, TypeOK
<1>6. \A c \in Clients : ~Completes(c)
  BY DEF Init, Completes, Idle
<1>7. \A i \in Items : imported[i] = << >>
  BY DEF Init
<1> QED
  BY <1>1, <1>5, <1>6, <1>7
  DEF IInv, OnStockIsCompleted, Exclusive, ReadsHold, ImportedOnce, ExcessIsApproved

(* A request that ends or moves on, and changes no table, keeps it unless   *)
(* it begins a completion.                                                 *)
LEMMA QuietStep ==
  ASSUME IInv, NEW c \in Clients, NEW x \in Request, x.kind # "complete",
         req' = [req EXCEPT ![c] = x],
         UNCHANGED <<receipt, approved, line, imported>>
  PROVE  IInv'
<1>1. req' \in [Clients -> Request]
  BY DEF IInv, TypeOK
<1>2. \A d \in Clients : Completes(d)' => d # c /\ Completes(d) /\ req'[d] = req[d]
  BY DEF Completes, IInv, TypeOK
<1>3. TypeOK'
  BY <1>1 DEF IInv, TypeOK, Declared
<1>4. OnStockIsCompleted'
  BY DEF IInv, OnStockIsCompleted, Declared
<1>5. Exclusive'
  BY <1>2 DEF IInv, Exclusive
<1>6. ReadsHold'
  BY <1>2 DEF IInv, ReadsHold, Declared, LinesOf
<1>7. ImportedOnce' /\ ExcessIsApproved'
  BY DEF IInv, ImportedOnce, ExcessIsApproved, Declared
<1> QED
  BY <1>3, <1>4, <1>5, <1>6, <1>7 DEF IInv

(* A new draft has no line and no completion. *)
LEMMA CreateReceiptStep ==
  ASSUME IInv, NEW r \in Receipts, createReceipt(r)
  PROVE  IInv'
<1>1. TypeOK'
  BY DEF IInv, TypeOK, createReceipt, Declared
<1>2. \A q \in Receipts : receipt[q] # "none" => receipt'[q] = receipt[q]
  BY DEF IInv, TypeOK, createReceipt
<1>3. OnStockIsCompleted'
  BY <1>2 DEF IInv, TypeOK, createReceipt, OnStockIsCompleted, Declared, Line
<1>4. Exclusive'
  BY DEF IInv, createReceipt, Exclusive, Completes
<1>5. ReadsHold'
  BY <1>2, RequestTypes DEF IInv, createReceipt, ReadsHold, Completes, Declared, LinesOf
<1>6. ImportedOnce' /\ ExcessIsApproved'
  BY DEF IInv, createReceipt, ImportedOnce, ExcessIsApproved, Declared
<1> QED
  BY <1>1, <1>3, <1>4, <1>5, <1>6 DEF IInv

(* An approval only adds to what is approved. *)
LEMMA ApproveStep ==
  ASSUME IInv, NEW r \in Receipts, approveReceiptVariance(r)
  PROVE  IInv'
<1>1. TypeOK'
  BY DEF IInv, TypeOK, approveReceiptVariance, Declared
<1>2. \A q \in Receipts : approved[q] => approved'[q]
  BY DEF IInv, TypeOK, approveReceiptVariance
<1>3. OnStockIsCompleted'
  BY DEF IInv, approveReceiptVariance, OnStockIsCompleted, Declared
<1>4. Exclusive'
  BY DEF IInv, approveReceiptVariance, Exclusive, Completes
<1>5. ReadsHold'
  BY <1>2, RequestTypes
  DEF IInv, approveReceiptVariance, ReadsHold, Completes, Declared, LinesOf
<1>6. ImportedOnce' /\ ExcessIsApproved'
  BY <1>2
  DEF IInv, TypeOK, approveReceiptVariance, ImportedOnce, ExcessIsApproved, Declared, Line
<1> QED
  BY <1>1, <1>3, <1>4, <1>5, <1>6 DEF IInv

(* A request that ends leaves the completions of the others as they are.    *)
LEMMA DoneKeepsOthers ==
  ASSUME TypeOK, NEW c \in Clients, Done(c)
  PROVE  /\ req' \in [Clients -> Request]
         /\ \A d \in Clients :
              Completes(d)' => d # c /\ Completes(d) /\ req'[d] = req[d]
BY IdleIsRequest DEF TypeOK, Done, Completes

(* A new line has no batch, and no completion holds its receipt. *)
LEMMA AddItemStep ==
  ASSUME IInv, NEW c \in Clients, addReceiptItem(c)
  PROVE  IInv'
<1> DEFINE n == req[c].line
           r == req[c].receipt
<1>1. n \in Items /\ r \in Receipts /\ n \notin Declared
  BY RequestTypes DEF IInv, addReceiptItem
<1>2. /\ DOMAIN line' = Declared \cup {n}
      /\ \A i \in Declared : line'[i] = line[i]
      /\ line'[n] = [receipt |-> r, present |-> TRUE, batch |-> FALSE]
  BY <1>1 DEF addReceiptItem
<1>3. line' \in [Declared \cup {n} -> Line]
  BY <1>1 DEF addReceiptItem, IInv, TypeOK, Line
<1>4. UNCHANGED <<receipt, approved, imported>> /\ Done(c)
  BY DEF addReceiptItem
<1> HIDE DEF n, r
<1>5. TypeOK'
  BY <1>1, <1>2, <1>3, <1>4, DoneKeepsOthers DEF IInv, TypeOK, Declared
<1>6. OnStockIsCompleted'
  BY <1>2, <1>4 DEF IInv, OnStockIsCompleted, Declared
<1>7. Exclusive'
  BY <1>4, DoneKeepsOthers DEF IInv, Exclusive
<1>8. ReadsHold'
  <2> SUFFICES ASSUME NEW d \in Clients, Completes(d)'
               PROVE  /\ receipt[req[d].receipt] = "draft"
                      /\ LinesOf(req[d].receipt)' \subseteq req[d].lines
                      /\ \A i \in req[d].lines :
                           /\ i \in Declared'
                           /\ line'[i].receipt = req[d].receipt
                           /\ Over(i) => approved[req[d].receipt]
    BY <1>4, DoneKeepsOthers DEF IInv, ReadsHold, LinesOf, Declared
  <2>1. Completes(d)
    BY <1>4, DoneKeepsOthers DEF IInv
  <2>2. req[d].receipt # r
    BY <2>1 DEF addReceiptItem, Locked, Completes, r
  <2>3. LinesOf(req[d].receipt)' \subseteq LinesOf(req[d].receipt)
    BY <1>2, <1>4, <2>2, DoneKeepsOthers DEF LinesOf, Declared, IInv
  <2> QED
    BY <1>2, <2>1, <2>3 DEF IInv, ReadsHold, Declared
<1>9. ImportedOnce'
  BY <1>4 DEF IInv, ImportedOnce
<1>10. ExcessIsApproved'
  BY <1>1, <1>2, <1>4 DEF IInv, ExcessIsApproved, OnStockIsCompleted, Declared
<1> QED
  BY <1>5, <1>6, <1>7, <1>8, <1>9, <1>10 DEF IInv

(* Lines that go are no lines of any completion's receipt that it must read. *)
LEMMA LinesGoStep ==
  ASSUME IInv, NEW c \in Clients, NEW gone \in SUBSET Declared, Done(c),
         line' = [i \in Declared |-> IF i \in gone
                                     THEN [line[i] EXCEPT !.present = FALSE]
                                     ELSE line[i]],
         UNCHANGED <<receipt, approved, imported>>
  PROVE  IInv'
<1>1. /\ Declared' = Declared
      /\ line' \in [Declared -> Line]
      /\ \A i \in Declared : line'[i].receipt = line[i].receipt
                            /\ (line'[i].present => line[i].present)
  BY DEF IInv, TypeOK, Line, Declared
<1>2. TypeOK'
  BY <1>1, DoneKeepsOthers DEF IInv, TypeOK
<1>3. OnStockIsCompleted'
  BY <1>1 DEF IInv, OnStockIsCompleted
<1>4. Exclusive'
  BY DoneKeepsOthers DEF IInv, Exclusive
<1>5. \A r \in Receipts : LinesOf(r)' \subseteq LinesOf(r)
  BY <1>1 DEF LinesOf
<1>6. ReadsHold'
  BY <1>1, <1>5, DoneKeepsOthers, RequestTypes DEF IInv, ReadsHold, Completes
<1>7. ImportedOnce' /\ ExcessIsApproved'
  BY <1>1 DEF IInv, ImportedOnce, ExcessIsApproved
<1> QED
  BY <1>2, <1>3, <1>4, <1>6, <1>7 DEF IInv

LEMMA DeleteLineStep ==
  ASSUME IInv, NEW c \in Clients, deleteReceiptLine(c)
  PROVE  IInv'
<1> DEFINE gone == {i \in Declared : i = req[c].line}
<1>1. line' = [i \in Declared |-> IF i \in gone
                                  THEN [line[i] EXCEPT !.present = FALSE]
                                  ELSE line[i]]
  BY DEF deleteReceiptLine, IInv, TypeOK, Declared
<1>2. gone \in SUBSET Declared
  OBVIOUS
<1> HIDE DEF gone
<1> QED
  BY <1>1, <1>2, LinesGoStep DEF deleteReceiptLine

(* A receipt that is removed is held by no completion: removal waits for    *)
(* the lock.  Its lines go first.                                          *)
LEMMA DeleteReceiptStep ==
  ASSUME IInv, NEW c \in Clients, deleteReceipt(c)
  PROVE  IInv'
<1> DEFINE r == req[c].receipt
<1>1. r \in Receipts
  BY RequestTypes DEF IInv, deleteReceipt
<1>2. /\ Declared' = Declared
      /\ line' \in [Declared -> Line]
      /\ \A i \in Declared : line'[i].receipt = line[i].receipt
                            /\ (line'[i].present => line[i].present)
  BY DEF deleteReceipt, IInv, TypeOK, Line, Declared
<1>3. /\ receipt' = [receipt EXCEPT ![r] = "deleted"]
      /\ UNCHANGED <<approved, imported>>
      /\ Done(c)
      /\ \A d \in Clients : Completes(d) => req[d].receipt # r
  BY DEF deleteReceipt, Locked, Completes
<1> HIDE DEF r
<1>4. TypeOK'
  BY <1>1, <1>2, <1>3, DoneKeepsOthers DEF IInv, TypeOK
<1>5. OnStockIsCompleted'
  BY <1>1, <1>2, <1>3 DEF IInv, TypeOK, OnStockIsCompleted, Line
<1>6. Exclusive'
  BY <1>3, DoneKeepsOthers DEF IInv, Exclusive
<1>7. \A q \in Receipts : LinesOf(q)' \subseteq LinesOf(q)
  BY <1>2 DEF LinesOf
<1>8. ReadsHold'
  <2> SUFFICES ASSUME NEW d \in Clients, Completes(d)'
               PROVE  /\ receipt'[req[d].receipt] = "draft"
                      /\ LinesOf(req[d].receipt)' \subseteq req[d].lines
                      /\ \A i \in req[d].lines :
                           /\ i \in Declared'
                           /\ line'[i].receipt = req[d].receipt
                           /\ Over(i) => approved[req[d].receipt]
    BY <1>3, DoneKeepsOthers DEF IInv, ReadsHold, LinesOf, Declared
  <2>1. Completes(d)
    BY <1>3, DoneKeepsOthers DEF IInv
  <2>2. req[d].receipt \in Receipts /\ req[d].receipt # r
    BY <1>3, <2>1, RequestTypes DEF Completes, IInv
  <2>3. receipt'[req[d].receipt] = receipt[req[d].receipt]
    BY <1>3, <2>2 DEF IInv, TypeOK
  <2>4. LinesOf(req[d].receipt)' \subseteq LinesOf(req[d].receipt)
    BY <1>2, <1>3, DoneKeepsOthers DEF LinesOf, IInv
  <2> QED
    BY <1>2, <2>1, <2>3, <2>4 DEF IInv, ReadsHold
<1>9. ImportedOnce' /\ ExcessIsApproved'
  BY <1>2, <1>3 DEF IInv, ImportedOnce, ExcessIsApproved
<1> QED
  BY <1>4, <1>5, <1>6, <1>8, <1>9 DEF IInv

(* A completion begins with a lock that nobody else holds, and reads what   *)
(* the invariant says it has read.                                         *)
LEMMA BeginCompletionStep ==
  ASSUME IInv, NEW c \in Clients, findReceiptWithLock(c)
  PROVE  IInv'
<1>1. PICK r \in Receipts :
        /\ ~Locked(r)
        /\ receipt[r] = "draft"
        /\ \A i \in LinesOf(r) : Over(i) => approved[r]
        /\ req' = [req EXCEPT ![c] =
                     [kind |-> "complete", receipt |-> r, lines |-> LinesOf(r)]]
        /\ UNCHANGED <<receipt, approved, line, imported>>
  BY DEF findReceiptWithLock, Become
<1>2. [kind |-> "complete", receipt |-> r, lines |-> LinesOf(r)] \in Request
  BY DEF Request, LinesOf, IInv, TypeOK
<1>3. /\ req' \in [Clients -> Request]
      /\ req'[c] = [kind |-> "complete", receipt |-> r, lines |-> LinesOf(r)]
      /\ \A d \in Clients \ {c} : req'[d] = req[d]
  BY <1>1, <1>2 DEF IInv, TypeOK
<1>4. TypeOK'
  BY <1>1, <1>3 DEF IInv, TypeOK, Declared
<1>5. OnStockIsCompleted' /\ ImportedOnce' /\ ExcessIsApproved'
  BY <1>1 DEF IInv, OnStockIsCompleted, ImportedOnce, ExcessIsApproved, Declared
<1>6. Exclusive'
  BY <1>1, <1>3 DEF IInv, Exclusive, Completes, Locked
<1>7. \A i \in LinesOf(r) : i \in Declared /\ line[i].receipt = r
  BY DEF LinesOf
<1>8. ReadsHold'
  <2> SUFFICES ASSUME NEW d \in Clients, Completes(d)'
               PROVE  /\ receipt[req'[d].receipt] = "draft"
                      /\ LinesOf(req'[d].receipt) \subseteq req'[d].lines
                      /\ \A i \in req'[d].lines :
                           /\ i \in Declared
                           /\ line[i].receipt = req'[d].receipt
                           /\ Over(i) => approved[req'[d].receipt]
    BY <1>1 DEF ReadsHold, LinesOf, Declared
  <2>1. CASE d = c
    BY <1>1, <1>3, <1>7, <2>1
  <2>2. CASE d # c
    BY <1>3, <2>2 DEF IInv, ReadsHold, Completes
  <2> QED
    BY <2>1, <2>2
<1> QED
  BY <1>4, <1>5, <1>6, <1>8 DEF IInv

(* A completion ends: what it puts on stock was not there, for its receipt  *)
(* was a draft, and no other completion holds that receipt.                *)
LEMMA CompleteStep ==
  ASSUME IInv, NEW c \in Clients, completeReceipt(c)
  PROVE  IInv'
<1> DEFINE r == req[c].receipt
           good == {i \in req[c].lines : Accepted[i] > 0}
<1>1. /\ Completes(c)
      /\ receipt' = [receipt EXCEPT ![r] = "completed"]
      /\ imported' = [i \in Items |-> IF i \in good
                                      THEN Append(imported[i], Accepted[i])
                                      ELSE imported[i]]
      /\ Done(c) /\ approved' = approved
  BY DEF completeReceipt, Completes
<1>2. r \in Receipts /\ good \subseteq Items /\ receipt[r] = "draft"
  BY <1>1, RequestTypes DEF IInv, ReadsHold, Completes
<1>3. /\ Declared' = Declared
      /\ line' \in [Declared -> Line]
      /\ \A i \in Declared : line'[i].receipt = line[i].receipt
                            /\ line'[i].present = line[i].present
  BY DEF completeReceipt, IInv, TypeOK, Line, Declared
<1>4. \A i \in good : /\ i \in Declared
                      /\ line[i].receipt = r
                      /\ Over(i) => approved[r]
  BY <1>1 DEF IInv, ReadsHold
<1>5. \A i \in good : imported[i] = << >>
  BY <1>2, <1>4 DEF IInv, OnStockIsCompleted
<1>6. \A d \in Clients : Completes(d)' => req[d].receipt # r
  BY <1>1, DoneKeepsOthers DEF IInv, Exclusive
<1> HIDE DEF r, good
<1>7. \A i \in Items : imported'[i] = IF i \in good THEN << Accepted[i] >> ELSE imported[i]
  <2> TAKE i \in Items
  <2>1. CASE i \in good
    <3>1. imported'[i] = Append(<< >>, Accepted[i])
      BY <1>1, <1>5, <2>1
    <3>2. Append(<< >>, Accepted[i]) = << Accepted[i] >>
      BY InboundAssumption
    <3> QED
      BY <2>1, <3>1, <3>2
  <2>2. CASE i \notin good
    BY <1>1, <2>2
  <2> QED
    BY <2>1, <2>2
<1>8. imported' \in [Items -> Seq(Nat)]
  <2>1. \A i \in Items : << Accepted[i] >> \in Seq(Nat)
    BY InboundAssumption
  <2>2. \A i \in Items : imported'[i] \in Seq(Nat)
    BY <1>7, <2>1 DEF IInv, TypeOK
  <2> QED
    BY <1>1, <2>2
<1>9. TypeOK'
  BY <1>1, <1>2, <1>3, <1>8, DoneKeepsOthers DEF IInv, TypeOK
<1>10. OnStockIsCompleted'
  BY <1>1, <1>2, <1>3, <1>4, <1>7 DEF IInv, TypeOK, OnStockIsCompleted, Line
<1>11. Exclusive'
  BY <1>1, DoneKeepsOthers DEF IInv, Exclusive
<1>12. \A q \in Receipts : LinesOf(q)' = LinesOf(q)
  BY <1>3 DEF LinesOf
<1>13. ReadsHold'
  <2> SUFFICES ASSUME NEW d \in Clients, Completes(d)'
               PROVE  /\ receipt'[req[d].receipt] = "draft"
                      /\ LinesOf(req[d].receipt)' \subseteq req[d].lines
                      /\ \A i \in req[d].lines :
                           /\ i \in Declared'
                           /\ line'[i].receipt = req[d].receipt
                           /\ Over(i) => approved[req[d].receipt]
    BY <1>1, DoneKeepsOthers DEF IInv, ReadsHold, LinesOf, Declared
  <2>1. Completes(d)
    BY <1>1, DoneKeepsOthers DEF IInv
  <2>2. req[d].receipt \in Receipts
    BY <2>1, RequestTypes DEF Completes, IInv
  <2>3. receipt'[req[d].receipt] = receipt[req[d].receipt]
    BY <1>1, <1>6, <2>2 DEF IInv, TypeOK
  <2>4. LinesOf(req[d].receipt)' = LinesOf(req[d].receipt)
    BY <1>1, <1>3, DoneKeepsOthers DEF LinesOf, IInv
  <2> QED
    BY <1>3, <2>1, <2>3, <2>4 DEF IInv, ReadsHold
<1>14. ImportedOnce'
  BY <1>7 DEF IInv, ImportedOnce
<1>15. ExcessIsApproved'
  BY <1>1, <1>3, <1>4, <1>7 DEF IInv, TypeOK, ExcessIsApproved
<1> QED
  BY <1>9, <1>10, <1>11, <1>13, <1>14, <1>15 DEF IInv

-----------------------------------------------------------------------------
(* The requests that arrive, read on or fail change no table.               *)
LEMMA QuietActions ==
  ASSUME IInv, NEW c \in Clients,
         \/ ArriveAdd(c) \/ ArriveDeleteLine(c) \/ ArriveRemove(c)
         \/ ReadBatchIds(c) \/ Fail(c)
  PROVE  IInv'
<1>1. CASE ArriveAdd(c)
  <2>1. PICK r \in Receipts, i \in Items :
          req' = [req EXCEPT ![c] = [kind |-> "add", receipt |-> r, line |-> i]]
    BY <1>1 DEF ArriveAdd, Become
  <2>2. [kind |-> "add", receipt |-> r, line |-> i] \in Request
    BY DEF Request
  <2> QED
    BY <1>1, <2>1, <2>2, QuietStep DEF ArriveAdd
<1>2. CASE ArriveDeleteLine(c)
  <2>1. PICK i \in Items : req' = [req EXCEPT ![c] = [kind |-> "deleteLine", line |-> i]]
    BY <1>2 DEF ArriveDeleteLine, Become, IInv, TypeOK
  <2>2. [kind |-> "deleteLine", line |-> i] \in Request
    BY DEF Request
  <2> QED
    BY <1>2, <2>1, <2>2, QuietStep DEF ArriveDeleteLine
<1>3. CASE ArriveRemove(c)
  <2>1. PICK r \in Receipts : req' = [req EXCEPT ![c] = [kind |-> "remove", receipt |-> r]]
    BY <1>3 DEF ArriveRemove, Become
  <2>2. [kind |-> "remove", receipt |-> r] \in Request
    BY DEF Request
  <2> QED
    BY <1>3, <2>1, <2>2, QuietStep DEF ArriveRemove
<1>4. CASE ReadBatchIds(c)
  <2>1. [kind |-> "delete", receipt |-> req[c].receipt] \in Request
    BY <1>4, RequestTypes DEF ReadBatchIds, IInv, Request
  <2> QED
    BY <1>4, <2>1, QuietStep DEF ReadBatchIds
<1>5. CASE Fail(c)
  BY <1>5, IdleIsRequest, QuietStep DEF Fail, Done
<1> QED
  BY <1>1, <1>2, <1>3, <1>4, <1>5

(* Every step keeps the invariant: one case for each action of Next.        *)
LEMMA NextIInv == IInv /\ [Next]_vars => IInv'
<1> SUFFICES ASSUME IInv, [Next]_vars PROVE IInv'
  OBVIOUS
<1>1. ASSUME NEW r \in Receipts, createReceipt(r) PROVE IInv'
  BY <1>1, CreateReceiptStep
<1>2. ASSUME NEW r \in Receipts, approveReceiptVariance(r) PROVE IInv'
  BY <1>2, ApproveStep
<1>3. ASSUME NEW c \in Clients, addReceiptItem(c) PROVE IInv'
  BY <1>3, AddItemStep
<1>4. ASSUME NEW c \in Clients, deleteReceiptLine(c) PROVE IInv'
  BY <1>4, DeleteLineStep
<1>5. ASSUME NEW c \in Clients, deleteReceipt(c) PROVE IInv'
  BY <1>5, DeleteReceiptStep
<1>6. ASSUME NEW c \in Clients, findReceiptWithLock(c) PROVE IInv'
  BY <1>6, BeginCompletionStep
<1>7. ASSUME NEW c \in Clients, completeReceipt(c) PROVE IInv'
  BY <1>7, CompleteStep
<1>8. ASSUME NEW c \in Clients,
             \/ ArriveAdd(c) \/ ArriveDeleteLine(c) \/ ArriveRemove(c)
             \/ ReadBatchIds(c) \/ Fail(c)
      PROVE  IInv'
  BY <1>8, QuietActions
<1>9. CASE UNCHANGED vars
  BY <1>9
  DEF vars, IInv, TypeOK, OnStockIsCompleted, Exclusive, ReadsHold, ImportedOnce,
      ExcessIsApproved, Declared, LinesOf, Completes
<1> QED
  BY <1>1, <1>2, <1>3, <1>4, <1>5, <1>6, <1>7, <1>8, <1>9 DEF Next

-----------------------------------------------------------------------------
(* Every reachable state satisfies the invariant the theorems rest on.      *)
THEOREM InboundInvariant == Spec => []IInv
BY InitIInv, NextIInv, PTL DEF Spec

(* The tables and the requests of the goods office have their types.        *)
THEOREM InboundTypeCorrect == Spec => []TypeOK
<1>1. IInv => TypeOK
  BY DEF IInv
<1> QED
  BY <1>1, InboundInvariant, PTL

(* Completing, adding, deleting and removing at the same time, no line is   *)
(* put on stock twice, and none with another quantity than the accepted.   *)
THEOREM LinesImportedOnce == Spec => []ImportedOnce
<1>1. IInv => ImportedOnce
  BY DEF IInv
<1> QED
  BY <1>1, InboundInvariant, PTL

(* What a supplier sent in excess of the order comes on stock only after a  *)
(* manager's approval.                                                     *)
THEOREM NoUnapprovedExcess == Spec => []ExcessIsApproved
<1>1. IInv => ExcessIsApproved
  BY DEF IInv
<1> QED
  BY <1>1, InboundInvariant, PTL

(* A step that completes a receipt is the second half of its completion:    *)
(* each line of it that is there has been read, and gets its batch.        *)
LEMMA CompletionStepIsWhole ==
  ASSUME IInv, Next, NEW r \in Receipts,
         receipt[r] = "draft", receipt'[r] = "completed",
         NEW i \in LinesOf(r), Accepted[i] > 0
  PROVE  imported'[i] # << >> /\ line'[i].batch
<1>1. PICK c \in Clients : completeReceipt(c)
  <2>1. ASSUME NEW q \in Receipts, createReceipt(q) \/ approveReceiptVariance(q)
        PROVE  FALSE
    BY <2>1 DEF createReceipt, approveReceiptVariance, IInv, TypeOK
  <2>2. ASSUME NEW c \in Clients,
               \/ ArriveAdd(c) \/ addReceiptItem(c)
               \/ ArriveDeleteLine(c) \/ deleteReceiptLine(c)
               \/ ArriveRemove(c) \/ ReadBatchIds(c)
               \/ findReceiptWithLock(c) \/ Fail(c)
        PROVE  FALSE
    BY <2>2
    DEF ArriveAdd, addReceiptItem, ArriveDeleteLine, deleteReceiptLine, ArriveRemove,
        ReadBatchIds, findReceiptWithLock, Fail
  <2>3. ASSUME NEW c \in Clients, deleteReceipt(c) PROVE FALSE
    BY <2>3 DEF deleteReceipt, IInv, TypeOK
  <2> QED
    BY <2>1, <2>2, <2>3 DEF Next
<1>2. r = req[c].receipt /\ Completes(c)
  BY <1>1 DEF completeReceipt, Completes, IInv, TypeOK
<1>3. i \in req[c].lines /\ i \in Declared /\ line[i].present /\ i \in Items
  BY <1>2 DEF IInv, ReadsHold, LinesOf, TypeOK
<1>4. imported'[i] = Append(imported[i], Accepted[i])
  BY <1>1, <1>3 DEF completeReceipt
<1>5. imported'[i] # << >>
  <2>1. imported[i] \in Seq(Nat) /\ Accepted[i] \in Nat
    BY <1>3, InboundAssumption DEF IInv, TypeOK
  <2>2. Append(imported[i], Accepted[i]) # << >>
    BY <2>1, AppendProperties
  <2> QED
    BY <1>4, <2>2
<1>6. line'[i].batch
  BY <1>1, <1>3 DEF completeReceipt, IInv, TypeOK, Line, Declared
<1> QED
  BY <1>5, <1>6

(* No line that is there when a receipt is completed is left off stock:     *)
(* one that is being added waits, and cannot slip in between the reads and *)
(* the writes of the completion.                                           *)
THEOREM CompletionsAreWhole == Spec => CompletionIsWhole
<1> DEFINE Whole ==
      \A r \in Receipts : receipt[r] = "draft" /\ receipt'[r] = "completed" =>
        \A i \in LinesOf(r) : Accepted[i] > 0 =>
          imported'[i] # << >> /\ line'[i].batch
<1>1. IInv /\ [Next]_vars => [Whole]_vars
  BY CompletionStepIsWhole
<1> QED
  BY <1>1, InboundInvariant, PTL DEF Spec, CompletionIsWhole
=============================================================================
