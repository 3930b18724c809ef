SPECIFICATION Spec
CONSTANTS
  c1 = c1
  c2 = c2
  r1 = r1
  r2 = r2
  i1 = i1
  i2 = i2
  i3 = i3
  Clients <- TwoClients
  Receipts <- MCReceipts
  Items <- MCItems
  Accepted <- MCAccepted
  Rejected <- MCRejected
  Expected <- MCExpected
  Tolerance = 3
CHECK_DEADLOCK FALSE
INVARIANTS
  TypeOK
  ImportedOnce
  ExcessIsApproved
PROPERTY
  CompletionIsWhole
