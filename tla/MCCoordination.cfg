SPECIFICATION Spec
CONSTANTS
  c1 = c1
  c2 = c2
  o1 = o1
  o2 = o2
  s1 = s1
  s2 = s2
  b1 = b1
  b2 = b2
  b3 = b3
  m1 = m1
  m2 = m2
  chicken = chicken
  bread = bread
  None = None
  Clients <- OneClient
  Endpoints = {"create", "approve", "inquiry", "batchApprove", "reject", "cancel", "finalize", "receive", "forceCancel", "issue", "cancelManifest", "consolidate", "verify", "depart"}
  Orders <- MCOrders
  StoreOf <- OwnStores
  RouteOf <- OneRoute
  DeliveryOf <- NextDay
  Margin <- MCMargin
  Requested <- MCRequested
  FirstLine <- MCFirstLine
  Products <- MCProducts
  MinShelfLife <- MCMinShelfLife
  Batches <- MCBatches
  ProductOf <- MCProductOf
  ExpiryOf <- MCExpiryOf
  Opening <- MCOpening
  Manifests <- OneManifest
  Horizon = 0
  MaxInquiries = 1
  MaxClaims = 0
CHECK_DEADLOCK FALSE
INVARIANTS
  PhysicalFollowsTrucks
PROPERTIES
  QueueHoldsItsStock
