SPECIFICATION Spec
CONSTANTS
  c1 = c1
  c2 = c2
  o1 = o1
  o2 = o2
  s1 = s1
  s2 = s2
  b1 = b1
  b2 = b2
  b3 = b3
  m1 = m1
  m2 = m2
  chicken = chicken
  bread = bread
  None = None
  Clients <- TwoClients
  Endpoints = {"create", "approve", "reject", "cancel", "consolidate", "verify", "depart", "expire"}
  Orders <- MCOrders
  StoreOf <- SameStore
  RouteOf <- OneRoute
  DeliveryOf <- NextDay
  Margin <- MCMargin
  Requested <- MCRequested
  FirstLine <- MCFirstLine
  Products <- MCProducts
  MinShelfLife <- MCMinShelfLife
  Batches <- MCBatches
  ProductOf <- MCProductOf
  ExpiryOf <- MCExpiryOf
  Opening <- MCOpening
  Manifests <- OneManifest
  Horizon = 2
  MaxInquiries = 0
  MaxClaims = 0
CHECK_DEADLOCK FALSE
INVARIANTS
  PromisedIsReserved
  PhysicalFollowsTrucks
  NothingLeavesUnscanned
