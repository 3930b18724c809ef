SPECIFICATION Spec
CONSTANTS
  c1 = c1
  c2 = c2
  ann = ann
  u1 = u1
  u2 = u2
  shop = shop
  kg = kg
  piece = piece
  n1 = n1
  n2 = n2
  flour = flour
  meat = meat
  bun = bun
  salt = salt
  r1 = r1
  r2 = r2
  w1 = w1
  w2 = w2
  l1 = l1
  s1 = s1
  v1 = v1
  v2 = v2
  p1 = p1
  p2 = p2
  north = north
  m1 = m1
  m2 = m2
  key = key
  one = one
  two = two
  b1 = b1
  b2 = b2
  b3 = b3
  dough = dough
  loaf = loaf
  Clients <- TwoClients
  Scenarios <- MCScenarios
  Users <- MCUsers
  Stores <- MCStores
  BaseOf <- Namesakes
  MaxSuffix = 2
  AddressChoices <- FirstAddress
  StatusChoices = {"active"}
  RoleChoices = {"manager"}
  SessionLife = 1
  CodeLife = 1
  LastInstant = 2
  MaxSessions = 2
  MaxCodes = 1
  Units <- MCUnits
  UnitNames <- MCUnitNames
  SeedUnits <- MCSeedUnits
  Products <- MCProducts
  SeedProducts <- MCSeedProducts
  ProductTypes = {"raw_material", "finished_good"}
  BillChoices <- MCBills
  Recipes <- MCRecipes
  SeedRecipes <- MCSeedRecipes
  ProductionOrders <- MCProductionOrders
  Lots <- MCLots
  Suppliers <- MCSuppliers
  LotQuantities = {2}
  Vehicles <- MCVehicles
  Plates <- MCPlates
  SeedVehicles <- MCSeedVehicles
  StatesByHand = {"available", "maintenance"}
  Routes <- MCRoutes
  Trips <- MCTrips
  Shops <- MCStores
  Keys <- MCKeys
  Values <- MCValues
  SeedSettings <- MCSettings
  Articles <- MCArticles
  Batches <- MCBatches
  Deliveries <- MCDeliveries
  ArticleOf <- MCArticleOf
  ExpiryDate <- MCExpiry
  MinShelfLife <- MCMinShelf
  ShelfLifeDays <- MCShelfLife
  MinStockLevel <- MCMinStock
  ImportAmounts = {2}
  OrderAmounts = {1, 3}
  CountedAmounts = {1, 3}
  SecondAmounts <- MCSecondLine
  Discrepancies <- MCDiscrepancies
  MaxRows <- MCMaxRows
  MaxHolds = 2
  LastDay = 2
  NearExpiryDays = 2
  ExpiringDays = 1
  PageSize = 1
CHECK_DEADLOCK FALSE
INVARIANTS
  TypeOK
  OnlyHandedOverAccountsSignIn
  DepartedVehicleIsBusy
  StaleOnlyAfterCrossing
  LedgerExplainsStock
  ReportsAgree
PROPERTIES
  SessionsEnd
  BillsChangeOnlyUnderNewOrders
