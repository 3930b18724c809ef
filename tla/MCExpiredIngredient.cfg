SPECIFICATION Spec
CONSTANTS
  c1 = c1
  p1 = p1
  p2 = p2
  l1 = l1
  l2 = l2
  l3 = l3
  chicken = chicken
  flour = flour
  Clients <- OneClient
  Orders <- MCOrders
  Planned <- MCPlanned
  Ingredients <- MCIngredients
  PerOutput <- MCPerOutput
  ShelfLife = 2
  Lots <- MCLots
  ProductOf <- MCProductOf
  ExpiryOf <- MCExpiryOf
  Opening <- MCOpening
  Surplus = 1
  Horizon = 2
CHECK_DEADLOCK FALSE
PROPERTY
  ExpiredLotsStayUnused
