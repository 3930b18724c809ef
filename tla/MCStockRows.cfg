SPECIFICATION FairSpec
CONSTANTS
  c1 = c1
  c2 = c2
  b1 = b1
  b2 = b2
  b3 = b3
  chicken = chicken
  bread = bread
  Free = Free
  NoDate = NoDate
  Clients <- Sessions
  Batches <- MCBatches
  Products <- MCProducts
  ProductOf <- MCProductOf
  ExpiryOf <- MCExpiryOf
  MinShelfLife <- MCMinShelfLife
  Opening <- MCOpening
  Programs <- MCPrograms
  Horizon = 1
  Deficit = 1
INVARIANTS
  TypeOK
  NeverOverReserved
  GoldenEquation
  ReadsStayCurrent
  ShortOnlyWhenExhausted
PROPERTY
  FirstExpiredFirstOut
  EveryTransactionEnds
