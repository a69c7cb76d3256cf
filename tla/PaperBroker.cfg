SPECIFICATION Spec
CONSTANTS
  t1 = t1
  Tickers = {t1}
  OrderIds = {o1, o2}
  Shapes <- MCShapes
  Prices = {0, 20}
  Rates = {1, 2}
  Triggers = {40}
  StartingCash = {20, 60}
  Deposits = {20}
  MaxDeposits = 20
  Faults = {"crash", "save"}
SYMMETRY IdSymmetry
INVARIANTS
  BookIsExact
  ReservationsExact
  Durable
  Conservation
  Solvency
  FillsAreAudited
PROPERTIES
  DurableLifecycle
