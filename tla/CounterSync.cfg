\* Two sales, two passes, lost messages and expired keys.
SPECIFICATION Spec
CONSTANTS
  p1 = p1
  p2 = p2
  Sales = {1, 2}
  Passes = {p1, p2}
  Slots = {1, 2}
  Page = Page
  Nobody = Nobody
  MaxFailures = 2
  Mishaps = {"close", "expire"}
SYMMETRY PassSymmetry
CHECK_DEADLOCK FALSE
INVARIANTS
  TypeOK
  BilledAtMostOnce
  QueuedSaleKept
  ShownErrorNotBilled
