\* A flush the browser interrupts by closing.
SPECIFICATION Spec
CONSTANTS
  p1 = p1
  p2 = p2
  Sales = {1}
  Passes = {p1}
  Slots = {1}
  Page = Page
  Nobody = Nobody
  MaxFailures = 1
  Mishaps = {"close"}
CHECK_DEADLOCK FALSE
PROPERTIES
  QueuedSalesSettle
