\* Queued sales settle while the browser stays open.
SPECIFICATION Spec
CONSTANTS
  p1 = p1
  p2 = p2
  Sales = {1, 2}
  Passes = {p1, p2}
  Slots = {1}
  Page = Page
  Nobody = Nobody
  MaxFailures = 2
  Mishaps = {}
CHECK_DEADLOCK FALSE
PROPERTIES
  QueuedSalesSettle
