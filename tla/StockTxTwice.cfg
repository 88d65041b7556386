\* One receipt deleted twice at the same time.
SPECIFICATION Spec
CONSTANTS
  a = a
  b = b
  t1 = t1
  t2 = t2
  t3 = t3
  t4 = t4
  s1 = s1
  s2 = s2
  Requests = {t1, t2, t3}
  Standing = {s1}
  Cells = {a, b}
  Series = {"Invoice", "Grn", "StockTransfer", "CuttingEntry", "StockAdjustment"}
  Racks = {"A1", "A2", "B1", "B2"}
  Forms <- TwiceForms
  BookedRows <- MCBooked
  Opening <- MCOpening
  NoRow = NoRow
  Nobody = Nobody
CHECK_DEADLOCK FALSE
PROPERTIES
  ReversesWhatStands
