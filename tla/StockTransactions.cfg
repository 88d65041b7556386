\* Requests of every kind, racing each other for one cell and one document.
SPECIFICATION Spec
CONSTANTS
  a = a
  b = b
  t1 = t1
  t2 = t2
  t3 = t3
  t4 = t4
  s1 = s1
  s2 = s2
  Requests = {t1, t2, t3, t4}
  Standing = {s1, s2}
  Cells = {a, b}
  Series = {"Invoice", "Grn", "StockTransfer", "CuttingEntry", "StockAdjustment"}
  Racks = {"A1", "A2", "B1", "B2"}
  Forms <- MixedForms
  BookedRows <- MCBooked
  Opening <- MCOpening
  NoRow = NoRow
  Nobody = Nobody
CHECK_DEADLOCK FALSE
INVARIANTS
  MovesNeverOverdraw
  NumbersUnbroken
PROPERTIES
  BooksFollowDocuments
  EveryRequestEnds
