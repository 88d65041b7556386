\* Purchase handlers against sales.
SPECIFICATION PurchaseRun
CONSTANTS
  hall = hall
  yard = yard
  r1 = r1
  r2 = r2
  r3 = r3
  e1 = e1
  e2 = e2
  Products = {p1}
  Godowns = {hall, yard}
  MainGodown = hall
  Racks = {r1}
  NoRack = NoRack
  RackGodown <- MCRackGodown
  EwayBills = {e1, e2}
  NoEway = NoEway
  Papers = {}
  Quantities = {0, 1}
  Pieces = {}
  SheetSize = 0
  MaxLines = 2
  MaxDocs = 3
  MaxOffcuts = 0
  MaxRackQty = 3
SYMMETRY EwaySymmetry
CHECK_DEADLOCK FALSE
INVARIANTS
  LedgerMatchesBalance
  NoOrphanRows
  EwayLinkExact
PROPERTIES
  ReversalKeepsFloor
  ImplementsAccount
