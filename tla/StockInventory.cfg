\* Inventory handlers against sales.
SPECIFICATION InventoryRun
CONSTANTS
  hall = hall
  yard = yard
  r1 = r1
  r2 = r2
  r3 = r3
  e1 = e1
  e2 = e2
  Products = {p1}
  Godowns = {hall, yard}
  MainGodown = hall
  Racks = {r1, r2, r3}
  NoRack = NoRack
  RackGodown <- MCRackGodown
  EwayBills = {}
  NoEway = NoEway
  Papers = {}
  Quantities = {1, 2}
  Pieces = {1}
  SheetSize = 0
  MaxLines = 2
  MaxDocs = 2
  MaxOffcuts = 1
  MaxRackQty = 2
CHECK_DEADLOCK FALSE
INVARIANTS
  LedgerMatchesBalance
PROPERTIES
  ReversalKeepsFloor
  TransferMovesStock
