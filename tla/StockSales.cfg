\* Sales of every kind against opening stock and offcuts.
SPECIFICATION SalesRun
CONSTANTS
  hall = hall
  yard = yard
  r1 = r1
  r2 = r2
  r3 = r3
  e1 = e1
  e2 = e2
  Products = {p1}
  Godowns = {hall, yard}
  MainGodown = hall
  Racks = {r1}
  NoRack = NoRack
  RackGodown <- MCRackGodown
  EwayBills = {}
  NoEway = NoEway
  Papers = {"Waybill"}
  Quantities = {1, 2}
  Pieces = {1, 4}
  SheetSize = 3
  MaxLines = 2
  MaxDocs = 2
  MaxOffcuts = 2
  MaxRackQty = 3
CHECK_DEADLOCK FALSE
INVARIANTS
  TypeOK
  EveryLineServed
  LedgerMatchesBalance
  NoOrphanRows
PROPERTIES
  BilledSaleStands
