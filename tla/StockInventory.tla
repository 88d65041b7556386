--------------------------- MODULE StockInventory ---------------------------
(***************************************************************************)
(* The inventory side: opening entries, adjustments to a counted figure,   *)
(* transfers between godowns, the rack ledger and hand-logged offcuts.     *)
(***************************************************************************)
EXTENDS StockTables

inventoryFrame == <<eway, papers>>

-----------------------------------------------------------------------------
(* InventoryController.CreateStockOpening (and ProductsController.Create,  *)
(* which posts the same document for a new product's opening balance).     *)
StockOpeningCreate(g, lines) ==
  /\ Positive(lines)
  /\ CreateDoc(Document("StockOpening", g, Len(lines), NoRef, NoEway), InRows(lines, g))
  /\ balance' = Added(balance, InRows(lines, g))
  /\ UNCHANGED <<inventoryFrame, rackStock, offcutVars>>

(* InventoryController.DeleteStockOpening and DeleteAdjustment: refused if *)
(* taking any one row out would leave its balance negative.                *)
InventoryDocDelete(d) ==
  /\ EachRowOnHand(d)
  /\ balance' = Removed(balance, movement[d])
  /\ DeleteDoc(d)
  /\ UNCHANGED <<inventoryFrame, rackStock, offcutVars>>

StockOpeningDelete(d) == doc[d].kind = "StockOpening" /\ InventoryDocDelete(d)
AdjustmentDelete(d) == doc[d].kind = "StockAdjustment" /\ InventoryDocDelete(d)

-----------------------------------------------------------------------------
(* The figure the books show for a cell after the first n lines of an      *)
(* adjustment in godown g: the count of the last line that names the cell, *)
(* the balance if none does.                                               *)
Counted(lines, g, n, c) == {i \in 1..n : <<lines[i].product, g>> = c}
BookQty(lines, g, n, c) ==
  IF Counted(lines, g, n, c) = {} THEN balance[c]
  ELSE lines[CHOOSE i \in Counted(lines, g, n, c) :
               \A j \in Counted(lines, g, n, c) : j <= i].qty

(* Mutant of DifferenceRows: every line is compared with the balance the   *)
(* request found, not with what its own earlier lines made of it.          *)
DifferenceRowsFromSnapshot(lines, g) ==
  [i \in 1..Len(lines) |->
     [cell |-> <<lines[i].product, g>>,
      qty  |-> lines[i].qty - balance[<<lines[i].product, g>>]]]

(* Each line posts the difference between its count and the books.         *)
DifferenceRows(lines, g) ==
  [i \in 1..Len(lines) |->
     [cell |-> <<lines[i].product, g>>,
      qty  |-> lines[i].qty - BookQty(lines, g, i - 1, <<lines[i].product, g>>)]]

(* InventoryController.CreateAdjustment: the balance is overwritten with   *)
(* the counted figure, whatever it was.                                    *)
AdjustmentCreate(g, lines) ==
  /\ CreateDoc(Document("StockAdjustment", g, Len(lines), NoRef, NoEway),
               DifferenceRows(lines, g))
  /\ balance' = [c \in Cells |-> BookQty(lines, g, Len(lines), c)]
  /\ UNCHANGED <<inventoryFrame, rackStock, offcutVars>>

-----------------------------------------------------------------------------
(* A transfer posts a row out of and a row into a godown for every line.   *)
TransferRows(lines, from, to) ==
  [k \in 1..(2 * Len(lines)) |->
     LET line == lines[(k + 1) \div 2]
     IN  IF k % 2 = 1 THEN [cell |-> <<line.product, from>>, qty |-> 0 - line.qty]
         ELSE [cell |-> <<line.product, to>>, qty |-> line.qty]]

(* Mutant of EachLineOnHand: the lines are checked before any has moved. *)
EachLineOnHandAtStart(lines, from, to) ==
  \A i \in 1..Len(lines) : balance[lines[i].product, from] >= lines[i].qty

(* Each line is on hand in the source godown after the lines before it     *)
(* have moved.                                                             *)
EachLineOnHand(lines, from, to) ==
  \A i \in 1..Len(lines) :
    LET c == <<lines[i].product, from>>
        moved == SubSeq(TransferRows(lines, from, to), 1, 2 * (i - 1))
    IN  balance[c] + Net(moved, c) >= lines[i].qty

(* InventoryController.CreateTransfer: one line that is not on hand        *)
(* refuses the whole request.  The transfers page drops the lines whose    *)
(* quantity is not positive; the handler does not check.                   *)
TransferCreate(from, to, lines) ==
  /\ Positive(lines)
  /\ from # to
  /\ EachLineOnHand(lines, from, to)
  /\ CreateDoc(Document("StockTransfer", from, Len(lines), NoRef, NoEway),
               TransferRows(lines, from, to))
  /\ balance' = Added(balance, TransferRows(lines, from, to))
  /\ UNCHANGED <<inventoryFrame, rackStock, offcutVars>>

-----------------------------------------------------------------------------
(* InventoryController.AdjustRackStock and DeleteRackStock touch the rack  *)
(* ledger only.                                                            *)
RackStockAdjust(p, r, q) ==
  /\ q >= 0
  /\ rackStock' = [rackStock EXCEPT ![<<p, r>>] = q]
  /\ UNCHANGED <<inventoryFrame, ledgerVars, offcutVars>>

RackStockDelete(p, r) ==
  /\ rackStock' = [rackStock EXCEPT ![<<p, r>>] = 0]
  /\ UNCHANGED <<inventoryFrame, ledgerVars, offcutVars>>

(* InventoryController.TransferRackStock.  Between two racks of one godown *)
(* only the rack ledger moves; between godowns the balances move with it,  *)
(* under rows that carry no document id (an id of their own here).  (Its   *)
(* fourth conjunct only bounds the model.)                                 *)
RackStockTransfer(p, r1, r2, q) ==
  /\ q > 0 /\ r1 # r2
  /\ rackStock[<<p, r1>>] >= q
  /\ rackStock[<<p, r2>>] + q <= MaxRackQty
  /\ rackStock' = [rackStock EXCEPT ![<<p, r1>>] = @ - q, ![<<p, r2>>] = @ + q]
  /\ LET g1 == RackGodown[r1]
         g2 == RackGodown[r2]
         rows == TransferRows(<<[product |-> p, qty |-> q]>>, g1, g2)
     IN  \/ g1 = g2 /\ UNCHANGED ledgerVars
         \/ /\ g1 # g2
            /\ balance[<<p, g1>>] >= q
            /\ CreateDoc(Document("RackTransfer", g1, 1, NoRef, NoEway), rows)
            /\ balance' = Added(balance, rows)
  /\ UNCHANGED <<inventoryFrame, offcutVars>>

-----------------------------------------------------------------------------
(* InventoryController.CreateOffcut, UseOffcut and DeleteOffcut.           *)
OffcutCreate(p, g, size) ==
  /\ nextOffcut \in OffcutIds
  /\ nextOffcut' = nextOffcut + 1
  /\ offcut' = [offcut EXCEPT ![nextOffcut] =
       [product |-> p, godown |-> g, size |-> size,
        status |-> "Available", consumer |-> NoRef]]
  /\ UNCHANGED <<inventoryFrame, ledgerVars, rackStock>>

OffcutUse(o) ==
  /\ offcut[o].status = "Available"
  /\ offcut' = [offcut EXCEPT ![o].status = "Used"]
  /\ UNCHANGED <<inventoryFrame, ledgerVars, rackStock, nextOffcut>>

OffcutDelete(o) ==
  /\ offcut[o].status = "Available"
  /\ offcut' = [offcut EXCEPT ![o].status = "Deleted"]
  /\ UNCHANGED <<inventoryFrame, ledgerVars, rackStock, nextOffcut>>

-----------------------------------------------------------------------------
InventoryNext ==
  \/ \E g \in Godowns, lines \in LineSeqs : StockOpeningCreate(g, lines)
  \/ \E d \in DocIds : StockOpeningDelete(d)
  \/ \E g \in Godowns, lines \in LineSeqs : AdjustmentCreate(g, lines)
  \/ \E d \in DocIds : AdjustmentDelete(d)
  \/ \E from, to \in Godowns, lines \in LineSeqs : TransferCreate(from, to, lines)
  \/ \E p \in Products, r \in Racks, q \in Quantities : RackStockAdjust(p, r, q)
  \/ \E p \in Products, r \in Racks : RackStockDelete(p, r)
  \/ \E p \in Products, r1, r2 \in Racks, q \in Quantities : RackStockTransfer(p, r1, r2, q)
  \/ \E p \in Products, g \in Godowns, size \in Pieces : OffcutCreate(p, g, size)
  \/ \E o \in OffcutIds : OffcutUse(o)
  \/ \E o \in OffcutIds : OffcutDelete(o)
=============================================================================
