---------------------------- MODULE StockLedger ----------------------------
(***************************************************************************)
(* All stock-affecting documents of the server over one set of tables, one *)
(* committed request at a time, and what must hold of the tables whatever  *)
(* requests arrive in whatever order.                                      *)
(***************************************************************************)
EXTENDS StockPurchase, StockInventory, StockSales, FiniteSets, FiniteSetsExt

(* The godowns a product's stock is added up over are a finite set. *)
ASSUME GodownsFinite == IsFiniteSet(Godowns)

Next == PurchaseNext \/ InventoryNext \/ SalesNext
Spec == Init /\ [][Next]_vars

-----------------------------------------------------------------------------
Books == INSTANCE StockAccount WITH Docs <- DocIds, book <- balance, rows <- movement

(* Every request, of whatever kind, changes the rows of one document and   *)
(* moves the balances by exactly the difference: the tables implement      *)
(* StockAccount.                                                           *)
ImplementsAccount == Books!Account

(* The quantity on hand of every product in every godown is exactly what   *)
(* its movement rows add up to, through every creation, edit, deletion and *)
(* cancellation of every kind of document: nothing is counted twice, lost  *)
(* or taken back in another amount than it was posted.                     *)
LedgerMatchesBalance == \A c \in Cells : balance[c] = Ledger(c)

(* Movement rows belong to a document that still stands: a deleted         *)
(* document and a cancelled cutting entry leave none behind, and no row is *)
(* posted under an id not yet given out.                                   *)
NoOrphanRows ==
  \A d \in DocIds : movement[d] # << >> =>
    /\ d < nextDoc
    /\ doc[d].kind # "None"
    /\ ~ (doc[d].kind = "CuttingEntry" /\ doc[d].status = "Cancelled")

(* An e-Way Bill is marked used exactly while one purchase invoice is      *)
(* linked to it, and never by two, whatever invoices are booked, relinked  *)
(* and deleted in between (Purchase.EwayBill.IsUsed).                      *)
LinkedTo(e) == {d \in DocIds : doc[d].kind = "PurchaseInvoice" /\ doc[d].eway = e}
EwayLinkExact ==
  \A e \in EwayBills :
    /\ eway[e] = "used" <=> LinkedTo(e) # {}
    /\ \A d1, d2 \in LinkedTo(e) : d1 = d2

(* Every line of a counter sale is served exactly once: by a movement row  *)
(* or by one offcut that names the sale as its consumer, so no leftover is *)
(* handed to two lines and no line goes unserved.                          *)
EveryLineServed ==
  \A d \in DocIds : doc[d].kind = "CounterInvoice" =>
    Cardinality({i \in 1..Len(movement[d]) : movement[d][i].qty # 0})
      + Cardinality({o \in OffcutIds : offcut[o].consumer = d}) = doc[d].lines

-----------------------------------------------------------------------------
(* The document whose stock this step takes out again: deleted, or given   *)
(* other lines.                                                            *)
Inbound == {"Grn", "PurchaseInvoice", "StockOpening", "StockAdjustment"}
Reverses(d) == doc[d].kind \in Inbound /\ movement'[d] # movement[d]
Touched(d) == {movement[d][i].cell : i \in {j \in 1..Len(movement[d]) : movement[d][j].qty # 0}}
DistinctCells(d) ==
  \A i, j \in 1..Len(movement[d]) :
    i # j => movement[d][i].cell # movement[d][j].cell

(* Taking back a document that names each product once never leaves one    *)
(* of its balances negative, even when sales have already driven other     *)
(* balances below zero.                                                    *)
ReversalKeepsFloor ==
  [][\A d \in DocIds : Reverses(d) /\ DistinctCells(d) =>
       \A c \in Touched(d) : balance'[c] >= 0]_vars

(* The same of every goods receipt, as the comment on GrnController.Delete *)
(* puts it: "refused if any of that stock has since moved on elsewhere ... *)
(* rather than silently taking a balance negative".                        *)
NoReceiptReversalGoesNegative ==
  [][\A d \in DocIds : doc[d].kind = "Grn" /\ Reverses(d) =>
       \A c \in Touched(d) : balance'[c] >= 0]_vars

(* A transfer between godowns or across racks of two godowns moves stock:  *)
(* what all godowns hold of a product stays the same, and the godown it    *)
(* leaves is not overdrawn however many lines name the same product.       *)
Held(b, p) == MapThenSumSet(LAMBDA g : b[<<p, g>>], Godowns)
Transfers(d) == doc[d].kind = "None" /\ doc'[d].kind \in {"StockTransfer", "RackTransfer"}
TransferMovesStock ==
  [][\A d \in DocIds : Transfers(d) =>
       \A p \in Products :
         /\ Held(balance', p) = Held(balance, p)
         /\ LET from == <<p, doc'[d].godown>>
            IN  balance'[from] < balance[from] => balance'[from] >= 0]_vars

(* A sale that something refers to (a payment, a voucher, a waybill, a     *)
(* complaint) keeps its document and its stock rows; a counter sale always *)
(* has a payment, so it is never undone.                                   *)
BilledSaleStands ==
  [][\A d \in DocIds : papers[d] # {} =>
       movement'[d] = movement[d] /\ doc'[d].kind = doc[d].kind]_vars
=============================================================================
