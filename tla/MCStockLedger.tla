--------------------------- MODULE MCStockLedger ---------------------------
(***************************************************************************)
(* Instances of StockLedger for TLC.  The full next-state relation has too *)
(* many requests to enumerate at useful bounds, so the runs take the       *)
(* handlers of one side together with the sales and receipts that disturb  *)
(* them.                                                                   *)
(***************************************************************************)
EXTENDS StockLedger, TLC

CONSTANTS hall, yard, r1, r2, r3, e1, e2

MCRackGodown == [r \in Racks |-> IF r = r2 THEN yard ELSE hall]

(* The e-Way Bills are interchangeable. *)
EwaySymmetry == Permutations(EwayBills)

(* Purchases, against invoices that sell what was received. *)
PurchaseRun ==
  Init /\ [][PurchaseNext \/ \E lines \in LineSeqs : InvoiceCreate(lines)]_vars

(* Inventory documents, against invoices. *)
InventoryRun ==
  Init /\ [][InventoryNext \/ \E lines \in LineSeqs : InvoiceCreate(lines)]_vars

(* Sales of every kind, counter sales that cut sheets among them, against  *)
(* opening entries and the offcuts logged by hand.                         *)
SalesRun ==
  Init /\ [][ \/ SalesNext
              \/ \E lines \in LineSeqs : StockOpeningCreate(hall, lines)
              \/ \E p \in Products, g \in Godowns : OffcutCreate(p, g, 1)
              \/ \E o \in OffcutIds : OffcutUse(o)
              \/ \E o \in OffcutIds : OffcutDelete(o)]_vars
=============================================================================
