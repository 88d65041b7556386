--------------------------- MODULE StockPurchase ---------------------------
(***************************************************************************)
(* The purchase side: goods receipts, purchase invoices and the e-Way Bill *)
(* entries a purchase invoice may be linked to.                            *)
(***************************************************************************)
EXTENDS StockTables

purchaseFrame == <<rackStock, offcutVars, papers>>

-----------------------------------------------------------------------------
(* The rows of a receipt: a line of which nothing was accepted posts none. *)
AcceptedRows(lines, g) ==
  [i \in 1..Len(lines) |->
     [cell |-> <<lines[i].product, g>>,
      qty  |-> IF lines[i].qty > 0 THEN lines[i].qty ELSE 0]]

(* GrnController.Create; qty is a line's accepted quantity.  That the      *)
(* purchase order exists and is not cancelled is the environment's choice. *)
GrnCreate(g, lines) ==
  /\ CreateDoc(Document("Grn", g, Len(lines), NoRef, NoEway), AcceptedRows(lines, g))
  /\ balance' = Added(balance, AcceptedRows(lines, g))
  /\ UNCHANGED <<purchaseFrame, eway>>

(* GrnController.Delete: refused once an invoice is booked against the     *)
(* receipt, or when a row it posted is no longer on hand.                  *)
GrnDelete(d) ==
  /\ doc[d].kind = "Grn"
  /\ \A i \in DocIds : ~ (doc[i].kind = "PurchaseInvoice" /\ doc[i].grn = d)
  /\ EachRowOnHand(d)
  /\ balance' = Removed(balance, movement[d])
  /\ DeleteDoc(d)
  /\ UNCHANGED <<purchaseFrame, eway>>

-----------------------------------------------------------------------------
(* EwayBillsController.Create and Delete.  An e-Way Bill number can be     *)
(* entered again only after its entry is gone; a used one cannot go.       *)
EwayBillCreate(e) ==
  /\ eway[e] = "absent"
  /\ eway' = [eway EXCEPT ![e] = "free"]
  /\ UNCHANGED <<ledgerVars, purchaseFrame>>

EwayBillDelete(e) ==
  /\ eway[e] = "free"
  /\ eway' = [eway EXCEPT ![e] = "absent"]
  /\ UNCHANGED <<ledgerVars, purchaseFrame>>

-----------------------------------------------------------------------------
(* Mutant of Relinked: the bill the invoice let go of stays used. *)
RelinkedKeepingOld(old, new) ==
  [e \in EwayBills |-> IF e = new THEN "used" ELSE eway[e]]

(* The e-Way Bills after an invoice's link moves from old to new.          *)
Relinked(old, new) ==
  [e \in EwayBills |->
     IF old # new /\ e = new THEN "used"
     ELSE IF old # new /\ e = old THEN "free"
     ELSE eway[e]]

(* PurchaseInvoiceController.Create: a linked e-Way Bill must be free and  *)
(* is marked used; every line adds stock.  The receipt the invoice names   *)
(* is only required to exist.                                              *)
PurchaseInvoiceCreate(g, lines, e, grn) ==
  /\ Positive(lines)
  /\ e # NoEway => eway[e] = "free"
  /\ grn # NoRef => doc[grn].kind = "Grn"
  /\ CreateDoc(Document("PurchaseInvoice", g, Len(lines), grn, e), InRows(lines, g))
  /\ balance' = Added(balance, InRows(lines, g))
  /\ eway' = Relinked(NoEway, e)
  /\ UNCHANGED purchaseFrame

(* Mutant of ReplaceLines: what the old lines added is not taken out. *)
AddLinesAgain(d, lines) ==
  /\ Positive(lines)
  /\ EachRowOnHand(d)
  /\ LET rows == InRows(lines, doc[d].godown)
     IN  /\ balance' = Added(balance, rows)
         /\ movement' = [movement EXCEPT ![d] = rows]

(* PurchaseInvoiceController.Update with new lines: what the old lines     *)
(* added is taken out again (ReverseStockMovements), then the new lines    *)
(* are added in the invoice's own godown.                                  *)
ReplaceLines(d, lines) ==
  /\ Positive(lines)
  /\ EachRowOnHand(d)
  /\ LET rows == InRows(lines, doc[d].godown)
     IN  /\ balance' = Added(Removed(balance, movement[d]), rows)
         /\ movement' = [movement EXCEPT ![d] = rows]

(* The link after an update asks for e: the same bill again, no bill, or   *)
(* another bill, which must be free.                                       *)
SwitchEway(d, e) ==
  /\ e \notin {NoEway, doc[d].eway} => eway[e] = "free"
  /\ doc' = [doc EXCEPT ![d].eway = e]
  /\ eway' = Relinked(doc[d].eway, e)

PurchaseInvoiceUpdate(d, e, lines) ==
  /\ doc[d].kind = "PurchaseInvoice"
  /\ \/ lines = << >> /\ UNCHANGED <<balance, movement>>
     \/ lines # << >> /\ ReplaceLines(d, lines)
  /\ SwitchEway(d, e)
  /\ UNCHANGED <<nextDoc, purchaseFrame>>

(* PurchaseInvoiceController.Delete: the rows must be on hand; the linked  *)
(* e-Way Bill is freed.                                                    *)
PurchaseInvoiceDelete(d) ==
  /\ doc[d].kind = "PurchaseInvoice"
  /\ EachRowOnHand(d)
  /\ balance' = Removed(balance, movement[d])
  /\ DeleteDoc(d)
  /\ eway' = Relinked(doc[d].eway, NoEway)
  /\ UNCHANGED purchaseFrame

-----------------------------------------------------------------------------
PurchaseNext ==
  \/ \E g \in Godowns, lines \in LineSeqs : GrnCreate(g, lines)
  \/ \E d \in DocIds : GrnDelete(d)
  \/ \E e \in EwayBills : EwayBillCreate(e)
  \/ \E e \in EwayBills : EwayBillDelete(e)
  \/ \E g \in Godowns, lines \in LineSeqs, e \in EwayBills \cup {NoEway},
        grn \in DocIds \cup {NoRef} : PurchaseInvoiceCreate(g, lines, e, grn)
  \/ \E d \in DocIds, e \in EwayBills \cup {NoEway}, lines \in LineSeqs \cup {<< >>} :
        PurchaseInvoiceUpdate(d, e, lines)
  \/ \E d \in DocIds : PurchaseInvoiceDelete(d)
=============================================================================
