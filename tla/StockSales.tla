----------------------------- MODULE StockSales -----------------------------
(***************************************************************************)
(* The sales side: invoices, counter sales and cutting entries, which take *)
(* stock out without asking whether it is there, and the rows that refer   *)
(* to an invoice and keep it from being deleted.                           *)
(***************************************************************************)
EXTENDS StockTables

salesFrame == <<eway>>

-----------------------------------------------------------------------------
(* InvoicesController.Create: every line takes its quantity, converted to  *)
(* the product's stock unit, out of the main godown.  (The invoice page    *)
(* drops the lines whose quantity is not positive.)                        *)
InvoiceCreate(lines) ==
  /\ Positive(lines)
  /\ CreateDoc(Document("Invoice", MainGodown, Len(lines), NoRef, NoEway),
               OutRows(lines, MainGodown))
  /\ balance' = Added(balance, OutRows(lines, MainGodown))
  /\ UNCHANGED <<salesFrame, rackStock, offcutVars, papers>>

SalesInvoice(d) == doc[d].kind \in {"Invoice", "CounterInvoice"}

(* InvoicesController.Cancel changes the status and nothing else: the      *)
(* stock stays taken out.                                                  *)
InvoiceCancel(d) ==
  /\ SalesInvoice(d)
  /\ doc[d].status # "Cancelled"
  /\ doc' = [doc EXCEPT ![d].status = "Cancelled"]
  /\ UNCHANGED <<balance, movement, nextDoc, salesFrame, rackStock, offcutVars, papers>>

(* Mutant of Unreferenced: waybills and complaints are not looked for. *)
UnpaidOnly(d) == papers[d] \cap {"Payment", "Voucher"} = {}

(* Mutant of OwnRows: the rows are looked for under the wrong type. *)
NoRows(d) == << >>

(* InvoicesController.Delete, for an invoice nothing refers to.  It puts   *)
(* back the rows posted under DocType 'Invoice'; a counter sale posts its  *)
(* rows under another type, which this delete does not find.               *)
Unreferenced(d) == papers[d] = {}
OwnRows(d) == IF doc[d].kind = "Invoice" THEN movement[d] ELSE << >>
InvoiceDelete(d) ==
  /\ SalesInvoice(d)
  /\ Unreferenced(d)
  /\ balance' = Removed(balance, OwnRows(d))
  /\ doc' = [doc EXCEPT ![d] = NoDoc]
  /\ movement' = IF doc[d].kind = "Invoice" THEN WithoutRows(d) ELSE movement
  /\ UNCHANGED <<nextDoc, salesFrame, rackStock, offcutVars, papers>>

(* VouchersController.Create, WaybillsController.Create and                *)
(* ComplaintsController.Create, for a row that names an invoice: the       *)
(* invoice exists, a waybill needs it approved and without another one.    *)
PaperCreate(d, paper) ==
  /\ SalesInvoice(d)
  /\ paper = "Waybill" => doc[d].status = "Posted" /\ paper \notin papers[d]
  /\ papers' = [papers EXCEPT ![d] = @ \cup {paper}]
  /\ UNCHANGED <<ledgerVars, salesFrame, rackStock, offcutVars>>

(* The Delete handlers of the same three, when the last such row goes.  A  *)
(* payment (Sales.InvoicePayment) has no handler that deletes it.          *)
PaperDelete(d, paper) ==
  /\ paper \in papers[d]
  /\ papers' = [papers EXCEPT ![d] = @ \ {paper}]
  /\ UNCHANGED <<ledgerVars, salesFrame, rackStock, offcutVars>>

-----------------------------------------------------------------------------
(* The available offcuts of a table that fit a piece, and the best of      *)
(* them: the least waste, then the oldest.                                 *)
Fitting(table, p, size) ==
  {o \in OffcutIds : /\ table[o].status = "Available"
                     /\ table[o].product = p
                     /\ table[o].godown = MainGodown
                     /\ table[o].size >= size}
BestFit(table, p, size) ==
  CHOOSE o \in Fitting(table, p, size) :
    \A other \in Fitting(table, p, size) :
      \/ table[o].size < table[other].size
      \/ table[o].size = table[other].size /\ o <= other

(* Mutant of Consumed: the offcut is not marked used. *)
ConsumedStillAvailable(table, o, d) == [table EXCEPT ![o].consumer = d]

(* OffcutAllocation.TryReuseOffcut, when an offcut fits.                   *)
Consumed(table, o, d) ==
  [table EXCEPT ![o].status = "Used", ![o].consumer = d]

(* Mutant of LeavesOffcut: the piece is not compared with the sheet. *)
EverySheetLeavesOffcut(line) == line.piece > 0

(* The offcut half of OffcutAllocation.DeductStockAndLogOffcut: the strip  *)
(* a fresh sheet leaves over, when the sheet size is known.                *)
LeavesOffcut(line) == line.piece > 0 /\ SheetSize > line.piece
Leftover(line) ==
  [product |-> line.product, godown |-> MainGodown, size |-> SheetSize - line.piece,
   status |-> "Available", consumer |-> NoRef]

(* The offcut table after each line of counter sale d, and whether the     *)
(* line was served from an offcut.                                         *)
ServeLine(s, line, d) ==
  IF line.piece > 0 /\ Fitting(s.table, line.product, line.piece) # {}
  THEN [table |-> Consumed(s.table, BestFit(s.table, line.product, line.piece), d),
        next |-> s.next, reused |-> TRUE]
  ELSE IF LeavesOffcut(line)
  THEN [table |-> [s.table EXCEPT ![s.next] = Leftover(line)],
        next |-> s.next + 1, reused |-> FALSE]
  ELSE [table |-> s.table, next |-> s.next, reused |-> FALSE]
Served(lines, d) ==
  LET s[i \in 0..Len(lines)] ==
        IF i = 0 THEN [table |-> offcut, next |-> nextOffcut, reused |-> FALSE]
        ELSE ServeLine(s[i - 1], lines[i], d)
  IN s

(* A counter sale posts a row for each line an offcut did not serve.       *)
CounterRows(lines, served) ==
  [i \in 1..Len(lines) |->
     [cell |-> <<lines[i].product, MainGodown>>,
      qty  |-> IF served[i].reused THEN 0 ELSE 0 - lines[i].qty]]

(* CounterInvoicesController.Create.  A sale carries at least one payment. *)
(* (The second conjunct only keeps new offcuts within MaxOffcuts.)         *)
CounterInvoiceCreate(lines) ==
  /\ Positive(lines)
  /\ nextOffcut + Len(lines) \in 1..(MaxOffcuts + 1)
  /\ LET served == Served(lines, nextDoc)
         rows == CounterRows(lines, served)
     IN  /\ CreateDoc(Document("CounterInvoice", MainGodown, Len(lines), NoRef, NoEway), rows)
         /\ balance' = Added(balance, rows)
         /\ offcut' = served[Len(lines)].table
         /\ nextOffcut' = served[Len(lines)].next
  /\ papers' = [papers EXCEPT ![nextDoc] = {"Payment"}]
  /\ UNCHANGED <<salesFrame, rackStock>>

CounterLine == [product : Products, qty : Quantities, piece : Pieces \cup {0}]
CounterLineSeqs == UNION {[1..n -> CounterLine] : n \in 1..MaxLines}

-----------------------------------------------------------------------------
(* A cutting line names its own godown and, optionally, a rack.            *)
CuttingLine == [product : Products, qty : Quantities, godown : Godowns,
                rack : Racks \cup {NoRack}]
CuttingLineSeqs == UNION {[1..n -> CuttingLine] : n \in 1..MaxLines}
CutRows(lines) ==
  [i \in 1..Len(lines) |->
     [cell |-> <<lines[i].product, lines[i].godown>>, qty |-> 0 - lines[i].qty]]

(* The rack ledger after the lines came off their racks: best effort, it   *)
(* may go below zero (CuttingStockConsumption.Deduct).                     *)
OffRacks(lines) ==
  [s \in Products \X Racks |->
     rackStock[s] -
       SumTo([i \in 1..Len(lines) |->
                IF <<lines[i].product, lines[i].rack>> = s THEN lines[i].qty ELSE 0],
             Len(lines))]

(* CuttingEntryController.Create.                                          *)
CuttingEntryCreate(lines) ==
  /\ Positive(lines)
  /\ CreateDoc(Document("CuttingEntry", MainGodown, Len(lines), NoRef, NoEway), CutRows(lines))
  /\ balance' = Added(balance, CutRows(lines))
  /\ rackStock' = OffRacks(lines)
  /\ UNCHANGED <<salesFrame, offcutVars, papers>>

(* CuttingEntryController.Cancel: the entry stays, marked cancelled; its   *)
(* rows are taken back (CuttingStockConsumption.Reverse) but the rack is   *)
(* not.                                                                    *)
CuttingEntryCancel(d) ==
  /\ doc[d].kind = "CuttingEntry"
  /\ doc[d].status # "Cancelled"
  /\ balance' = Removed(balance, movement[d])
  /\ movement' = WithoutRows(d)
  /\ doc' = [doc EXCEPT ![d].status = "Cancelled"]
  /\ UNCHANGED <<nextDoc, salesFrame, rackStock, offcutVars, papers>>

-----------------------------------------------------------------------------
SalesNext ==
  \/ \E lines \in LineSeqs : InvoiceCreate(lines)
  \/ \E d \in DocIds : InvoiceCancel(d)
  \/ \E d \in DocIds : InvoiceDelete(d)
  \/ \E d \in DocIds, paper \in Papers : PaperCreate(d, paper)
  \/ \E d \in DocIds, paper \in Papers : PaperDelete(d, paper)
  \/ \E lines \in CounterLineSeqs : CounterInvoiceCreate(lines)
  \/ \E lines \in CuttingLineSeqs : CuttingEntryCreate(lines)
  \/ \E d \in DocIds : CuttingEntryCancel(d)
=============================================================================
