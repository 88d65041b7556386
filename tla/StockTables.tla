---------------------------- MODULE StockTables ----------------------------
(***************************************************************************)
(* The stock tables every stock-affecting handler of the server reads and  *)
(* writes, and the ways in which those handlers touch them.                *)
(*                                                                         *)
(*   balance   Inventory.StockBalance: quantity on hand per product and    *)
(*             godown.  A missing row and a row of 0 are the same thing to *)
(*             every handler (they all upsert, or read "?? 0").            *)
(*   movement  Inventory.StockMovement: the rows a document posted, in     *)
(*             order, under the document's id.  An entry of quantity 0     *)
(*             stands for a line that posts no row.                        *)
(*   doc       the headers of the stock-affecting documents.               *)
(*   nextDoc   the next identity value.  The id ranges of the document     *)
(*             tables are merged into one; an id is never used twice.      *)
(*   rackStock Inventory.RackStock, the rack-level ledger.                 *)
(*   offcut    Inventory.Offcut, the leftovers of cut sheets.              *)
(*   eway      Purchase.EwayBill: absent, free (IsUsed = 0) or used.       *)
(*   papers    what refers to a sales invoice: payments, vouchers,         *)
(*             waybills and complaints.                                    *)
(*                                                                         *)
(* One action of the modules that extend this one is one committed         *)
(* request: each handler runs in one transaction, and one that refuses or  *)
(* throws rolls back and leaves every table as it was.                     *)
(***************************************************************************)
EXTENDS Sums

CONSTANTS
  Products,     \* Master.Product
  Godowns,      \* Company.Godown
  MainGodown,   \* the active godown with Code = 'MAIN'
  Racks,        \* Company.Rack
  NoRack,       \* RackId IS NULL
  RackGodown,   \* Company.Rack.GodownId
  EwayBills,    \* the e-Way Bill numbers suppliers send
  NoEway,       \* EwayBillId IS NULL
  Papers,       \* the kinds of rows that may refer to an invoice
  Quantities,   \* bound: the quantities a request line may carry
  Pieces,       \* bound: the sizes of the pieces a counter sale cuts
  SheetSize,    \* size of a standard sheet; 0 when none is configured
  MaxLines,     \* bound: lines of one request
  MaxDocs,      \* bound: documents ever created
  MaxOffcuts,   \* bound: offcuts ever created
  MaxRackQty    \* bound: what a rack may be filled to by transfers

ASSUME StockConstants ==
  /\ Products # {}
  /\ MainGodown \in Godowns
  /\ NoEway \notin EwayBills
  /\ NoRack \notin Racks
  /\ RackGodown \in [Racks -> Godowns]
  /\ Papers \subseteq {"Voucher", "Waybill", "Complaint"}
  /\ Quantities \subseteq Int
  /\ Pieces \subseteq Nat
  /\ SheetSize \in Nat
  /\ MaxLines \in Nat \ {0}
  /\ MaxDocs \in Nat \ {0}
  /\ MaxOffcuts \in Nat
  /\ MaxRackQty \in Nat

NoRef == 0

Cells == Products \X Godowns
DocIds == 1..MaxDocs
OffcutIds == 1..MaxOffcuts

Kinds == {"Grn", "PurchaseInvoice", "StockOpening", "StockAdjustment",
          "StockTransfer", "RackTransfer", "Invoice", "CounterInvoice",
          "CuttingEntry"}

Row == [cell : Cells, qty : Int]

Header == [kind : Kinds \cup {"None"}, status : {"Posted", "Cancelled"},
           godown : Godowns, grn : DocIds \cup {NoRef},
           eway : EwayBills \cup {NoEway}, lines : Nat]

(* The header of a new document of kind k: for godown g, with n lines,     *)
(* referring to receipt grn and e-Way Bill e.                              *)
Document(k, g, n, grn, e) ==
  [kind |-> k, status |-> "Posted", godown |-> g, grn |-> grn, eway |-> e, lines |-> n]

NoDoc == Document("None", MainGodown, 0, NoRef, NoEway)

Offcut == [product : Products, godown : Godowns, size : Nat,
           status : {"None", "Available", "Used", "Deleted"},
           consumer : DocIds \cup {NoRef}]

VARIABLES balance, movement, doc, nextDoc, rackStock,
          offcut, nextOffcut, eway, papers

ledgerVars == <<balance, movement, doc, nextDoc>>
offcutVars == <<offcut, nextOffcut>>
vars == <<ledgerVars, rackStock, offcutVars, eway, papers>>

-----------------------------------------------------------------------------
(* What the movement table says is on hand in a cell. *)
Ledger(c) == SumTo([d \in DocIds |-> Net(movement[d], c)], MaxDocs)

(* The balances after every row is added, and after every row is taken out. *)
Added(b, rows) == [c \in Cells |-> b[c] + Net(rows, c)]
Removed(b, rows) == [c \in Cells |-> b[c] - Net(rows, c)]

(* Mutant of EachRowOnHand: one unit too few passes. *)
EachRowOnHandButOne(d) ==
  \A i \in 1..Len(movement[d]) :
    movement[d][i].qty # 0 =>
      balance[movement[d][i].cell] >= movement[d][i].qty - 1

(* The guard of every deletion that takes stock out: each row on its own   *)
(* is still on hand.                                                       *)
EachRowOnHand(d) ==
  \A i \in 1..Len(movement[d]) :
    movement[d][i].qty # 0 =>
      balance[movement[d][i].cell] >= movement[d][i].qty

(* The lines a request may carry: product, quantity, and the size of the   *)
(* piece a counter sale cuts (0 when the line is priced per piece).        *)
Line == [product : Products, qty : Quantities]
LineSeqs == UNION {[1..n -> Line] : n \in 1..MaxLines}
InRows(lines, g) ==
  [i \in 1..Len(lines) |-> [cell |-> <<lines[i].product, g>>, qty |-> lines[i].qty]]
OutRows(lines, g) ==
  [i \in 1..Len(lines) |-> [cell |-> <<lines[i].product, g>>, qty |-> 0 - lines[i].qty]]

Positive(lines) == \A i \in 1..Len(lines) : lines[i].qty > 0

(* A new document takes the next id and posts its rows. *)
CreateDoc(header, rows) ==
  /\ nextDoc \in DocIds
  /\ nextDoc' = nextDoc + 1
  /\ doc' = [doc EXCEPT ![nextDoc] = header]
  /\ movement' = [movement EXCEPT ![nextDoc] = rows]

(* Mutant of WithoutRows: the rows are not deleted. *)
WithRowsKept(d) == movement

(* The movement table once the rows of a document are deleted. *)
WithoutRows(d) == [movement EXCEPT ![d] = << >>]

(* Deleting a document deletes its movement rows with it. *)
DeleteDoc(d) ==
  /\ doc' = [doc EXCEPT ![d] = NoDoc]
  /\ movement' = WithoutRows(d)
  /\ UNCHANGED nextDoc

-----------------------------------------------------------------------------
Init ==
  /\ balance = [c \in Cells |-> 0]
  /\ movement = [d \in DocIds |-> << >>]
  /\ doc = [d \in DocIds |-> NoDoc]
  /\ nextDoc = 1
  /\ rackStock = [s \in Products \X Racks |-> 0]
  /\ offcut = [o \in OffcutIds |->
       [product |-> CHOOSE p \in Products : TRUE, godown |-> MainGodown,
        size |-> 0, status |-> "None", consumer |-> NoRef]]
  /\ nextOffcut = 1
  /\ eway = [e \in EwayBills |-> "absent"]
  /\ papers = [d \in DocIds |-> {}]

(* The typing of the ledger tables, and of the others. *)
LedgerTypeOK ==
  /\ balance \in [Cells -> Int]
  /\ movement \in [DocIds -> Seq(Row)]
  /\ doc \in [DocIds -> Header]
  /\ nextDoc \in 1..(MaxDocs + 1)

(* The type invariant: every table holds rows of its own shape. *)
TypeOK ==
  /\ LedgerTypeOK
  /\ rackStock \in [Products \X Racks -> Int]
  /\ offcut \in [OffcutIds -> Offcut]
  /\ nextOffcut \in 1..(MaxOffcuts + 1)
  /\ eway \in [EwayBills -> {"absent", "free", "used"}]
  /\ papers \in [DocIds -> SUBSET (Papers \cup {"Payment"})]
=============================================================================
