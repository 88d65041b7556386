------------------------- MODULE StockLedgerProofs --------------------------
(***************************************************************************)
(* What holds of the stock tables for every set of products, godowns, racks*)
(* and quantities and any number of documents.  First the ledger: its      *)
(* tables stay well typed, balances are what the movement rows add up to,  *)
(* and no movement row outlives its document.  Then the links of its       *)
(* documents: an e-Way Bill is used exactly while one purchase invoice     *)
(* links to it, every line of a counter sale is served once, a sale that   *)
(* something refers to keeps its document and rows, and every table keeps  *)
(* its type.                                                               *)
(*                                                                         *)
(* The ledger: each handler either posts rows under a fresh id, takes back *)
(* the rows of one document, replaces them, or leaves the tables alone.    *)
(* LedgerShift says what changing the rows of one document does to the sum *)
(* of all of them; the lemmas after it treat the kinds of handler in turn, *)
(* and StepKeepsInv goes through the handlers.                             *)
(*                                                                         *)
(* LinkInv is inductive as it stands: each handler moves the link of one   *)
(* document from one bill to another that is free, or leaves both.         *)
(*                                                                         *)
(* EveryLineServed counts the rows of a sale and the offcuts that name it, *)
(* so it needs to know that no request but the sale itself changes either. *)
(* Rows: a counter sale is born with a payment, a payment is never taken   *)
(* off it, and no handler cancels or deletes what something refers to      *)
(* (PapersOnSales, Kept).  Offcuts: one that is logged or available names  *)
(* no sale, a taken one is never touched again, and none names an id not   *)
(* yet given out (OffcutInv). A sale serves its lines one by one, so       *)
(* Progress counts up to the line served last.                             *)
(***************************************************************************)
EXTENDS StockLedger, SumsProofs, FiniteSetTheorems

(* Rows built line by line are a sequence of rows. *)
LEMMA RowSeq ==
  ASSUME NEW n \in Nat, NEW f \in [1..n -> Row]
  PROVE  f \in Seq(Row) /\ Len(f) = n
  OBVIOUS

LEMMA NetType ==
  ASSUME NEW rows \in Seq(Row), NEW c
  PROVE  Net(rows, c) \in Int
BY NetTyped DEF Row, Rows

(* Replacing the rows of document d moves the sum of all rows by the       *)
(* difference between its new and its old rows.                            *)
LEMMA LedgerShift ==
  ASSUME NEW m \in [DocIds -> Seq(Row)], NEW d \in DocIds, NEW rows \in Seq(Row), NEW c
  PROVE  SumTo([e \in DocIds |-> Net([m EXCEPT ![d] = rows][e], c)], MaxDocs)
           = SumTo([e \in DocIds |-> Net(m[e], c)], MaxDocs)
               + (Net(rows, c) - Net(m[d], c))
<1> DEFINE f == [e \in DocIds |-> Net(m[e], c)]
           h == [e \in DocIds |-> Net([m EXCEPT ![d] = rows][e], c)]
<1>1. MaxDocs \in Nat /\ DocIds = 1..MaxDocs
  BY StockConstants DEF DocIds
<1>2. \A e \in 1..MaxDocs : f[e] \in Int /\ h[e] \in Int
  BY <1>1, NetType
<1>3. \A e \in 1..MaxDocs : e # d => h[e] = f[e]
  BY <1>1
<1>4. h[d] = Net(rows, c) /\ f[d] = Net(m[d], c)
  BY <1>1
<1>5. d \in 1..MaxDocs
  BY <1>1
<1> HIDE DEF f, h
<1>6. SumTo(h, MaxDocs) = SumTo(f, MaxDocs) + (h[d] - f[d])
  BY <1>1, <1>2, <1>3, <1>5, SumUpdate
<1> QED BY <1>4, <1>6 DEF f, h

-----------------------------------------------------------------------------
(* The inductive invariant.  NoDocsAhead keeps a fresh id fresh, and        *)
(* CounterSalePaid keeps a counter sale from being deleted, which would     *)
(* leave its rows without a document.                                       *)
NoDocsAhead == \A d \in DocIds : d >= nextDoc => doc[d].kind = "None"
CounterSalePaid ==
  /\ papers \in [DocIds -> SUBSET (Papers \cup {"Payment"})]
  /\ \A d \in DocIds : doc[d].kind = "CounterInvoice" => "Payment" \in papers[d]
IInv ==
  /\ LedgerTypeOK
  /\ LedgerMatchesBalance
  /\ NoOrphanRows
  /\ NoDocsAhead
  /\ CounterSalePaid

(* The document that stands behind rows: not gone, not a cancelled cut. *)
Backs(h) == h.kind # "None" /\ ~ (h.kind = "CuttingEntry" /\ h.status = "Cancelled")

(* Balances that follow the rows of document d from old to new keep up     *)
(* with the ledger.                                                        *)
LEMMA LedgerFollows ==
  ASSUME LedgerTypeOK, LedgerMatchesBalance,
         NEW d \in DocIds, NEW rows \in Seq(Row),
         movement' = [movement EXCEPT ![d] = rows],
         \A c \in Cells : balance'[c] = balance[c] - Net(movement[d], c) + Net(rows, c)
  PROVE  LedgerMatchesBalance'
<1> SUFFICES ASSUME NEW c \in Cells
             PROVE  balance'[c] = Ledger(c)'
  BY DEF LedgerMatchesBalance
<1>1. movement \in [DocIds -> Seq(Row)] /\ balance \in [Cells -> Int]
  BY DEF LedgerTypeOK
<1>2. Net(movement[d], c) \in Int /\ Net(rows, c) \in Int
  BY <1>1, NetType
<1>3. balance[c] = Ledger(c) /\ balance[c] \in Int
  BY <1>1 DEF LedgerMatchesBalance
<1>4. Ledger(c)' = SumTo([e \in DocIds |-> Net([movement EXCEPT ![d] = rows][e], c)], MaxDocs)
  BY DEF Ledger
<1>5. Ledger(c)' = Ledger(c) + (Net(rows, c) - Net(movement[d], c))
  BY <1>1, <1>4, LedgerShift DEF Ledger
<1>6. balance'[c] = balance[c] - Net(movement[d], c) + Net(rows, c)
  OBVIOUS
<1> QED BY <1>2, <1>3, <1>5, <1>6

(* A handler that changes the rows and the header of a standing document   *)
(* keeps the invariant.                                                    *)
LEMMA ChangeKeepsInv ==
  ASSUME IInv, NEW d \in DocIds, doc[d].kind # "None",
         NEW rows \in Seq(Row), NEW h \in Header,
         rows = << >> \/ Backs(h),
         h.kind = "CounterInvoice" => doc[d].kind = "CounterInvoice",
         movement' = [movement EXCEPT ![d] = rows],
         doc' = [doc EXCEPT ![d] = h],
         balance' \in [Cells -> Int],
         \A c \in Cells : balance'[c] = balance[c] - Net(movement[d], c) + Net(rows, c),
         UNCHANGED <<nextDoc, papers>>
  PROVE  IInv'
<1>1. LedgerTypeOK'
  BY DEF IInv, LedgerTypeOK
<1>2. LedgerMatchesBalance'
  BY LedgerFollows DEF IInv
<1>3. NoDocsAhead'
  BY DEF IInv, NoDocsAhead, LedgerTypeOK
<1>4. d < nextDoc
  <2>1. d \in Int /\ nextDoc \in Int
    BY StockConstants DEF IInv, LedgerTypeOK, DocIds
  <2>2. ~ (d >= nextDoc)
    BY DEF IInv, NoDocsAhead
  <2> QED BY <2>1, <2>2
<1>5. NoOrphanRows'
  BY <1>4 DEF IInv, NoOrphanRows, Backs, LedgerTypeOK
<1>6. CounterSalePaid'
  BY DEF IInv, CounterSalePaid, LedgerTypeOK
<1> QED BY <1>1, <1>2, <1>3, <1>5, <1>6 DEF IInv

(* A handler that posts rows under a fresh id keeps the invariant. *)
LEMMA PostKeepsInv ==
  ASSUME IInv, NEW rows \in Seq(Row), NEW h \in Header, Backs(h),
         CreateDoc(h, rows),
         balance' \in [Cells -> Int],
         \A c \in Cells : balance'[c] = balance[c] + Net(rows, c),
         IF h.kind = "CounterInvoice"
         THEN papers' = [papers EXCEPT ![nextDoc] = {"Payment"}]
         ELSE papers' = papers
  PROVE  IInv'
<1>1. /\ nextDoc \in DocIds /\ nextDoc' = nextDoc + 1
      /\ doc' = [doc EXCEPT ![nextDoc] = h]
      /\ movement' = [movement EXCEPT ![nextDoc] = rows]
  BY DEF CreateDoc
<1>2. movement[nextDoc] = << >>
  BY <1>1, StockConstants DEF IInv, NoOrphanRows, DocIds
<1>3. LedgerTypeOK'
  BY <1>1, StockConstants DEF IInv, LedgerTypeOK, DocIds
<1>4. LedgerMatchesBalance'
  <2>1. \A c \in Cells : balance'[c] = balance[c] - Net(movement[nextDoc], c) + Net(rows, c)
    BY <1>2, NetEmpty DEF IInv, LedgerTypeOK
  <2> QED BY <2>1, <1>1, LedgerFollows DEF IInv
<1>5. NoDocsAhead'
  BY <1>1, StockConstants DEF IInv, NoDocsAhead, LedgerTypeOK, DocIds
<1>6. NoOrphanRows'
  <2> SUFFICES ASSUME NEW e \in DocIds, movement'[e] # << >>
               PROVE  e < nextDoc' /\ Backs(doc'[e])
    BY DEF NoOrphanRows, Backs
  <2>1. e \in Int /\ nextDoc \in Int
    BY StockConstants DEF IInv, LedgerTypeOK, DocIds
  <2>2. CASE e = nextDoc
    BY <2>1, <2>2, <1>1 DEF IInv, LedgerTypeOK
  <2>3. CASE e # nextDoc
    <3>1. movement[e] # << >> /\ doc'[e] = doc[e]
      BY <2>3, <1>1 DEF IInv, LedgerTypeOK
    <3>2. e < nextDoc /\ Backs(doc[e])
      BY <3>1 DEF IInv, NoOrphanRows, Backs
    <3> QED BY <3>1, <3>2, <2>1, <1>1
  <2> QED BY <2>2, <2>3
<1>7. CounterSalePaid'
  BY <1>1 DEF IInv, CounterSalePaid, LedgerTypeOK
<1> QED BY <1>3, <1>4, <1>5, <1>6, <1>7 DEF IInv

-----------------------------------------------------------------------------
(* The rows each handler builds from its lines are rows. *)
LEMMA LinesType ==
  ASSUME NEW lines \in LineSeqs
  PROVE  /\ Len(lines) \in Nat
         /\ \A i \in 1..Len(lines) : lines[i].product \in Products /\ lines[i].qty \in Int
<1> PICK n \in 1..MaxLines : lines \in [1..n -> Line]
  BY DEF LineSeqs
<1>1. n \in Nat
  BY StockConstants
<1>2. Len(lines) = n
  BY <1>1
<1>3. \A i \in 1..n : lines[i] \in Line
  OBVIOUS
<1> QED BY <1>1, <1>2, <1>3, StockConstants DEF Line

LEMMA PurchaseRows ==
  ASSUME NEW lines \in LineSeqs, NEW g \in Godowns
  PROVE  /\ InRows(lines, g) \in Seq(Row)
         /\ OutRows(lines, g) \in Seq(Row)
         /\ AcceptedRows(lines, g) \in Seq(Row)
<1>1. InRows(lines, g) \in [1..Len(lines) -> Row]
  BY LinesType DEF InRows, Row, Cells
<1>2. OutRows(lines, g) \in [1..Len(lines) -> Row]
  BY LinesType DEF OutRows, Row, Cells
<1>3. AcceptedRows(lines, g) \in [1..Len(lines) -> Row]
  BY LinesType DEF AcceptedRows, Row, Cells
<1> QED BY <1>1, <1>2, <1>3, LinesType, RowSeq

(* Every line of a transfer gives two rows. *)
LEMMA TransferRowsType ==
  ASSUME NEW lines, NEW from \in Godowns, NEW to \in Godowns, Len(lines) \in Nat,
         \A i \in 1..Len(lines) : lines[i].product \in Products /\ lines[i].qty \in Int
  PROVE  TransferRows(lines, from, to) \in Seq(Row)
<1>1. 2 * Len(lines) \in Nat
  OBVIOUS
<1>2. \A k \in 1..(2 * Len(lines)) : (k + 1) \div 2 \in 1..Len(lines)
  OBVIOUS
<1>3. TransferRows(lines, from, to) \in [1..(2 * Len(lines)) -> Row]
  <2> SUFFICES ASSUME NEW k \in 1..(2 * Len(lines))
               PROVE  LET line == lines[(k + 1) \div 2]
                      IN  (IF k % 2 = 1 THEN [cell |-> <<line.product, from>>, qty |-> 0 - line.qty]
                           ELSE [cell |-> <<line.product, to>>, qty |-> line.qty]) \in Row
    BY DEF TransferRows
  <2> DEFINE line == lines[(k + 1) \div 2]
  <2>1. line.product \in Products /\ line.qty \in Int
    BY <1>2
  <2> HIDE DEF line
  <2>2. [cell |-> <<line.product, from>>, qty |-> 0 - line.qty] \in Row
    BY <2>1 DEF Row, Cells
  <2>3. [cell |-> <<line.product, to>>, qty |-> line.qty] \in Row
    BY <2>1 DEF Row, Cells
  <2> QED BY <2>2, <2>3 DEF line
<1> QED BY <1>1, <1>3, RowSeq

(* What a counter sale and a cutting entry take out. *)
LEMMA CounterRowsType ==
  ASSUME NEW lines \in CounterLineSeqs, NEW served
  PROVE  CounterRows(lines, served) \in Seq(Row)
<1> PICK n \in 1..MaxLines : lines \in [1..n -> CounterLine]
  BY DEF CounterLineSeqs
<1>1. n \in Nat /\ Len(lines) = n
  BY StockConstants
<1>2. \A i \in 1..n : lines[i] \in CounterLine
  OBVIOUS
<1>3. \A i \in 1..n : lines[i].product \in Products /\ lines[i].qty \in Int
  BY <1>2, StockConstants DEF CounterLine
<1>4. CounterRows(lines, served) \in [1..n -> Row]
  BY <1>1, <1>3, StockConstants DEF CounterRows, Row, Cells
<1> QED BY <1>1, <1>4, RowSeq

LEMMA CutRowsType ==
  ASSUME NEW lines \in CuttingLineSeqs
  PROVE  CutRows(lines) \in Seq(Row)
<1> PICK n \in 1..MaxLines : lines \in [1..n -> CuttingLine]
  BY DEF CuttingLineSeqs
<1>1. n \in Nat /\ Len(lines) = n
  BY StockConstants
<1>2. \A i \in 1..n : lines[i] \in CuttingLine
  OBVIOUS
<1>3. \A i \in 1..n : /\ lines[i].product \in Products /\ lines[i].qty \in Int
                      /\ lines[i].godown \in Godowns
  BY <1>2, StockConstants DEF CuttingLine
<1>4. CutRows(lines) \in [1..n -> Row]
  BY <1>1, <1>3 DEF CutRows, Row, Cells
<1> QED BY <1>1, <1>4, RowSeq

-----------------------------------------------------------------------------
(* The book figure of a cell after line i: the line's count if the line    *)
(* names the cell, the figure before the line if it does not.              *)
LEMMA BookQtyStep ==
  ASSUME balance \in [Cells -> Int], NEW lines \in LineSeqs, NEW g \in Godowns,
         NEW c \in Cells
  PROVE  /\ BookQty(lines, g, 0, c) = balance[c]
         /\ \A i \in 1..Len(lines) :
              BookQty(lines, g, i, c) = IF <<lines[i].product, g>> = c THEN lines[i].qty
                                        ELSE BookQty(lines, g, i - 1, c)
<1>1. Counted(lines, g, 0, c) = {}
  BY DEF Counted
<1>2. BookQty(lines, g, 0, c) = balance[c]
  BY <1>1 DEF BookQty
<1>3. ASSUME NEW i \in 1..Len(lines)
      PROVE  BookQty(lines, g, i, c) = IF <<lines[i].product, g>> = c THEN lines[i].qty
                                        ELSE BookQty(lines, g, i - 1, c)
  <2>0. i \in Int /\ i >= 1
    BY LinesType
  <2>1. CASE <<lines[i].product, g>> = c
    <3> DEFINE last == CHOOSE k \in Counted(lines, g, i, c) :
                         \A j \in Counted(lines, g, i, c) : j <= k
    <3>1. i \in Counted(lines, g, i, c)
      BY <2>0, <2>1 DEF Counted
    <3>2. \A j \in Counted(lines, g, i, c) : j \in Int /\ j <= i
      BY <2>0 DEF Counted
    <3>3. \A k \in Counted(lines, g, i, c) :
            (\A j \in Counted(lines, g, i, c) : j <= k) => k = i
      BY <2>0, <3>1, <3>2
    <3>4. last = i
      BY <3>1, <3>2, <3>3
    <3>5. BookQty(lines, g, i, c) = lines[last].qty
      BY <3>1, Zenon DEF BookQty
    <3> HIDE DEF last
    <3> QED BY <2>1, <3>4, <3>5
  <2>2. CASE <<lines[i].product, g>> # c
    <3>1. Counted(lines, g, i, c) = Counted(lines, g, i - 1, c)
      BY <2>0, <2>2 DEF Counted
    <3> QED BY <2>2, <3>1 DEF BookQty
  <2> QED BY <2>1, <2>2
<1> QED BY <1>2, <1>3

LEMMA BookQtyType ==
  ASSUME balance \in [Cells -> Int], NEW lines \in LineSeqs, NEW g \in Godowns,
         NEW c \in Cells
  PROVE  \A i \in 0..Len(lines) : BookQty(lines, g, i, c) \in Int
<1> DEFINE n == Len(lines)
           S == {i \in 0..n : BookQty(lines, g, i, c) \in Int}
<1>1. n \in Nat /\ balance[c] \in Int
  BY LinesType
<1>2. 0 \in S
  BY <1>1, BookQtyStep
<1>3. ASSUME NEW i \in 1..n, i - 1 \in S
      PROVE  i \in S
  <2>1. BookQty(lines, g, i - 1, c) \in Int
    BY <1>3
  <2>2. lines[i].qty \in Int
    BY LinesType
  <2>3. BookQty(lines, g, i, c) \in Int
    BY <2>1, <2>2, BookQtyStep
  <2>4. i \in 0..n
    BY <1>1
  <2> QED BY <2>3, <2>4
<1>4. \A i \in 0..n : i \in S
  <2> HIDE DEF S, n
  <2> QED BY <1>1, <1>2, <1>3, SetInduction
<1> QED BY <1>4

(* The differences an adjustment posts add up, cell by cell, to the step   *)
(* from the balance to the last count of the cell.                         *)
LEMMA DifferencesAddUp ==
  ASSUME balance \in [Cells -> Int], NEW lines \in LineSeqs, NEW g \in Godowns,
         NEW c \in Cells
  PROVE  /\ DifferenceRows(lines, g) \in Seq(Row)
         /\ BookQty(lines, g, Len(lines), c) = balance[c] + Net(DifferenceRows(lines, g), c)
<1> DEFINE n == Len(lines)
           rows == DifferenceRows(lines, g)
           b(i) == BookQty(lines, g, i, c)
           f == [i \in 1..Len(rows) |-> IF rows[i].cell = c THEN rows[i].qty ELSE 0]
           T == Totals(f, n)
           S == {i \in 0..n : T[i] = b(i) - balance[c]}
<1>1. n \in Nat /\ balance[c] \in Int /\ \A i \in 1..n : lines[i].product \in Products /\ lines[i].qty \in Int
  BY LinesType
<1>2. rows \in [1..n -> Row]
  <2> SUFFICES ASSUME NEW i \in 1..n
               PROVE  [cell |-> <<lines[i].product, g>>,
                       qty  |-> lines[i].qty - BookQty(lines, g, i - 1, <<lines[i].product, g>>)]
                        \in Row
    BY DEF DifferenceRows
  <2>1. <<lines[i].product, g>> \in Cells /\ lines[i].qty \in Int /\ i - 1 \in 0..n
    BY <1>1 DEF Cells
  <2>2. BookQty(lines, g, i - 1, <<lines[i].product, g>>) \in Int
    BY <2>1, BookQtyType
  <2> QED BY <2>1, <2>2 DEF Row
<1>3. rows \in Seq(Row) /\ Len(rows) = n
  <2> HIDE DEF rows, n
  <2> QED BY <1>1, <1>2, RowSeq
<1>4. \A i \in 0..n : b(i) \in Int
  BY BookQtyType
<1>5. T[0] = 0 /\ \A i \in 1..n : T[i] = T[i - 1] + f[i]
  <2> HIDE DEF f, n
  <2> QED BY <1>1, TotalsStep
<1>6. ASSUME NEW i \in 1..n
      PROVE  f[i] = b(i) - b(i - 1)
  <2>1. rows[i].cell = <<lines[i].product, g>>
    BY DEF DifferenceRows
  <2>2. rows[i].qty = lines[i].qty - BookQty(lines, g, i - 1, <<lines[i].product, g>>)
    BY DEF DifferenceRows
  <2>3. f[i] = IF rows[i].cell = c THEN rows[i].qty ELSE 0
    BY <1>3
  <2>4. b(i) = IF <<lines[i].product, g>> = c THEN lines[i].qty ELSE b(i - 1)
    BY BookQtyStep
  <2>5. b(i - 1) \in Int
    BY <1>1, <1>4
  <2> HIDE DEF f, b, rows
  <2>6. CASE <<lines[i].product, g>> = c
    <3>1. f[i] = lines[i].qty - b(i - 1)
      BY <2>1, <2>2, <2>3, <2>6 DEF b
    <3> QED BY <3>1, <2>4, <2>6
  <2>7. CASE <<lines[i].product, g>> # c
    BY <2>1, <2>3, <2>4, <2>5, <2>7
  <2> QED BY <2>6, <2>7
<1>7. 0 \in S
  <2>1. b(0) = balance[c]
    BY BookQtyStep
  <2>2. 0 \in 0..n
    BY <1>1
  <2> HIDE DEF T, b, n
  <2> QED BY <1>1, <1>5, <2>1, <2>2
<1>8. ASSUME NEW i \in 1..n, i - 1 \in S
      PROVE  i \in S
  <2>1. T[i - 1] = b(i - 1) - balance[c]
    BY <1>8
  <2>2. T[i] = T[i - 1] + f[i] /\ f[i] = b(i) - b(i - 1)
    BY <1>5, <1>6
  <2>3. b(i) \in Int /\ b(i - 1) \in Int /\ i \in 0..n
    BY <1>1, <1>4
  <2> HIDE DEF T, b, n, f
  <2> QED BY <1>1, <2>1, <2>2, <2>3
<1>9. n \in S
  <2>1. \A i \in 0..n : i \in S
    <3> HIDE DEF S, n
    <3> QED BY <1>1, <1>7, <1>8, SetInduction
  <2> QED BY <2>1, <1>1
<1>10. Net(rows, c) = T[n]
  BY <1>3 DEF Net, SumTo
<1>11. b(n) = balance[c] + Net(rows, c)
  <2>1. T[n] = b(n) - balance[c] /\ b(n) \in Int
    BY <1>9, <1>4, <1>1
  <2> HIDE DEF T, b, n, rows
  <2> QED BY <1>1, <1>10, <2>1
<1> QED BY <1>3, <1>11

-----------------------------------------------------------------------------
(* A handler that leaves the ledger tables and the papers alone. *)
LEMMA StutterKeepsInv ==
  ASSUME IInv, UNCHANGED <<ledgerVars, papers>>
  PROVE  IInv'
BY DEF IInv, ledgerVars, LedgerTypeOK, LedgerMatchesBalance, Ledger, NoOrphanRows,
       NoDocsAhead, CounterSalePaid

(* Posting rows and adding them to the balances. *)
LEMMA AddKeepsInv ==
  ASSUME IInv, NEW rows \in Seq(Row), NEW h \in Header, Backs(h),
         CreateDoc(h, rows), balance' = Added(balance, rows),
         IF h.kind = "CounterInvoice"
         THEN papers' = [papers EXCEPT ![nextDoc] = {"Payment"}]
         ELSE papers' = papers
  PROVE  IInv'
<1>1. balance \in [Cells -> Int] /\ \A c \in Cells : Net(rows, c) \in Int
  BY NetType DEF IInv, LedgerTypeOK
<1>2. /\ balance' \in [Cells -> Int]
      /\ \A c \in Cells : balance'[c] = balance[c] + Net(rows, c)
  BY <1>1 DEF Added
<1> QED BY <1>2, PostKeepsInv

(* Taking back the rows of a document and, with it, the header or not. *)
LEMMA TakeBackKeepsInv ==
  ASSUME IInv, NEW d \in DocIds, doc[d].kind # "None", NEW h \in Header,
         h.kind # "CounterInvoice",
         balance' = Removed(balance, movement[d]),
         movement' = WithoutRows(d), doc' = [doc EXCEPT ![d] = h],
         UNCHANGED <<nextDoc, papers>>
  PROVE  IInv'
<1>1. balance \in [Cells -> Int] /\ movement[d] \in Seq(Row)
  BY DEF IInv, LedgerTypeOK
<1>2. \A c \in Cells : Net(movement[d], c) \in Int /\ Net(<< >>, c) = 0
  BY <1>1, NetType, NetEmpty
<1>3. /\ balance' \in [Cells -> Int]
      /\ \A c \in Cells : balance'[c] = balance[c] - Net(movement[d], c) + Net(<< >>, c)
  BY <1>1, <1>2 DEF Removed
<1>4. << >> \in Seq(Row) /\ movement' = [movement EXCEPT ![d] = << >>]
  BY DEF WithoutRows
<1> QED BY <1>3, <1>4, ChangeKeepsInv

(* Changing the header of a document and nothing else. *)
LEMMA HeaderKeepsInv ==
  ASSUME IInv, NEW d \in DocIds, doc[d].kind # "None", NEW h \in Header,
         h.kind = doc[d].kind, h.kind # "CuttingEntry",
         doc' = [doc EXCEPT ![d] = h],
         UNCHANGED <<balance, movement, nextDoc, papers>>
  PROVE  IInv'
<1>1. /\ balance \in [Cells -> Int] /\ movement[d] \in Seq(Row)
      /\ movement = [movement EXCEPT ![d] = movement[d]]
  BY DEF IInv, LedgerTypeOK
<1>2. \A c \in Cells : Net(movement[d], c) \in Int /\ balance[c] \in Int
  BY <1>1, NetType
<1>3. \A c \in Cells : balance'[c] = balance[c] - Net(movement[d], c) + Net(movement[d], c)
  BY <1>2
<1>4. Backs(h)
  BY DEF Backs
<1> QED BY <1>1, <1>3, <1>4, ChangeKeepsInv

(* Headers as the handlers write them are headers. *)
LEMMA HeaderType ==
  /\ NoDoc \in Header /\ NoDoc.kind = "None"
  /\ \A h \in Header, e \in EwayBills \cup {NoEway} : [h EXCEPT !.eway = e] \in Header
  /\ \A h \in Header : [h EXCEPT !.status = "Cancelled"] \in Header
BY StockConstants DEF NoDoc, Document, Header, Kinds

LEMMA DocumentType ==
  ASSUME NEW k \in Kinds, NEW g \in Godowns, NEW n \in Nat,
         NEW grn \in DocIds \cup {NoRef}, NEW e \in EwayBills \cup {NoEway}
  PROVE  LET h == Document(k, g, n, grn, e)
         IN  h \in Header /\ h.kind = k /\ h.status = "Posted"
BY DEF Document, Header

LEMMA NewDocument ==
  ASSUME NEW g \in Godowns, NEW n \in Nat
  PROVE  \A k \in Kinds : /\ Document(k, g, n, NoRef, NoEway) \in Header
                          /\ Document(k, g, n, NoRef, NoEway).kind = k
                          /\ Document(k, g, n, NoRef, NoEway).status = "Posted"
BY DocumentType

LEMMA KindsMembers ==
  /\ "Grn" \in Kinds /\ "PurchaseInvoice" \in Kinds /\ "StockOpening" \in Kinds
  /\ "StockAdjustment" \in Kinds /\ "StockTransfer" \in Kinds /\ "RackTransfer" \in Kinds
  /\ "Invoice" \in Kinds /\ "CounterInvoice" \in Kinds /\ "CuttingEntry" \in Kinds
BY DEF Kinds

-----------------------------------------------------------------------------
(* The purchase handlers keep the invariant. *)
LEMMA PurchaseKeepsInv ==
  ASSUME IInv, PurchaseNext
  PROVE  IInv'
<1>0. doc \in [DocIds -> Header]
  BY DEF IInv, LedgerTypeOK
<1>1. ASSUME NEW g \in Godowns, NEW lines \in LineSeqs, GrnCreate(g, lines)
      PROVE  IInv'
  <2> DEFINE h == Document("Grn", g, Len(lines), NoRef, NoEway)
  <2>1. h \in Header /\ h.kind = "Grn"
    BY NewDocument, KindsMembers, LinesType
  <2>2. AcceptedRows(lines, g) \in Seq(Row)
    BY PurchaseRows
  <2>3. /\ CreateDoc(h, AcceptedRows(lines, g))
        /\ balance' = Added(balance, AcceptedRows(lines, g))
        /\ papers' = papers
    BY <1>1 DEF GrnCreate, purchaseFrame
  <2> HIDE DEF h
  <2> QED BY <2>1, <2>2, <2>3, AddKeepsInv DEF Backs
<1>2. ASSUME NEW d \in DocIds, GrnDelete(d)
      PROVE  IInv'
  BY <1>2, TakeBackKeepsInv, HeaderType DEF GrnDelete, DeleteDoc, purchaseFrame, NoDoc
<1>3. ASSUME NEW e \in EwayBills, EwayBillCreate(e) \/ EwayBillDelete(e)
      PROVE  IInv'
  BY <1>3, StutterKeepsInv DEF EwayBillCreate, EwayBillDelete, purchaseFrame
<1>4. ASSUME NEW g \in Godowns, NEW lines \in LineSeqs, NEW e \in EwayBills \cup {NoEway},
             NEW grn \in DocIds \cup {NoRef}, PurchaseInvoiceCreate(g, lines, e, grn)
      PROVE  IInv'
  <2> DEFINE h == Document("PurchaseInvoice", g, Len(lines), grn, e)
  <2>1. h \in Header /\ h.kind = "PurchaseInvoice"
    <3>1. Len(lines) \in Nat
      BY LinesType
    <3> QED BY <3>1, KindsMembers DEF Document, Header
  <2>2. InRows(lines, g) \in Seq(Row)
    BY PurchaseRows
  <2>3. /\ CreateDoc(h, InRows(lines, g))
        /\ balance' = Added(balance, InRows(lines, g))
        /\ papers' = papers
    BY <1>4 DEF PurchaseInvoiceCreate, purchaseFrame
  <2> HIDE DEF h
  <2> QED BY <2>1, <2>2, <2>3, AddKeepsInv DEF Backs
<1>5. ASSUME NEW d \in DocIds, NEW e \in EwayBills \cup {NoEway},
             NEW lines \in LineSeqs \cup {<< >>}, PurchaseInvoiceUpdate(d, e, lines)
      PROVE  IInv'
  <2> DEFINE h == [doc[d] EXCEPT !.eway = e]
             rows == InRows(lines, doc[d].godown)
  <2>1. doc[d] \in Header /\ doc[d].kind = "PurchaseInvoice"
    BY <1>0, <1>5 DEF PurchaseInvoiceUpdate
  <2>2. h \in Header /\ h.kind = "PurchaseInvoice"
    BY <2>1, HeaderType DEF Header
  <2>3. /\ doc' = [doc EXCEPT ![d] = h]
        /\ UNCHANGED <<nextDoc, papers>>
    BY <1>5, <1>0 DEF PurchaseInvoiceUpdate, SwitchEway, purchaseFrame
  <2>4. CASE lines = << >> /\ UNCHANGED <<balance, movement>>
    <3> HIDE DEF h
    <3> QED BY <2>1, <2>2, <2>3, <2>4, HeaderKeepsInv
  <2>5. CASE lines # << >> /\ ReplaceLines(d, lines)
    <3>1. rows \in Seq(Row)
      BY <2>1, <2>5, PurchaseRows DEF Header
    <3>2. /\ balance' = Added(Removed(balance, movement[d]), rows)
          /\ movement' = [movement EXCEPT ![d] = rows]
      BY <2>5 DEF ReplaceLines
    <3>3. balance \in [Cells -> Int] /\ movement[d] \in Seq(Row)
      BY DEF IInv, LedgerTypeOK
    <3> HIDE DEF h, rows
    <3>4. \A c \in Cells : Net(rows, c) \in Int /\ Net(movement[d], c) \in Int
      BY <3>1, <3>3, NetType
    <3>5. /\ balance' \in [Cells -> Int]
          /\ \A c \in Cells : balance'[c] = balance[c] - Net(movement[d], c) + Net(rows, c)
      BY <3>2, <3>3, <3>4 DEF Added, Removed
    <3> QED BY <2>1, <2>2, <2>3, <3>1, <3>2, <3>5, ChangeKeepsInv DEF Backs
  <2> QED BY <1>5, <2>4, <2>5 DEF PurchaseInvoiceUpdate
<1>6. ASSUME NEW d \in DocIds, PurchaseInvoiceDelete(d)
      PROVE  IInv'
  BY <1>6, TakeBackKeepsInv, HeaderType DEF PurchaseInvoiceDelete, DeleteDoc, purchaseFrame, NoDoc
<1> QED BY <1>1, <1>2, <1>3, <1>4, <1>5, <1>6 DEF PurchaseNext

(* The inventory handlers keep the invariant. *)
LEMMA InventoryKeepsInv ==
  ASSUME IInv, InventoryNext
  PROVE  IInv'
<1>0. balance \in [Cells -> Int]
  BY DEF IInv, LedgerTypeOK
<1>1. ASSUME NEW g \in Godowns, NEW lines \in LineSeqs, StockOpeningCreate(g, lines)
      PROVE  IInv'
  <2> DEFINE h == Document("StockOpening", g, Len(lines), NoRef, NoEway)
  <2>1. h \in Header /\ h.kind = "StockOpening"
    BY NewDocument, KindsMembers, LinesType
  <2>2. InRows(lines, g) \in Seq(Row)
    BY PurchaseRows
  <2>3. /\ CreateDoc(h, InRows(lines, g))
        /\ balance' = Added(balance, InRows(lines, g))
        /\ papers' = papers
    BY <1>1 DEF StockOpeningCreate, inventoryFrame
  <2> HIDE DEF h
  <2> QED BY <2>1, <2>2, <2>3, AddKeepsInv DEF Backs
<1>2. CASE \E d \in DocIds : StockOpeningDelete(d) \/ AdjustmentDelete(d)
  BY <1>0, <1>2, TakeBackKeepsInv, HeaderType
     DEF StockOpeningDelete, AdjustmentDelete, InventoryDocDelete, DeleteDoc, NoDoc, inventoryFrame
<1>3. ASSUME NEW g \in Godowns, NEW lines \in LineSeqs, AdjustmentCreate(g, lines)
      PROVE  IInv'
  <2> DEFINE h == Document("StockAdjustment", g, Len(lines), NoRef, NoEway)
             rows == DifferenceRows(lines, g)
  <2>1. h \in Header /\ h.kind = "StockAdjustment"
    BY NewDocument, KindsMembers, LinesType
  <2>2. CreateDoc(h, rows) /\ papers' = papers
    BY <1>3 DEF AdjustmentCreate, inventoryFrame
  <2>3. \A c \in Cells : /\ balance'[c] = BookQty(lines, g, Len(lines), c)
                         /\ BookQty(lines, g, Len(lines), c) \in Int
    BY <1>0, <1>3, BookQtyType, LinesType DEF AdjustmentCreate
  <2>4. balance' \in [Cells -> Int]
    BY <1>3, <2>3 DEF AdjustmentCreate
  <2>5. \A c \in Cells : rows \in Seq(Row) /\ balance'[c] = balance[c] + Net(rows, c)
    BY <1>0, <2>3, DifferencesAddUp
  <2>6. \E c : c \in Cells
    <3>1. PICK p : p \in Products
      BY StockConstants
    <3>2. <<p, g>> \in Cells
      BY <3>1 DEF Cells
    <3> QED BY <3>2
  <2> HIDE DEF h, rows
  <2> QED BY <1>0, <2>1, <2>2, <2>4, <2>5, <2>6, PostKeepsInv DEF Backs
<1>4. ASSUME NEW from \in Godowns, NEW to \in Godowns, NEW lines \in LineSeqs,
             TransferCreate(from, to, lines)
      PROVE  IInv'
  <2> DEFINE h == Document("StockTransfer", from, Len(lines), NoRef, NoEway)
             rows == TransferRows(lines, from, to)
  <2>1. h \in Header /\ h.kind = "StockTransfer"
    BY NewDocument, KindsMembers, LinesType
  <2>2. rows \in Seq(Row)
    BY LinesType, TransferRowsType
  <2>3. CreateDoc(h, rows) /\ balance' = Added(balance, rows) /\ papers' = papers
    BY <1>4 DEF TransferCreate, inventoryFrame
  <2> HIDE DEF h, rows
  <2> QED BY <2>1, <2>2, <2>3, AddKeepsInv DEF Backs
<1>5. ASSUME NEW p \in Products, NEW r1 \in Racks, NEW r2 \in Racks, NEW q \in Quantities,
             RackStockTransfer(p, r1, r2, q)
      PROVE  IInv'
  <2> DEFINE h == Document("RackTransfer", RackGodown[r1], 1, NoRef, NoEway)
             lines == <<[product |-> p, qty |-> q]>>
             rows == TransferRows(lines, RackGodown[r1], RackGodown[r2])
  <2>1. RackGodown[r1] \in Godowns /\ RackGodown[r2] \in Godowns
    BY StockConstants
  <2>2. h \in Header /\ h.kind = "RackTransfer"
    BY <2>1, NewDocument, KindsMembers
  <2>3. rows \in Seq(Row)
    <3>1. /\ Len(lines) = 1
          /\ \A i \in 1..Len(lines) : lines[i].product \in Products /\ lines[i].qty \in Int
      BY StockConstants
    <3> HIDE DEF lines
    <3> QED BY <2>1, <3>1, TransferRowsType
  <2>4. papers' = papers
    BY <1>5 DEF RackStockTransfer, inventoryFrame
  <2>5. CASE UNCHANGED ledgerVars
    BY <2>4, <2>5, StutterKeepsInv
  <2>6. CASE CreateDoc(h, rows) /\ balance' = Added(balance, rows)
    <3> HIDE DEF h, rows
    <3> QED BY <2>4, <2>2, <2>3, <2>6, AddKeepsInv DEF Backs
  <2> QED BY <1>5, <2>5, <2>6 DEF RackStockTransfer
<1>6. CASE \/ \E p \in Products, r \in Racks, q \in Quantities : RackStockAdjust(p, r, q)
           \/ \E p \in Products, r \in Racks : RackStockDelete(p, r)
           \/ \E p \in Products, g \in Godowns, size \in Pieces : OffcutCreate(p, g, size)
           \/ \E o \in OffcutIds : OffcutUse(o)
           \/ \E o \in OffcutIds : OffcutDelete(o)
  <2>1. UNCHANGED <<ledgerVars, papers>>
    BY <1>6 DEF RackStockAdjust, RackStockDelete, OffcutCreate, OffcutUse, OffcutDelete,
                inventoryFrame
  <2> QED BY <2>1, StutterKeepsInv
<1>7. CASE \/ \E g \in Godowns, lines \in LineSeqs : StockOpeningCreate(g, lines)
           \/ \E g \in Godowns, lines \in LineSeqs : AdjustmentCreate(g, lines)
  BY <1>1, <1>3, <1>7
<1>8. CASE \/ \E from, to \in Godowns, lines \in LineSeqs : TransferCreate(from, to, lines)
           \/ \E p \in Products, r1, r2 \in Racks, q \in Quantities :
                 RackStockTransfer(p, r1, r2, q)
  BY <1>4, <1>5, <1>8
<1> QED BY <1>2, <1>6, <1>7, <1>8 DEF InventoryNext

(* The sales handlers keep the invariant. *)
LEMMA SalesKeepsInv ==
  ASSUME IInv, SalesNext
  PROVE  IInv'
<1>0. /\ doc \in [DocIds -> Header] /\ movement \in [DocIds -> Seq(Row)]
      /\ \A d \in DocIds : doc[d].kind = "CounterInvoice" => papers[d] # {}
  BY DEF IInv, LedgerTypeOK, CounterSalePaid
<1>1. ASSUME NEW lines \in LineSeqs, InvoiceCreate(lines)
      PROVE  IInv'
  <2> DEFINE h == Document("Invoice", MainGodown, Len(lines), NoRef, NoEway)
  <2>1. h \in Header /\ h.kind = "Invoice"
    BY NewDocument, KindsMembers, StockConstants, LinesType
  <2>2. OutRows(lines, MainGodown) \in Seq(Row)
    BY PurchaseRows, StockConstants
  <2>3. /\ CreateDoc(h, OutRows(lines, MainGodown))
        /\ balance' = Added(balance, OutRows(lines, MainGodown))
        /\ papers' = papers
    BY <1>1 DEF InvoiceCreate
  <2> HIDE DEF h
  <2> QED BY <2>1, <2>2, <2>3, AddKeepsInv DEF Backs
<1>2. ASSUME NEW d \in DocIds, InvoiceCancel(d)
      PROVE  IInv'
  <2> DEFINE h == [doc[d] EXCEPT !.status = "Cancelled"]
  <2>1. h \in Header /\ h.kind = doc[d].kind /\ SalesInvoice(d)
    BY <1>0, <1>2, HeaderType DEF InvoiceCancel, Header
  <2>2. doc' = [doc EXCEPT ![d] = h] /\ UNCHANGED <<balance, movement, nextDoc, papers>>
    BY <1>0, <1>2 DEF InvoiceCancel
  <2> HIDE DEF h
  <2> QED BY <2>1, <2>2, HeaderKeepsInv DEF SalesInvoice
<1>3. ASSUME NEW d \in DocIds, InvoiceDelete(d)
      PROVE  IInv'
  <2>1. doc[d].kind = "Invoice"
    BY <1>0, <1>3 DEF InvoiceDelete, SalesInvoice, Unreferenced
  <2>2. /\ balance' = Removed(balance, movement[d]) /\ movement' = WithoutRows(d)
        /\ doc' = [doc EXCEPT ![d] = NoDoc] /\ UNCHANGED <<nextDoc, papers>>
    BY <1>3, <2>1 DEF InvoiceDelete, OwnRows
  <2> QED BY <2>1, <2>2, TakeBackKeepsInv, HeaderType DEF NoDoc
<1>4. ASSUME NEW d \in DocIds, NEW paper \in Papers,
             PaperCreate(d, paper) \/ PaperDelete(d, paper)
      PROVE  IInv'
  <2>1. paper # "Payment"
    BY StockConstants
  <2>2. CounterSalePaid'
    BY <1>4, <2>1 DEF IInv, CounterSalePaid, PaperCreate, PaperDelete, ledgerVars
  <2>3. UNCHANGED ledgerVars
    BY <1>4 DEF PaperCreate, PaperDelete
  <2> QED BY <2>2, <2>3 DEF IInv, ledgerVars, LedgerTypeOK, LedgerMatchesBalance, Ledger,
                            NoOrphanRows, NoDocsAhead
<1>5. ASSUME NEW lines \in CounterLineSeqs, CounterInvoiceCreate(lines)
      PROVE  IInv'
  <2> DEFINE h == Document("CounterInvoice", MainGodown, Len(lines), NoRef, NoEway)
             rows == CounterRows(lines, Served(lines, nextDoc))
  <2>1. Len(lines) \in Nat
    BY StockConstants DEF CounterLineSeqs
  <2>2. h \in Header /\ h.kind = "CounterInvoice"
    BY <2>1, NewDocument, KindsMembers, StockConstants
  <2>3. rows \in Seq(Row)
    BY CounterRowsType
  <2>4. /\ CreateDoc(h, rows)
        /\ balance' = Added(balance, rows)
        /\ papers' = [papers EXCEPT ![nextDoc] = {"Payment"}]
    BY <1>5 DEF CounterInvoiceCreate
  <2> HIDE DEF h, rows
  <2> QED BY <2>2, <2>3, <2>4, AddKeepsInv DEF Backs
<1>6. ASSUME NEW lines \in CuttingLineSeqs, CuttingEntryCreate(lines)
      PROVE  IInv'
  <2> DEFINE h == Document("CuttingEntry", MainGodown, Len(lines), NoRef, NoEway)
  <2>1. Len(lines) \in Nat
    BY StockConstants DEF CuttingLineSeqs
  <2>2. h \in Header /\ h.kind = "CuttingEntry" /\ h.status = "Posted"
    BY <2>1, NewDocument, KindsMembers, StockConstants
  <2>3. CutRows(lines) \in Seq(Row)
    BY CutRowsType
  <2>4. /\ CreateDoc(h, CutRows(lines))
        /\ balance' = Added(balance, CutRows(lines))
        /\ papers' = papers
    BY <1>6 DEF CuttingEntryCreate
  <2> HIDE DEF h
  <2> QED BY <2>2, <2>3, <2>4, AddKeepsInv DEF Backs
<1>7. ASSUME NEW d \in DocIds, CuttingEntryCancel(d)
      PROVE  IInv'
  <2> DEFINE h == [doc[d] EXCEPT !.status = "Cancelled"]
  <2>1. h \in Header /\ h.kind = "CuttingEntry" /\ doc[d].kind = "CuttingEntry"
    BY <1>0, <1>7, HeaderType DEF CuttingEntryCancel, Header
  <2>2. /\ balance' = Removed(balance, movement[d]) /\ movement' = WithoutRows(d)
        /\ doc' = [doc EXCEPT ![d] = h] /\ UNCHANGED <<nextDoc, papers>>
    BY <1>0, <1>7 DEF CuttingEntryCancel
  <2> HIDE DEF h
  <2> QED BY <2>1, <2>2, TakeBackKeepsInv
<1> QED BY <1>1, <1>2, <1>3, <1>4, <1>5, <1>6, <1>7 DEF SalesNext

-----------------------------------------------------------------------------
(* The empty tables satisfy the invariant. *)
LEMMA InitInv == Init => IInv
<1> SUFFICES ASSUME Init PROVE IInv
  OBVIOUS
<1>1. LedgerTypeOK
  <2>1. NoDoc \in Header
    BY HeaderType
  <2>2. nextDoc \in 1..(MaxDocs + 1)
    BY StockConstants DEF Init
  <2>3. movement \in [DocIds -> Seq(Row)] /\ balance \in [Cells -> Int]
    BY DEF Init
  <2> QED BY <2>1, <2>2, <2>3 DEF Init, LedgerTypeOK
<1>2. LedgerMatchesBalance
  <2> SUFFICES ASSUME NEW c \in Cells PROVE balance[c] = Ledger(c)
    BY DEF LedgerMatchesBalance
  <2> DEFINE f == [d \in DocIds |-> Net(movement[d], c)]
  <2>1. MaxDocs \in Nat /\ \A d \in 1..MaxDocs : f[d] = 0
    BY StockConstants, NetEmpty DEF Init, DocIds
  <2>2. SumTo(f, MaxDocs) = 0
    <3> HIDE DEF f
    <3> QED BY <2>1, SumZero
  <2>3. balance[c] = 0
    BY DEF Init
  <2> QED BY <2>2, <2>3 DEF Ledger
<1>3. NoOrphanRows
  BY DEF Init, NoOrphanRows
<1>4. NoDocsAhead
  BY HeaderType DEF Init, NoDocsAhead
<1>5. CounterSalePaid
  BY HeaderType DEF Init, CounterSalePaid
<1> QED BY <1>1, <1>2, <1>3, <1>4, <1>5 DEF IInv

LEMMA StepKeepsInv == IInv /\ [Next]_vars => IInv'
<1> SUFFICES ASSUME IInv, [Next]_vars PROVE IInv'
  OBVIOUS
<1>1. CASE PurchaseNext
  BY <1>1, PurchaseKeepsInv
<1>2. CASE InventoryNext
  BY <1>2, InventoryKeepsInv
<1>3. CASE SalesNext
  BY <1>3, SalesKeepsInv
<1>4. CASE UNCHANGED vars
  BY <1>4, StutterKeepsInv DEF vars
<1> QED BY <1>1, <1>2, <1>3, <1>4 DEF Next

LEMMA InvHolds == Spec => []IInv
BY InitInv, StepKeepsInv, PTL DEF Spec

(* The ledger tables keep their types (every handler of the controllers    *)
(* writes headers and rows of the tables' shapes).                         *)
THEOREM LedgerTypeCorrect == Spec => []LedgerTypeOK
<1>1. IInv => LedgerTypeOK
  BY DEF IInv
<1> QED BY <1>1, InvHolds, PTL

(* What is on hand is always what the movement rows add up to, for any     *)
(* number of products, godowns, documents and lines and any quantities.    *)
THEOREM BalanceIsLedger == Spec => []LedgerMatchesBalance
<1>1. IInv => LedgerMatchesBalance
  BY DEF IInv
<1> QED BY <1>1, InvHolds, PTL

(* No movement row is ever left without a document that still stands.      *)
THEOREM RowsHaveDocuments == Spec => []NoOrphanRows
<1>1. IInv => NoOrphanRows
  BY DEF IInv
<1> QED BY <1>1, InvHolds, PTL

-----------------------------------------------------------------------------
(* The link of a document, whatever its kind.                              *)
Link(h) == IF h.kind = "PurchaseInvoice" THEN h.eway ELSE NoEway

LinkInv ==
  /\ eway \in [EwayBills -> {"absent", "free", "used"}]
  /\ \A e \in EwayBills :
       /\ eway[e] = "used" <=> \E d \in DocIds : Link(doc[d]) = e
       /\ \A d1, d2 \in DocIds : Link(doc[d1]) = e /\ Link(doc[d2]) = e => d1 = d2

LEMMA LinkInvExact == LinkInv => EwayLinkExact
BY StockConstants DEF LinkInv, Link, EwayLinkExact, LinkedTo

(* A document's link moves from one bill to another that is free, or stays.*)
LEMMA RelinkKeepsLinks ==
  ASSUME LedgerTypeOK, LinkInv, NEW d \in DocIds, NEW h,
         Link(h) \notin {NoEway, Link(doc[d])} => eway[Link(h)] = "free",
         doc' = [doc EXCEPT ![d] = h],
         eway' = Relinked(Link(doc[d]), Link(h))
  PROVE  LinkInv'
<1> DEFINE old == Link(doc[d])
           new == Link(h)
<1>1. \A i \in DocIds : Link(doc'[i]) = IF i = d THEN new ELSE Link(doc[i])
  BY DEF LedgerTypeOK, Link
<1>2. eway' = [e \in EwayBills |-> IF old # new /\ e = new THEN "used"
                                   ELSE IF old # new /\ e = old THEN "free"
                                   ELSE eway[e]]
  BY DEF Relinked
<1>3. \A e \in EwayBills : /\ e # NoEway
                           /\ eway[e] = "used" <=> \E i \in DocIds : Link(doc[i]) = e
                           /\ \A d1, d2 \in DocIds :
                                Link(doc[d1]) = e /\ Link(doc[d2]) = e => d1 = d2
  BY StockConstants DEF LinkInv
<1>4. /\ old = Link(doc[d])
      /\ new \notin {NoEway, old} => eway[new] = "free"
  OBVIOUS
<1>5. eway' \in [EwayBills -> {"absent", "free", "used"}]
  <2> HIDE DEF old, new
  <2> QED BY <1>2 DEF LinkInv
<1> HIDE DEF old, new
<1>6. ASSUME NEW e \in EwayBills
      PROVE  /\ eway'[e] = "used" <=> \E i \in DocIds : Link(doc'[i]) = e
             /\ \A d1, d2 \in DocIds : Link(doc'[d1]) = e /\ Link(doc'[d2]) = e => d1 = d2
  <2>1. CASE old = new
    <3>1. \A i \in DocIds : Link(doc'[i]) = Link(doc[i])
      BY <1>1, <1>4, <2>1
    <3>2. eway'[e] = eway[e]
      BY <1>2, <2>1
    <3> QED BY <1>3, <3>1, <3>2
  <2>2. CASE old # new /\ e = new
    <3>1. \A i \in DocIds : Link(doc[i]) # e
      BY <1>3, <1>4, <2>2
    <3> QED BY <1>1, <1>2, <2>2, <3>1
  <2>3. CASE old # new /\ e = old
    <3>1. \A i \in DocIds : i # d => Link(doc[i]) # e
      BY <1>3, <1>4, <2>3
    <3> QED BY <1>1, <1>2, <2>3, <3>1
  <2>4. CASE old # new /\ e # new /\ e # old
    BY <1>1, <1>2, <1>3, <1>4, <2>4
  <2> QED BY <2>1, <2>2, <2>3, <2>4
<1> QED BY <1>5, <1>6 DEF LinkInv

(* A document that is not a purchase invoice and does not become one.      *)
LEMMA OthersKeepLinks ==
  ASSUME LedgerTypeOK, LinkInv, NEW d \in DocIds, NEW h,
         doc[d].kind # "PurchaseInvoice", h.kind # "PurchaseInvoice",
         doc' = [doc EXCEPT ![d] = h], UNCHANGED eway
  PROVE  LinkInv'
<1>1. Link(doc[d]) = NoEway /\ Link(h) = NoEway
  BY DEF Link
<1>2. Relinked(NoEway, NoEway) = eway
  BY DEF Relinked, LinkInv
<1> QED BY <1>1, <1>2, RelinkKeepsLinks

LEMMA SameDocsKeepLinks ==
  ASSUME LinkInv, UNCHANGED <<doc, eway>>
  PROVE  LinkInv'
BY DEF LinkInv

LEMMA NewDocKeepsLinks ==
  ASSUME IInv, LinkInv, NEW h, NEW rows, CreateDoc(h, rows),
         h.kind # "PurchaseInvoice", UNCHANGED eway
  PROVE  LinkInv'
<1>1. /\ nextDoc \in DocIds /\ doc[nextDoc].kind = "None"
      /\ doc' = [doc EXCEPT ![nextDoc] = h]
  BY DEF CreateDoc, IInv, NoDocsAhead, LedgerTypeOK, DocIds
<1> QED BY <1>1, OthersKeepLinks DEF IInv

-----------------------------------------------------------------------------
LEMMA PurchaseKeepsLinks ==
  ASSUME IInv, LinkInv, PurchaseNext
  PROVE  LinkInv'
<1>0. LedgerTypeOK /\ NoDoc.kind = "None" /\ Link(NoDoc) = NoEway
  BY HeaderType DEF IInv, Link
<1>1. ASSUME NEW g \in Godowns, NEW lines \in LineSeqs, GrnCreate(g, lines)
      PROVE  LinkInv'
  BY <1>1, NewDocKeepsLinks DEF GrnCreate, Document
<1>2. ASSUME NEW d \in DocIds, GrnDelete(d)
      PROVE  LinkInv'
  BY <1>0, <1>2, OthersKeepLinks DEF GrnDelete, DeleteDoc
<1>3. ASSUME NEW e \in EwayBills, EwayBillCreate(e) \/ EwayBillDelete(e)
      PROVE  LinkInv'
  BY <1>3 DEF EwayBillCreate, EwayBillDelete, ledgerVars, LinkInv
<1>4. ASSUME NEW g \in Godowns, NEW lines \in LineSeqs, NEW e \in EwayBills \cup {NoEway},
             NEW grn \in DocIds \cup {NoRef}, PurchaseInvoiceCreate(g, lines, e, grn)
      PROVE  LinkInv'
  <2> DEFINE h == Document("PurchaseInvoice", g, Len(lines), grn, e)
  <2>1. Link(h) = e
    BY DEF Link, Document
  <2>2. /\ nextDoc \in DocIds /\ Link(doc[nextDoc]) = NoEway
        /\ doc' = [doc EXCEPT ![nextDoc] = h]
    BY <1>4 DEF PurchaseInvoiceCreate, CreateDoc, IInv, NoDocsAhead, LedgerTypeOK, DocIds, Link
  <2>3. /\ eway' = Relinked(NoEway, e)
        /\ e # NoEway => eway[e] = "free"
    BY <1>4 DEF PurchaseInvoiceCreate
  <2> HIDE DEF h
  <2> QED BY <1>0, <2>1, <2>2, <2>3, RelinkKeepsLinks
<1>5. ASSUME NEW d \in DocIds, NEW e \in EwayBills \cup {NoEway},
             NEW lines \in LineSeqs \cup {<< >>}, PurchaseInvoiceUpdate(d, e, lines)
      PROVE  LinkInv'
  <2> DEFINE h == [doc[d] EXCEPT !.eway = e]
  <2>1. doc[d] \in Header /\ doc[d].kind = "PurchaseInvoice"
    BY <1>0, <1>5 DEF PurchaseInvoiceUpdate, LedgerTypeOK
  <2>2. Link(doc[d]) = doc[d].eway /\ Link(h) = e
    BY <2>1 DEF Link, Header
  <2>3. /\ doc' = [doc EXCEPT ![d] = h]
        /\ eway' = Relinked(doc[d].eway, e)
        /\ e \notin {NoEway, doc[d].eway} => eway[e] = "free"
    BY <1>0, <1>5 DEF PurchaseInvoiceUpdate, SwitchEway, LedgerTypeOK
  <2> HIDE DEF h
  <2> QED BY <1>0, <2>2, <2>3, RelinkKeepsLinks
<1>6. ASSUME NEW d \in DocIds, PurchaseInvoiceDelete(d)
      PROVE  LinkInv'
  <2>1. Link(doc[d]) = doc[d].eway
    BY <1>6 DEF PurchaseInvoiceDelete, Link
  <2>2. doc' = [doc EXCEPT ![d] = NoDoc] /\ eway' = Relinked(doc[d].eway, NoEway)
    BY <1>6 DEF PurchaseInvoiceDelete, DeleteDoc
  <2> QED BY <1>0, <2>1, <2>2, RelinkKeepsLinks
<1> QED BY <1>1, <1>2, <1>3, <1>4, <1>5, <1>6 DEF PurchaseNext

LEMMA InventoryKeepsLinks ==
  ASSUME IInv, LinkInv, InventoryNext
  PROVE  LinkInv'
<1>0. LedgerTypeOK /\ NoDoc.kind = "None"
  BY HeaderType DEF IInv
<1>1. ASSUME NEW g \in Godowns, NEW lines \in LineSeqs,
             StockOpeningCreate(g, lines) \/ AdjustmentCreate(g, lines)
      PROVE  LinkInv'
  BY <1>1, NewDocKeepsLinks DEF StockOpeningCreate, AdjustmentCreate, Document, inventoryFrame
<1>2. ASSUME NEW d \in DocIds, StockOpeningDelete(d) \/ AdjustmentDelete(d)
      PROVE  LinkInv'
  BY <1>0, <1>2, OthersKeepLinks
     DEF StockOpeningDelete, AdjustmentDelete, InventoryDocDelete, DeleteDoc, inventoryFrame
<1>3. ASSUME NEW from \in Godowns, NEW to \in Godowns, NEW lines \in LineSeqs,
             TransferCreate(from, to, lines)
      PROVE  LinkInv'
  BY <1>3, NewDocKeepsLinks DEF TransferCreate, Document, inventoryFrame
<1>4. ASSUME NEW p \in Products, NEW r1 \in Racks, NEW r2 \in Racks, NEW q \in Quantities,
             RackStockTransfer(p, r1, r2, q)
      PROVE  LinkInv'
  <2>1. UNCHANGED eway
    BY <1>4 DEF RackStockTransfer, inventoryFrame
  <2>2. CASE UNCHANGED ledgerVars
    BY <2>1, <2>2, SameDocsKeepLinks DEF ledgerVars
  <2>3. CASE \E rows : CreateDoc(Document("RackTransfer", RackGodown[r1], 1, NoRef, NoEway), rows)
    BY <2>1, <2>3, NewDocKeepsLinks DEF Document
  <2> QED BY <1>4, <2>2, <2>3 DEF RackStockTransfer
<1>5. ASSUME NEW p \in Products,
             \/ \E r \in Racks, q \in Quantities : RackStockAdjust(p, r, q)
             \/ \E r \in Racks : RackStockDelete(p, r)
             \/ \E g \in Godowns, size \in Pieces : OffcutCreate(p, g, size)
      PROVE  LinkInv'
  BY <1>5, SameDocsKeepLinks DEF RackStockAdjust, RackStockDelete, OffcutCreate, ledgerVars,
                                 inventoryFrame
<1>6. ASSUME NEW o \in OffcutIds, OffcutUse(o) \/ OffcutDelete(o)
      PROVE  LinkInv'
  BY <1>6, SameDocsKeepLinks DEF OffcutUse, OffcutDelete, ledgerVars, inventoryFrame
<1> QED BY <1>1, <1>2, <1>3, <1>4, <1>5, <1>6 DEF InventoryNext

LEMMA SalesKeepsLinks ==
  ASSUME IInv, LinkInv, SalesNext
  PROVE  LinkInv'
<1>0. LedgerTypeOK /\ NoDoc.kind = "None"
  BY HeaderType DEF IInv
<1>1. ASSUME \/ \E lines \in LineSeqs : InvoiceCreate(lines)
             \/ \E lines \in CounterLineSeqs : CounterInvoiceCreate(lines)
             \/ \E lines \in CuttingLineSeqs : CuttingEntryCreate(lines)
      PROVE  LinkInv'
  <2>1. \A k, g, n : Document(k, g, n, NoRef, NoEway).kind = k
    BY DEF Document
  <2>2. /\ UNCHANGED eway
        /\ \E k \in {"Invoice", "CounterInvoice", "CuttingEntry"} : \E n, rows :
             CreateDoc(Document(k, MainGodown, n, NoRef, NoEway), rows)
    BY <1>1 DEF InvoiceCreate, CounterInvoiceCreate, CuttingEntryCreate, salesFrame
  <2> QED BY <2>1, <2>2, NewDocKeepsLinks
<1>2. ASSUME NEW d \in DocIds, InvoiceCancel(d) \/ CuttingEntryCancel(d)
      PROVE  LinkInv'
  <2> DEFINE h == [doc[d] EXCEPT !.status = "Cancelled"]
  <2>1. doc[d].kind # "PurchaseInvoice" /\ h.kind = doc[d].kind
    BY <1>0, <1>2 DEF InvoiceCancel, CuttingEntryCancel, SalesInvoice, LedgerTypeOK, Header
  <2>2. doc' = [doc EXCEPT ![d] = h] /\ UNCHANGED eway
    BY <1>0, <1>2 DEF InvoiceCancel, CuttingEntryCancel, salesFrame, LedgerTypeOK
  <2> HIDE DEF h
  <2> QED BY <1>0, <2>1, <2>2, OthersKeepLinks
<1>3. ASSUME NEW d \in DocIds, InvoiceDelete(d)
      PROVE  LinkInv'
  BY <1>0, <1>3, OthersKeepLinks DEF InvoiceDelete, SalesInvoice, salesFrame
<1>4. ASSUME NEW d \in DocIds, NEW paper \in Papers,
             PaperCreate(d, paper) \/ PaperDelete(d, paper)
      PROVE  LinkInv'
  BY <1>4, SameDocsKeepLinks DEF PaperCreate, PaperDelete, ledgerVars, salesFrame
<1> QED BY <1>1, <1>2, <1>3, <1>4 DEF SalesNext

-----------------------------------------------------------------------------
LEMMA LinkHolds == Spec => []LinkInv
<1>1. Init => LinkInv
  BY HeaderType, StockConstants DEF Init, LinkInv, Link
<1>2. IInv /\ LinkInv /\ [Next]_vars => LinkInv'
  <2> SUFFICES ASSUME IInv, LinkInv, [Next]_vars PROVE LinkInv'
    OBVIOUS
  <2>1. CASE UNCHANGED vars
    BY <2>1, SameDocsKeepLinks DEF vars, ledgerVars
  <2> QED BY <2>1, PurchaseKeepsLinks, InventoryKeepsLinks, SalesKeepsLinks DEF Next
<1> QED BY <1>1, <1>2, InvHolds, PTL DEF Spec

(* IsUsed of an e-Way Bill is exact: set exactly while one purchase        *)
(* invoice links to the bill, and never by two, through every booking,     *)
(* edit and deletion (EwayLinkExact).                                      *)
THEOREM BillsHaveOneInvoice == Spec => []EwayLinkExact
BY LinkHolds, LinkInvExact, PTL

-----------------------------------------------------------------------------
SaleKinds == {"Invoice", "CounterInvoice"}

(* Only an invoice is referred to. *)
PapersOnSales == \A d \in DocIds : papers[d] # {} => doc[d].kind \in SaleKinds

(* The offcut tables, their type, and what keeps an offcut from serving    *)
(* two lines: one that is not logged yet or still available names no sale, *)
(* and none names a sale whose id is not yet given out.                    *)
Unused(o) == o.status \in {"None", "Available"}
OffcutInv(table, next, sales) ==
  /\ table \in [OffcutIds -> Offcut]
  /\ \A o \in OffcutIds :
       /\ o >= next => table[o].status = "None"
       /\ Unused(table[o]) => table[o].consumer = NoRef
       /\ table[o].consumer < sales

ServedInv ==
  /\ rackStock \in [Products \X Racks -> Int]
  /\ nextOffcut \in 1..(MaxOffcuts + 1)
  /\ OffcutInv(offcut, nextOffcut, nextDoc)
  /\ PapersOnSales
  /\ EveryLineServed

-----------------------------------------------------------------------------
(* What a request that books no counter sale leaves of the sales: each     *)
(* keeps its rows and its header but for the status, or is deleted while   *)
(* nothing refers to it.                                                   *)
Kept(d) ==
  /\ movement'[d] = movement[d]
  /\ doc'[d].kind = doc[d].kind /\ doc'[d].lines = doc[d].lines
SalesStand ==
  /\ nextDoc' \in {nextDoc, nextDoc + 1}
  /\ \A d \in DocIds :
       /\ doc[d].kind \in SaleKinds => Kept(d) \/ papers[d] = {}
       /\ doc'[d].kind = "CounterInvoice" => doc[d].kind = "CounterInvoice"
       /\ papers'[d] # {} => doc'[d].kind \in SaleKinds

LEMMA SameSalesStand ==
  ASSUME IInv, PapersOnSales, UNCHANGED <<movement, doc, nextDoc, papers>>
  PROVE  SalesStand
BY DEF SalesStand, Kept, PapersOnSales

LEMMA PostedSalesStand ==
  ASSUME IInv, PapersOnSales, NEW rows, NEW h, CreateDoc(h, rows),
         h.kind # "CounterInvoice", UNCHANGED papers
  PROVE  SalesStand
<1>1. /\ nextDoc \in DocIds /\ doc[nextDoc].kind = "None" /\ nextDoc' = nextDoc + 1
      /\ doc' = [doc EXCEPT ![nextDoc] = h]
      /\ movement' = [movement EXCEPT ![nextDoc] = rows]
  BY DEF CreateDoc, IInv, NoDocsAhead, LedgerTypeOK, DocIds
<1>2. /\ doc'[nextDoc] = h
      /\ \A d \in DocIds : d # nextDoc => doc'[d] = doc[d] /\ movement'[d] = movement[d]
  BY <1>1 DEF IInv, LedgerTypeOK
<1>3. papers[nextDoc] = {}
  BY <1>1 DEF PapersOnSales, SaleKinds
<1> QED BY <1>1, <1>2, <1>3 DEF SalesStand, Kept, PapersOnSales, SaleKinds

(* A document that is no sale is changed or goes. *)
LEMMA OthersLeaveSales ==
  ASSUME IInv, PapersOnSales, NEW d \in DocIds, NEW h,
         doc[d].kind \notin SaleKinds, h.kind \notin SaleKinds,
         doc' = [doc EXCEPT ![d] = h],
         \A e \in DocIds : e # d => movement'[e] = movement[e],
         UNCHANGED <<nextDoc, papers>>
  PROVE  SalesStand
<1>1. doc'[d] = h /\ \A e \in DocIds : e # d => doc'[e] = doc[e]
  BY DEF IInv, LedgerTypeOK
<1> QED BY <1>1 DEF SalesStand, Kept, PapersOnSales, SaleKinds

LEMMA PurchaseLeavesSales ==
  ASSUME IInv, PapersOnSales, PurchaseNext
  PROVE  SalesStand
<1>0. /\ LedgerTypeOK /\ NoDoc.kind = "None" /\ "None" \notin SaleKinds
      /\ \A d \in DocIds : WithoutRows(d) = [movement EXCEPT ![d] = << >>]
  BY HeaderType DEF IInv, SaleKinds, WithoutRows
<1>1. ASSUME NEW g \in Godowns, NEW lines \in LineSeqs, GrnCreate(g, lines)
      PROVE  SalesStand
  BY <1>1, PostedSalesStand DEF GrnCreate, Document, purchaseFrame
<1>2. ASSUME NEW d \in DocIds, GrnDelete(d) \/ PurchaseInvoiceDelete(d)
      PROVE  SalesStand
  <2>1. /\ doc[d].kind \notin SaleKinds /\ doc' = [doc EXCEPT ![d] = NoDoc]
        /\ movement' = [movement EXCEPT ![d] = << >>] /\ UNCHANGED <<nextDoc, papers>>
    BY <1>0, <1>2 DEF GrnDelete, PurchaseInvoiceDelete, DeleteDoc, purchaseFrame, SaleKinds
  <2>2. \A e \in DocIds : e # d => movement'[e] = movement[e]
    BY <1>0, <2>1 DEF LedgerTypeOK
  <2> QED BY <1>0, <2>1, <2>2, OthersLeaveSales
<1>3. ASSUME NEW e \in EwayBills, EwayBillCreate(e) \/ EwayBillDelete(e)
      PROVE  SalesStand
  BY <1>3, SameSalesStand DEF EwayBillCreate, EwayBillDelete, ledgerVars, purchaseFrame
<1>4. ASSUME NEW g \in Godowns, NEW lines \in LineSeqs, NEW e \in EwayBills \cup {NoEway},
             NEW grn \in DocIds \cup {NoRef}, PurchaseInvoiceCreate(g, lines, e, grn)
      PROVE  SalesStand
  BY <1>4, PostedSalesStand DEF PurchaseInvoiceCreate, Document, purchaseFrame
<1>5. ASSUME NEW d \in DocIds, NEW e \in EwayBills \cup {NoEway},
             NEW lines \in LineSeqs \cup {<< >>}, PurchaseInvoiceUpdate(d, e, lines)
      PROVE  SalesStand
  <2> DEFINE h == [doc[d] EXCEPT !.eway = e]
  <2>1. doc[d] \in Header /\ doc[d].kind = "PurchaseInvoice"
    BY <1>0, <1>5 DEF PurchaseInvoiceUpdate, LedgerTypeOK
  <2>2. h.kind = "PurchaseInvoice"
    BY <2>1 DEF Header
  <2>3. doc' = [doc EXCEPT ![d] = h] /\ UNCHANGED <<nextDoc, papers>>
    BY <1>0, <1>5 DEF PurchaseInvoiceUpdate, SwitchEway, purchaseFrame, LedgerTypeOK
  <2>4. \A i \in DocIds : i # d => movement'[i] = movement[i]
    BY <1>0, <1>5 DEF PurchaseInvoiceUpdate, ReplaceLines, LedgerTypeOK
  <2> HIDE DEF h
  <2>5. doc[d].kind \notin SaleKinds /\ h.kind \notin SaleKinds
    BY <2>1, <2>2 DEF SaleKinds
  <2> QED BY <2>3, <2>4, <2>5, OthersLeaveSales
<1> QED BY <1>1, <1>2, <1>3, <1>4, <1>5 DEF PurchaseNext

LEMMA InventoryLeavesSales ==
  ASSUME IInv, PapersOnSales, InventoryNext
  PROVE  SalesStand
<1>0. /\ LedgerTypeOK /\ NoDoc.kind = "None" /\ "None" \notin SaleKinds
      /\ \A d \in DocIds : WithoutRows(d) = [movement EXCEPT ![d] = << >>]
  BY HeaderType DEF IInv, SaleKinds, WithoutRows
<1>1. ASSUME NEW g \in Godowns, NEW lines \in LineSeqs,
             StockOpeningCreate(g, lines) \/ AdjustmentCreate(g, lines)
      PROVE  SalesStand
  BY <1>1, PostedSalesStand DEF StockOpeningCreate, AdjustmentCreate, Document, inventoryFrame
<1>2. ASSUME NEW d \in DocIds, StockOpeningDelete(d) \/ AdjustmentDelete(d)
      PROVE  SalesStand
  <2>1. /\ doc[d].kind \notin SaleKinds /\ doc' = [doc EXCEPT ![d] = NoDoc]
        /\ movement' = [movement EXCEPT ![d] = << >>] /\ UNCHANGED <<nextDoc, papers>>
    BY <1>0, <1>2 DEF StockOpeningDelete, AdjustmentDelete, InventoryDocDelete, DeleteDoc,
                      inventoryFrame, SaleKinds
  <2>2. \A e \in DocIds : e # d => movement'[e] = movement[e]
    BY <1>0, <2>1 DEF LedgerTypeOK
  <2> QED BY <1>0, <2>1, <2>2, OthersLeaveSales
<1>3. ASSUME NEW from \in Godowns, NEW to \in Godowns, NEW lines \in LineSeqs,
             TransferCreate(from, to, lines)
      PROVE  SalesStand
  BY <1>3, PostedSalesStand DEF TransferCreate, Document, inventoryFrame
<1>4. ASSUME NEW p \in Products, NEW r1 \in Racks, NEW r2 \in Racks, NEW q \in Quantities,
             RackStockTransfer(p, r1, r2, q)
      PROVE  SalesStand
  <2>1. UNCHANGED papers
    BY <1>4 DEF RackStockTransfer, inventoryFrame
  <2>2. CASE UNCHANGED ledgerVars
    BY <2>1, <2>2, SameSalesStand DEF ledgerVars
  <2>3. CASE \E rows : CreateDoc(Document("RackTransfer", RackGodown[r1], 1, NoRef, NoEway), rows)
    BY <2>1, <2>3, PostedSalesStand DEF Document
  <2> QED BY <1>4, <2>2, <2>3 DEF RackStockTransfer
<1>5. ASSUME \/ \E p \in Products, r \in Racks, q \in Quantities : RackStockAdjust(p, r, q)
             \/ \E p \in Products, r \in Racks : RackStockDelete(p, r)
             \/ \E p \in Products, g \in Godowns, size \in Pieces : OffcutCreate(p, g, size)
             \/ \E o \in OffcutIds : OffcutUse(o) \/ OffcutDelete(o)
      PROVE  SalesStand
  BY <1>5, SameSalesStand DEF RackStockAdjust, RackStockDelete, OffcutCreate, OffcutUse,
                              OffcutDelete, ledgerVars, inventoryFrame
<1> QED BY <1>1, <1>2, <1>3, <1>4, <1>5 DEF InventoryNext

(* The sales handlers but the counter sale. *)
LEMMA InvoicesLeaveSales ==
  ASSUME IInv, PapersOnSales, SalesNext
  PROVE  SalesStand \/ \E lines \in CounterLineSeqs : CounterInvoiceCreate(lines)
<1>0. LedgerTypeOK /\ NoDoc.kind = "None" /\ CounterSalePaid
  BY HeaderType DEF IInv
<1>1. ASSUME NEW lines \in LineSeqs, InvoiceCreate(lines)
      PROVE  SalesStand
  BY <1>1, PostedSalesStand DEF InvoiceCreate, Document
<1>2. ASSUME NEW lines \in CuttingLineSeqs, CuttingEntryCreate(lines)
      PROVE  SalesStand
  BY <1>2, PostedSalesStand DEF CuttingEntryCreate, Document
<1>3. ASSUME NEW d \in DocIds, InvoiceCancel(d)
      PROVE  SalesStand
  <2> DEFINE h == [doc[d] EXCEPT !.status = "Cancelled"]
  <2>1. h.kind = doc[d].kind /\ h.lines = doc[d].lines
    BY <1>0 DEF LedgerTypeOK, Header
  <2>2. doc' = [doc EXCEPT ![d] = h] /\ UNCHANGED <<movement, nextDoc, papers>>
    BY <1>0, <1>3 DEF InvoiceCancel, LedgerTypeOK
  <2> HIDE DEF h
  <2>3. \A e \in DocIds : doc'[e].kind = doc[e].kind /\ doc'[e].lines = doc[e].lines
    BY <1>0, <2>1, <2>2 DEF LedgerTypeOK
  <2> QED BY <2>2, <2>3 DEF SalesStand, Kept, PapersOnSales
<1>4. ASSUME NEW d \in DocIds, InvoiceDelete(d)
      PROVE  SalesStand
  <2>1. /\ papers[d] = {} /\ UNCHANGED <<nextDoc, papers>>
        /\ doc' = [doc EXCEPT ![d] = NoDoc]
        /\ \A e \in DocIds : e # d => movement'[e] = movement[e]
    BY <1>0, <1>4 DEF InvoiceDelete, Unreferenced, WithoutRows, LedgerTypeOK
  <2>2. doc'[d] = NoDoc /\ \A e \in DocIds : e # d => doc'[e] = doc[e]
    BY <1>0, <2>1 DEF LedgerTypeOK
  <2> QED BY <1>0, <2>1, <2>2 DEF SalesStand, Kept, PapersOnSales
<1>5. ASSUME NEW d \in DocIds, NEW paper \in Papers, PaperCreate(d, paper)
      PROVE  SalesStand
  <2>1. /\ doc[d].kind \in SaleKinds /\ UNCHANGED <<movement, doc, nextDoc>>
        /\ papers' = [papers EXCEPT ![d] = @ \cup {paper}]
    BY <1>5 DEF PaperCreate, SalesInvoice, ledgerVars, SaleKinds
  <2>2. \A e \in DocIds : e # d => papers'[e] = papers[e]
    BY <1>0, <2>1 DEF CounterSalePaid
  <2> QED BY <2>1, <2>2 DEF SalesStand, Kept, PapersOnSales
<1>6. ASSUME NEW d \in DocIds, NEW paper \in Papers, PaperDelete(d, paper)
      PROVE  SalesStand
  <2>1. /\ UNCHANGED <<movement, doc, nextDoc>> /\ paper \in papers[d]
        /\ papers' = [papers EXCEPT ![d] = @ \ {paper}]
    BY <1>6 DEF PaperDelete, ledgerVars
  <2>2. \A e \in DocIds : e # d => papers'[e] = papers[e]
    BY <1>0, <2>1 DEF CounterSalePaid
  <2> QED BY <2>1, <2>2 DEF SalesStand, Kept, PapersOnSales
<1>7. ASSUME NEW d \in DocIds, CuttingEntryCancel(d)
      PROVE  SalesStand
  <2> DEFINE h == [doc[d] EXCEPT !.status = "Cancelled"]
  <2>1. doc[d].kind = "CuttingEntry" /\ h.kind = "CuttingEntry"
    BY <1>0, <1>7 DEF CuttingEntryCancel, LedgerTypeOK, Header
  <2>2. doc' = [doc EXCEPT ![d] = h] /\ UNCHANGED <<nextDoc, papers>>
    BY <1>0, <1>7 DEF CuttingEntryCancel, LedgerTypeOK
  <2>3. \A e \in DocIds : e # d => movement'[e] = movement[e]
    BY <1>0, <1>7 DEF CuttingEntryCancel, WithoutRows, LedgerTypeOK
  <2> HIDE DEF h
  <2>4. doc[d].kind \notin SaleKinds /\ h.kind \notin SaleKinds
    BY <2>1 DEF SaleKinds
  <2> QED BY <2>2, <2>3, <2>4, OthersLeaveSales
<1> QED BY <1>1, <1>2, <1>3, <1>4, <1>5, <1>6, <1>7 DEF SalesNext

-----------------------------------------------------------------------------
(* The offcuts that served sale d. *)
Consumers(table, d) == {o \in OffcutIds : table[o].consumer = d}

(* The best of the offcuts that fit is one of them: among the smallest     *)
(* there is an oldest.                                                     *)
LEMMA BestFitFits ==
  ASSUME NEW table \in [OffcutIds -> Offcut], NEW p, NEW size, Fitting(table, p, size) # {}
  PROVE  BestFit(table, p, size) \in Fitting(table, p, size)
<1> DEFINE F == Fitting(table, p, size)
           Sizes == {table[o].size : o \in F}
<1>1. /\ F \subseteq Nat /\ F \subseteq OffcutIds
      /\ \A o \in F : table[o].size \in Nat
  BY StockConstants DEF Fitting, OffcutIds, Offcut
<1>2. PICK m \in Sizes : \A k \in Sizes : m <= k
  <2>1. Sizes \in SUBSET Nat /\ Sizes # {}
    BY <1>1
  <2> HIDE DEF Sizes
  <2> QED BY <2>1, LeastNatural
<1> DEFINE Smallest == {o \in F : table[o].size = m}
<1>3. PICK o \in Smallest : \A other \in Smallest : o <= other
  <2>1. Smallest \in SUBSET Nat /\ Smallest # {}
    BY <1>1, <1>2
  <2> HIDE DEF Smallest
  <2> QED BY <2>1, LeastNatural
<1>4. \A other \in F : \/ table[o].size < table[other].size
                       \/ table[o].size = table[other].size /\ o <= other
  <2> SUFFICES ASSUME NEW other \in F, table[other].size # m
               PROVE  table[o].size < table[other].size
    BY <1>3
  <2>1. table[o].size = m /\ m <= table[other].size
    BY <1>2, <1>3
  <2>2. m \in Nat /\ table[other].size \in Nat
    BY <1>1, <1>2
  <2> QED BY <2>1, <2>2
<1>5. o \in F
  BY <1>3
<1> HIDE DEF F
<1> QED BY <1>4, <1>5, Zenon DEF BestFit, F

LEMMA ConsumedEntry ==
  ASSUME NEW table \in [OffcutIds -> Offcut], NEW o \in OffcutIds, NEW d \in DocIds
  PROVE  /\ Consumed(table, o, d) \in [OffcutIds -> Offcut]
         /\ Consumed(table, o, d)[o].status = "Used"
         /\ Consumed(table, o, d)[o].consumer = d
         /\ \A i \in OffcutIds : i # o => Consumed(table, o, d)[i] = table[i]
BY DEF Consumed, Offcut

(* Serving one line of sale d: from an offcut that had not been used, or   *)
(* not at all; a sheet cut for it may log a new offcut.                    *)
LineServed(s, t, d) ==
  /\ t.next \in {s.next, s.next + 1}
  /\ OffcutInv(t.table, t.next, d + 1)
  /\ \A e \in DocIds : e # d => Consumers(t.table, e) = Consumers(s.table, e)
  /\ \/ /\ t.reused = TRUE
        /\ \E o \in OffcutIds \ Consumers(s.table, d) :
             Consumers(t.table, d) = Consumers(s.table, d) \cup {o}
     \/ /\ t.reused = FALSE
        /\ Consumers(t.table, d) = Consumers(s.table, d)

LEMMA ServeLineStep ==
  ASSUME NEW s, s.next \in OffcutIds, NEW d \in DocIds, NEW line \in CounterLine,
         OffcutInv(s.table, s.next, d + 1)
  PROVE  LineServed(s, ServeLine(s, line, d), d)
<1>0. /\ s.table \in [OffcutIds -> Offcut] /\ s.next \in Nat /\ OffcutIds \subseteq Nat
      /\ d \in Nat /\ d > 0 /\ SheetSize \in Nat
      /\ \A e \in DocIds : e # NoRef
  BY StockConstants DEF OffcutInv, OffcutIds, DocIds, NoRef
<1> DEFINE t == ServeLine(s, line, d)
           reuse == line.piece > 0 /\ Fitting(s.table, line.product, line.piece) # {}
           o == BestFit(s.table, line.product, line.piece)
<1>1. CASE reuse
  <2>1. t = [table |-> Consumed(s.table, o, d), next |-> s.next, reused |-> TRUE]
    BY <1>1 DEF ServeLine
  <2>2. o \in OffcutIds /\ s.table[o].status = "Available"
    BY <1>0, <1>1, BestFitFits DEF Fitting
  <2> HIDE DEF o
  <2>3. /\ s.table[o].consumer = NoRef /\ ~ (o >= s.next)
        /\ s.table[o] \in Offcut
    BY <1>0, <2>2 DEF OffcutInv, Unused
  <2> HIDE DEF t
  <2>6. /\ t.table \in [OffcutIds -> Offcut]
        /\ t.table[o].status = "Used" /\ t.table[o].consumer = d
        /\ \A i \in OffcutIds : i # o => t.table[i] = s.table[i]
    <3>1. t.table = Consumed(s.table, o, d)
      BY <2>1
    <3>2. s.table \in [OffcutIds -> Offcut] /\ o \in OffcutIds
      BY <1>0, <2>2
    <3> QED BY <3>1, <3>2, ConsumedEntry
  <2>7. t.next = s.next /\ t.reused = TRUE
    BY <2>1
  <2>8. OffcutInv(t.table, t.next, d + 1)
    <3> SUFFICES ASSUME NEW i \in OffcutIds
                 PROVE  /\ i >= s.next => t.table[i].status = "None"
                        /\ Unused(t.table[i]) => t.table[i].consumer = NoRef
                        /\ t.table[i].consumer < d + 1
      BY <2>6, <2>7 DEF OffcutInv
    <3>1. CASE i = o
      BY <1>0, <2>3, <2>6, <3>1 DEF Unused
    <3>2. CASE i # o
      BY <1>0, <2>6, <3>2 DEF OffcutInv
    <3> QED BY <3>1, <3>2
  <2>9. \A e \in DocIds : e # d => Consumers(t.table, e) = Consumers(s.table, e)
    BY <1>0, <2>3, <2>6 DEF Consumers
  <2>10. /\ o \notin Consumers(s.table, d)
         /\ Consumers(t.table, d) = Consumers(s.table, d) \cup {o}
    BY <1>0, <2>2, <2>3, <2>6 DEF Consumers
  <2> QED BY <2>2, <2>7, <2>8, <2>9, <2>10 DEF t, LineServed
<1>2. CASE ~ reuse /\ LeavesOffcut(line)
  <2>1. t = [table |-> [s.table EXCEPT ![s.next] = Leftover(line)],
             next |-> s.next + 1, reused |-> FALSE]
    BY <1>2 DEF ServeLine
  <2> DEFINE new == Leftover(line)
  <2>2. line.product \in Products /\ line.piece \in Nat /\ SheetSize > line.piece
    <3>1. SheetSize > line.piece
      BY <1>2 DEF LeavesOffcut
    <3>2. line.product \in Products /\ line.piece \in Pieces \cup {0}
      BY DEF CounterLine
    <3>3. \A x \in Pieces \cup {0} : x \in Nat
      BY StockConstants
    <3> HIDE DEF t, new
    <3> QED BY <3>1, <3>2, <3>3
  <2>3. SheetSize - line.piece \in Nat
    BY <1>0, <2>2
  <2>4. new \in Offcut /\ new.status = "Available" /\ new.consumer = NoRef
    BY <2>2, <2>3, StockConstants DEF Leftover, Offcut
  <2> HIDE DEF new, t
  <2>5. /\ t.table \in [OffcutIds -> Offcut] /\ t.table[s.next] = new
        /\ \A i \in OffcutIds : i # s.next => t.table[i] = s.table[i]
    BY <1>0, <2>1, <2>4 DEF new
  <2>6. t.next = s.next + 1 /\ t.reused = FALSE
    BY <2>1
  <2>7. s.table[s.next].consumer = NoRef
    BY <1>0 DEF OffcutInv, Unused
  <2>8. OffcutInv(t.table, t.next, d + 1)
    <3> SUFFICES ASSUME NEW i \in OffcutIds
                 PROVE  /\ i >= s.next + 1 => t.table[i].status = "None"
                        /\ Unused(t.table[i]) => t.table[i].consumer = NoRef
                        /\ t.table[i].consumer < d + 1
      BY <2>5, <2>6 DEF OffcutInv
    <3>1. CASE i = s.next
      BY <1>0, <2>4, <2>5, <3>1 DEF NoRef
    <3>2. CASE i # s.next
      BY <1>0, <2>5, <3>2 DEF OffcutInv
    <3> QED BY <3>1, <3>2
  <2>9. \A e \in DocIds : Consumers(t.table, e) = Consumers(s.table, e)
    BY <1>0, <2>4, <2>5, <2>7 DEF Consumers
  <2> QED BY <2>6, <2>8, <2>9 DEF t, LineServed
<1>3. CASE ~ reuse /\ ~ LeavesOffcut(line)
  <2>1. t = [table |-> s.table, next |-> s.next, reused |-> FALSE]
    BY <1>3 DEF ServeLine
  <2>2. t.table = s.table /\ t.next = s.next /\ t.reused = FALSE
    BY <2>1
  <2>3. OffcutInv(t.table, t.next, d + 1)
    BY <2>2
  <2> HIDE DEF t
  <2> QED BY <2>2, <2>3 DEF t, LineServed
<1> QED BY <1>1, <1>2, <1>3

-----------------------------------------------------------------------------
(* The tables after each line of a counter sale exist, and each is the     *)
(* next line served from the one before.                                   *)
FirstServed == [table |-> offcut, next |-> nextOffcut, reused |-> FALSE]
ServedUpto(lines, d, n) ==
  \E s : s = [i \in 0..n |-> IF i = 0 THEN FirstServed ELSE ServeLine(s[i - 1], lines[i], d)]

LEMMA ServedExist ==
  ASSUME NEW lines, NEW d, NEW n \in Nat
  PROVE  ServedUpto(lines, d, n)
<1> DEFINE S == {k \in 0..n : ServedUpto(lines, d, k)}
<1>1. 0 \in S
  <2> DEFINE s == [i \in 0..0 |-> FirstServed]
  <2>1. s = [i \in 0..0 |-> IF i = 0 THEN FirstServed ELSE ServeLine(s[i - 1], lines[i], d)]
    OBVIOUS
  <2>2. ServedUpto(lines, d, 0)
    BY <2>1 DEF ServedUpto
  <2> QED BY <2>2
<1>2. ASSUME NEW k \in 1..n, k - 1 \in S PROVE k \in S
  <2>1. PICK s : s = [i \in 0..(k - 1) |-> IF i = 0 THEN FirstServed
                                           ELSE ServeLine(s[i - 1], lines[i], d)]
    BY <1>2 DEF ServedUpto
  <2> DEFINE t == [i \in 0..k |-> IF i = k THEN ServeLine(s[k - 1], lines[k], d) ELSE s[i]]
  <2>2. ASSUME NEW i \in 0..k
        PROVE  t[i] = IF i = 0 THEN FirstServed ELSE ServeLine(t[i - 1], lines[i], d)
    <3>1. CASE i = k
      <4>1. t[k - 1] = s[k - 1] /\ k # 0
        OBVIOUS
      <4> QED BY <3>1, <4>1
    <3>2. CASE i # k /\ i = 0
      BY <3>2, <2>1
    <3>3. CASE i # k /\ i # 0
      <4>1. i \in 0..(k - 1) /\ i - 1 \in 0..(k - 1) /\ i - 1 # k
        BY <3>3
      <4>2. t[i] = s[i] /\ t[i - 1] = s[i - 1]
        BY <4>1, <3>3
      <4>3. s[i] = ServeLine(s[i - 1], lines[i], d)
        BY <4>1, <3>3, <2>1
      <4> QED BY <4>2, <4>3, <3>3
    <3> QED BY <3>1, <3>2, <3>3
  <2>3. t = [i \in 0..k |-> IF i = 0 THEN FirstServed ELSE ServeLine(t[i - 1], lines[i], d)]
    BY <2>2
  <2>4. ServedUpto(lines, d, k)
    BY <2>3 DEF ServedUpto
  <2> QED BY <2>4
<1> HIDE DEF S
<1>3. \A i \in 0..n : i \in S
  BY <1>1, <1>2, SetInduction
<1>4. n \in S
  BY <1>3
<1> QED BY <1>4 DEF S

LEMMA ServedStep ==
  ASSUME NEW lines, NEW d, Len(lines) \in Nat
  PROVE  /\ Served(lines, d)[0] = FirstServed
         /\ \A i \in 1..Len(lines) :
              Served(lines, d)[i] = ServeLine(Served(lines, d)[i - 1], lines[i], d)
<1> DEFINE n == Len(lines)
           s == Served(lines, d)
<1>1. s = [i \in 0..n |-> IF i = 0 THEN FirstServed ELSE ServeLine(s[i - 1], lines[i], d)]
  <2>1. ServedUpto(lines, d, n)
    BY ServedExist
  <2> QED BY <2>1, Zenon DEF ServedUpto, Served, FirstServed
<1> HIDE DEF s
<1>2. s[0] = FirstServed
  BY <1>1
<1>3. ASSUME NEW i \in 1..n PROVE s[i] = ServeLine(s[i - 1], lines[i], d)
  BY <1>1
<1> QED BY <1>2, <1>3 DEF s

-----------------------------------------------------------------------------
(* Serving a counter sale line by line: after line i the offcut tables are *)
(* sound, no other sale has gained or lost an offcut, and each of the i    *)
(* lines took a fresh sheet or an offcut of its own.                       *)
Fresh(s, i) == {j \in 1..i : ~ s[j].reused}
Progress(s, d, i) ==
  /\ s[i].next \in nextOffcut..(nextOffcut + i)
  /\ OffcutInv(s[i].table, s[i].next, d + 1)
  /\ \A e \in DocIds : e # d => Consumers(s[i].table, e) = Consumers(offcut, e)
  /\ Cardinality(Fresh(s, i)) + Cardinality(Consumers(s[i].table, d)) = i

LEMMA CounterLinesType ==
  ASSUME NEW lines \in CounterLineSeqs
  PROVE  /\ Len(lines) \in Nat
         /\ \A i \in 1..Len(lines) : /\ lines[i] \in CounterLine
                                     /\ lines[i].product \in Products
                                     /\ lines[i].qty \in Int
<1> PICK n \in 1..MaxLines : lines \in [1..n -> CounterLine]
  BY DEF CounterLineSeqs
<1>1. n \in Nat /\ Len(lines) = n
  BY StockConstants
<1>2. \A i \in 1..n : lines[i] \in CounterLine
  OBVIOUS
<1>3. \A i \in 1..n : lines[i].product \in Products /\ lines[i].qty \in Int
  BY <1>2, StockConstants DEF CounterLine
<1> QED BY <1>1, <1>2, <1>3

LEMMA ConsumersFinite ==
  ASSUME NEW table, NEW d
  PROVE  IsFiniteSet(Consumers(table, d)) /\ Cardinality(Consumers(table, d)) \in Nat
<1>1. IsFiniteSet(OffcutIds)
  BY StockConstants, FS_Interval DEF OffcutIds
<1>2. Consumers(table, d) \in SUBSET OffcutIds
  BY DEF Consumers
<1>3. IsFiniteSet(Consumers(table, d))
  BY <1>1, <1>2, FS_Subset
<1> QED BY <1>3, FS_CardinalityType

LEMMA FreshFinite ==
  ASSUME NEW s, NEW n \in Nat
  PROVE  IsFiniteSet(Fresh(s, n)) /\ Cardinality(Fresh(s, n)) \in Nat
<1>1. IsFiniteSet(1..n)
  BY FS_Interval
<1>2. Fresh(s, n) \in SUBSET (1..n)
  BY DEF Fresh
<1>3. IsFiniteSet(Fresh(s, n))
  BY <1>1, <1>2, FS_Subset
<1> QED BY <1>3, FS_CardinalityType

LEMMA ProgressStep ==
  ASSUME nextOffcut \in Nat \ {0}, NEW s, NEW d \in DocIds, NEW i \in Nat \ {0},
         NEW line \in CounterLine, nextOffcut + i \in 1..(MaxOffcuts + 1),
         Progress(s, d, i - 1), s[i] = ServeLine(s[i - 1], line, d)
  PROVE  Progress(s, d, i)
<1> DEFINE t == s[i]
           r == s[i - 1]
<1>1. r.next \in OffcutIds /\ r.next \in Nat /\ i - 1 \in Nat
  BY StockConstants DEF Progress, OffcutIds
<1>2. OffcutInv(r.table, r.next, d + 1)
  BY DEF Progress
<1>3. /\ r.next \in nextOffcut..(nextOffcut + (i - 1))
      /\ \A e \in DocIds : e # d => Consumers(r.table, e) = Consumers(offcut, e)
      /\ Cardinality(Fresh(s, i - 1)) + Cardinality(Consumers(r.table, d)) = i - 1
  BY DEF Progress
<1>4. t = ServeLine(r, line, d)
  OBVIOUS
<1> HIDE DEF t, r
<1>5. LineServed(r, t, d)
  BY <1>1, <1>2, <1>4, ServeLineStep
<1>6. /\ t.next \in {r.next, r.next + 1}
      /\ OffcutInv(t.table, t.next, d + 1)
      /\ \A e \in DocIds : e # d => Consumers(t.table, e) = Consumers(r.table, e)
      /\ \/ /\ t.reused = TRUE
            /\ \E o \in OffcutIds \ Consumers(r.table, d) :
                 Consumers(t.table, d) = Consumers(r.table, d) \cup {o}
         \/ /\ t.reused = FALSE
            /\ Consumers(t.table, d) = Consumers(r.table, d)
  BY <1>5 DEF LineServed
<1>7. t.next \in nextOffcut..(nextOffcut + i)
  BY <1>1, <1>6, <1>3
<1>8. \A e \in DocIds : e # d => Consumers(t.table, e) = Consumers(offcut, e)
  BY <1>6, <1>3
<1>9. Cardinality(Fresh(s, i)) + Cardinality(Consumers(t.table, d)) = i
  <2>1. /\ IsFiniteSet(Fresh(s, i - 1)) /\ Cardinality(Fresh(s, i - 1)) \in Nat
        /\ IsFiniteSet(Consumers(r.table, d)) /\ Cardinality(Consumers(r.table, d)) \in Nat
    BY <1>1, FreshFinite, ConsumersFinite
  <2>2. i \notin Fresh(s, i - 1)
    BY DEF Fresh
  <2>3. CASE t.reused = TRUE
    <3>1. Fresh(s, i) = Fresh(s, i - 1)
      BY <2>3 DEF Fresh, t
    <3>2. PICK o \in OffcutIds \ Consumers(r.table, d) :
            Consumers(t.table, d) = Consumers(r.table, d) \cup {o}
      BY <1>6, <2>3
    <3>3. Cardinality(Consumers(t.table, d)) = Cardinality(Consumers(r.table, d)) + 1
      BY <2>1, <3>2, FS_AddElement
    <3> QED BY <1>3, <2>1, <3>1, <3>3
  <2>4. CASE t.reused = FALSE
    <3>1. Fresh(s, i) = Fresh(s, i - 1) \cup {i}
      BY <2>4 DEF Fresh, t
    <3>2. Consumers(t.table, d) = Consumers(r.table, d)
      BY <1>6, <2>4
    <3>3. Cardinality(Fresh(s, i)) = Cardinality(Fresh(s, i - 1)) + 1
      BY <2>1, <2>2, <3>1, FS_AddElement
    <3> QED BY <1>3, <2>1, <3>2, <3>3
  <2> QED BY <1>6, <2>3, <2>4
<1> QED BY <1>6, <1>7, <1>8, <1>9 DEF Progress, t

LEMMA SaleProgress ==
  ASSUME IInv, ServedInv, nextDoc \in DocIds, NEW lines \in CounterLineSeqs,
         nextOffcut + Len(lines) \in 1..(MaxOffcuts + 1)
  PROVE  Progress(Served(lines, nextDoc), nextDoc, Len(lines))
<1> DEFINE n == Len(lines)
           s == Served(lines, nextDoc)
           S == {i \in 0..n : Progress(s, nextDoc, i)}
<1>0. /\ n \in Nat /\ \A i \in 1..n : lines[i] \in CounterLine
      /\ nextOffcut \in Nat \ {0} /\ nextDoc \in Nat
  BY CounterLinesType, StockConstants DEF ServedInv, DocIds
<1>1. s[0] = FirstServed /\ \A i \in 1..n : s[i] = ServeLine(s[i - 1], lines[i], nextDoc)
  BY <1>0, ServedStep
<1> HIDE DEF s
<1>2. 0 \in S
  <2>1. s[0].table = offcut /\ s[0].next = nextOffcut
    BY <1>1 DEF FirstServed
  <2>2. /\ offcut \in [OffcutIds -> Offcut]
        /\ \A o \in OffcutIds :
             /\ o >= nextOffcut => offcut[o].status = "None"
             /\ Unused(offcut[o]) => offcut[o].consumer = NoRef
             /\ offcut[o].consumer < nextDoc /\ offcut[o].consumer \in Nat
    BY StockConstants DEF ServedInv, OffcutInv, Offcut, DocIds, NoRef
  <2>3. OffcutInv(offcut, nextOffcut, nextDoc + 1)
    BY <1>0, <2>2 DEF OffcutInv
  <2>4. Consumers(offcut, nextDoc) = {} /\ Fresh(s, 0) = {}
    BY <1>0, <2>2 DEF Consumers, Fresh
  <2>5. Progress(s, nextDoc, 0)
    <3>1. Cardinality(Fresh(s, 0)) + Cardinality(Consumers(s[0].table, nextDoc)) = 0
      <4>1. Cardinality({}) = 0
        BY FS_EmptySet
      <4>2. Consumers(s[0].table, nextDoc) = {}
        BY <2>1, <2>4
      <4>3. Cardinality(Fresh(s, 0)) = 0 /\ Cardinality(Consumers(s[0].table, nextDoc)) = 0
        BY <2>4, <4>1, <4>2
      <4> QED BY <4>3
    <3>2. s[0].next \in nextOffcut..(nextOffcut + 0)
      BY <1>0, <2>1
    <3> QED BY <2>1, <2>3, <3>1, <3>2 DEF Progress
  <2> QED BY <1>0, <2>5
<1>3. ASSUME NEW i \in 1..n, i - 1 \in S
      PROVE  i \in S
  <2>1. i \in Nat \ {0} /\ nextOffcut + i \in 1..(MaxOffcuts + 1)
    BY <1>0, StockConstants
  <2>2. Progress(s, nextDoc, i - 1) /\ s[i] = ServeLine(s[i - 1], lines[i], nextDoc)
    BY <1>1, <1>3
  <2>3. Progress(s, nextDoc, i)
    BY <1>0, <2>1, <2>2, ProgressStep
  <2> QED BY <1>0, <2>3
<1> HIDE DEF S
<1>4. \A i \in 0..n : i \in S
  BY <1>0, <1>2, <1>3, SetInduction
<1> QED BY <1>0, <1>4 DEF S, s

-----------------------------------------------------------------------------
(* The lines of a sale that posted a row. *)
Posting(rows) == {i \in 1..Len(rows) : rows[i].qty # 0}

LEMMA ServedCount ==
  EveryLineServed <=>
    \A d \in DocIds : doc[d].kind = "CounterInvoice" =>
      Cardinality(Posting(movement[d])) + Cardinality(Consumers(offcut, d)) = doc[d].lines
BY DEF EveryLineServed, Posting, Consumers

(* A counter sale serves each of its lines once. *)
LEMMA CounterSaleServed ==
  ASSUME IInv, ServedInv, NEW lines \in CounterLineSeqs, CounterInvoiceCreate(lines)
  PROVE  ServedInv'
<1> DEFINE n == Len(lines)
           s == Served(lines, nextDoc)
           rows == CounterRows(lines, s)
           h == Document("CounterInvoice", MainGodown, n, NoRef, NoEway)
<1>0. /\ n \in Nat /\ \A i \in 1..n : lines[i] \in CounterLine /\ lines[i].qty \in Int
      /\ nextDoc \in Nat /\ h.kind = "CounterInvoice" /\ h.lines = n
  BY CounterLinesType, StockConstants DEF IInv, LedgerTypeOK, Document
<1>1. /\ nextDoc \in DocIds /\ nextDoc' = nextDoc + 1
      /\ doc' = [doc EXCEPT ![nextDoc] = h]
      /\ movement' = [movement EXCEPT ![nextDoc] = rows]
      /\ papers' = [papers EXCEPT ![nextDoc] = {"Payment"}]
      /\ offcut' = s[n].table /\ nextOffcut' = s[n].next
      /\ UNCHANGED rackStock
      /\ Positive(lines) /\ nextOffcut + n \in 1..(MaxOffcuts + 1)
  BY DEF CounterInvoiceCreate, CreateDoc
<1>2. Progress(s, nextDoc, n)
  BY <1>1, SaleProgress
<1>3. Posting(rows) = Fresh(s, n)
  <2>1. rows \in [1..n -> [cell : {<<lines[i].product, MainGodown>> : i \in 1..n}, qty : Int]]
    BY <1>0 DEF CounterRows
  <2>2. Len(rows) = n
    BY <1>0, <2>1
  <2>3. \A i \in 1..n : rows[i].qty = IF s[i].reused THEN 0 ELSE 0 - lines[i].qty
    BY DEF CounterRows
  <2>4. \A i \in 1..n : lines[i].qty > 0
    BY <1>1 DEF Positive
  <2> HIDE DEF s, rows, n
  <2> QED BY <1>0, <2>2, <2>3, <2>4 DEF Posting, Fresh
<1> HIDE DEF s, rows, h
<1>4. /\ doc'[nextDoc] = h /\ movement'[nextDoc] = rows /\ papers'[nextDoc] = {"Payment"}
      /\ \A d \in DocIds : d # nextDoc => /\ doc'[d] = doc[d] /\ movement'[d] = movement[d]
                                          /\ papers'[d] = papers[d]
  BY <1>1 DEF IInv, LedgerTypeOK, CounterSalePaid
<1>5. EveryLineServed'
  <2>1. ASSUME NEW d \in DocIds, doc'[d].kind = "CounterInvoice"
        PROVE  Cardinality(Posting(movement'[d])) + Cardinality(Consumers(offcut', d))
                 = doc'[d].lines
    <3>1. CASE d = nextDoc
      BY <1>0, <1>1, <1>2, <1>3, <1>4, <3>1 DEF Progress
    <3>2. CASE d # nextDoc
      <4>1. Cardinality(Posting(movement[d])) + Cardinality(Consumers(offcut, d)) = doc[d].lines
        BY <1>4, <2>1, <3>2, ServedCount DEF ServedInv
      <4>2. Consumers(offcut', d) = Consumers(offcut, d)
        BY <1>1, <1>2, <3>2 DEF Progress
      <4> QED BY <1>4, <3>2, <4>1, <4>2
    <3> QED BY <3>1, <3>2
  <2> QED BY <2>1 DEF EveryLineServed, Posting, Consumers
<1>6. /\ nextOffcut' \in 1..(MaxOffcuts + 1)
      /\ OffcutInv(offcut', nextOffcut', nextDoc')
  BY <1>0, <1>1, <1>2, StockConstants DEF Progress, ServedInv
<1>7. PapersOnSales'
  BY <1>0, <1>4 DEF ServedInv, PapersOnSales, SaleKinds
<1> QED BY <1>1, <1>5, <1>6, <1>7 DEF ServedInv, OffcutInv

-----------------------------------------------------------------------------
(* What the other requests do to the racks and the offcuts. *)
OffcutsStand ==
  /\ rackStock' \in [Products \X Racks -> Int]
  /\ nextOffcut' \in 1..(MaxOffcuts + 1)
  /\ OffcutInv(offcut', nextOffcut', nextDoc)
  /\ \A o \in OffcutIds : offcut'[o].consumer = offcut[o].consumer

LEMMA OthersKeepServed ==
  ASSUME IInv, ServedInv, SalesStand, OffcutsStand
  PROVE  ServedInv'
<1>1. OffcutInv(offcut', nextOffcut', nextDoc')
  <2>1. nextDoc \in Nat /\ nextDoc' \in {nextDoc, nextDoc + 1}
    BY StockConstants DEF IInv, LedgerTypeOK, SalesStand
  <2>2. \A o \in OffcutIds : offcut'[o].consumer \in Nat
    BY StockConstants DEF OffcutsStand, OffcutInv, Offcut, DocIds, NoRef
  <2>3. \A o \in OffcutIds : offcut'[o].consumer < nextDoc'
    BY <2>1, <2>2 DEF OffcutsStand, OffcutInv
  <2> QED BY <2>3 DEF OffcutsStand, OffcutInv
<1>2. PapersOnSales'
  BY DEF SalesStand, PapersOnSales
<1>3. EveryLineServed'
  <2>1. ASSUME NEW d \in DocIds, doc'[d].kind = "CounterInvoice"
        PROVE  Cardinality(Posting(movement'[d])) + Cardinality(Consumers(offcut', d))
                 = doc'[d].lines
    <3>1. doc[d].kind = "CounterInvoice" /\ papers[d] # {}
      BY <2>1 DEF SalesStand, IInv, CounterSalePaid
    <3>2. Kept(d)
      BY <3>1 DEF SalesStand, SaleKinds
    <3>3. Consumers(offcut', d) = Consumers(offcut, d)
      BY DEF OffcutsStand, Consumers
    <3>4. Cardinality(Posting(movement[d])) + Cardinality(Consumers(offcut, d)) = doc[d].lines
      BY <3>1, ServedCount DEF ServedInv
    <3> QED BY <3>2, <3>3, <3>4 DEF Kept
  <2> QED BY <2>1 DEF EveryLineServed, Posting, Consumers
<1> QED BY <1>1, <1>2, <1>3 DEF OffcutsStand, ServedInv, OffcutInv

LEMMA SameOffcutsStand ==
  ASSUME ServedInv, UNCHANGED offcutVars, rackStock' \in [Products \X Racks -> Int]
  PROVE  OffcutsStand
BY DEF ServedInv, OffcutsStand, OffcutInv, offcutVars

(* An offcut no sale has taken is logged, used or deleted by hand. *)
LEMMA OffcutChanges ==
  ASSUME IInv, ServedInv, NEW o \in OffcutIds, NEW new \in Offcut,
         Unused(offcut[o]), new.consumer = NoRef,
         offcut' = [offcut EXCEPT ![o] = new],
         \/ o < nextOffcut /\ nextOffcut' = nextOffcut
         \/ o = nextOffcut /\ nextOffcut' = nextOffcut + 1,
         UNCHANGED rackStock
  PROVE  OffcutsStand
<1>1. /\ offcut \in [OffcutIds -> Offcut] /\ offcut[o].consumer = NoRef
      /\ OffcutIds = 1..MaxOffcuts /\ MaxOffcuts \in Nat
      /\ nextOffcut \in Nat /\ nextDoc \in Nat /\ nextDoc > 0
  BY StockConstants DEF ServedInv, OffcutInv, OffcutIds, IInv, LedgerTypeOK
<1>2. /\ offcut' \in [OffcutIds -> Offcut] /\ offcut'[o] = new
      /\ \A i \in OffcutIds : i # o => offcut'[i] = offcut[i]
  BY <1>1
<1>3. ASSUME NEW i \in OffcutIds
      PROVE  /\ i >= nextOffcut' => offcut'[i].status = "None"
             /\ Unused(offcut'[i]) => offcut'[i].consumer = NoRef
             /\ offcut'[i].consumer < nextDoc
             /\ offcut'[i].consumer = offcut[i].consumer
  <2>1. CASE i = o
    BY <1>1, <1>2, <2>1 DEF NoRef
  <2>2. CASE i # o
    <3>1. i >= nextOffcut' => i >= nextOffcut
      BY <1>1
    <3> QED BY <1>2, <2>2, <3>1 DEF ServedInv, OffcutInv
  <2> QED BY <2>1, <2>2
<1>4. nextOffcut' \in 1..(MaxOffcuts + 1)
  BY <1>1 DEF ServedInv
<1> QED BY <1>2, <1>3, <1>4 DEF OffcutsStand, OffcutInv, ServedInv

LEMMA InventoryOffcuts ==
  ASSUME IInv, ServedInv, InventoryNext
  PROVE  OffcutsStand
<1>0. /\ rackStock \in [Products \X Racks -> Int] /\ offcut \in [OffcutIds -> Offcut]
      /\ \A o \in OffcutIds : Unused(offcut[o]) => offcut[o].consumer = NoRef
      /\ nextOffcut \in Nat /\ OffcutIds \subseteq Nat
  BY StockConstants DEF ServedInv, OffcutInv, OffcutIds
<1>1. CASE \/ \E g \in Godowns, lines \in LineSeqs : StockOpeningCreate(g, lines)
           \/ \E d \in DocIds : StockOpeningDelete(d)
           \/ \E g \in Godowns, lines \in LineSeqs : AdjustmentCreate(g, lines)
           \/ \E d \in DocIds : AdjustmentDelete(d)
           \/ \E from, to \in Godowns, lines \in LineSeqs : TransferCreate(from, to, lines)
  BY <1>0, <1>1, SameOffcutsStand
     DEF StockOpeningCreate, StockOpeningDelete, AdjustmentCreate, AdjustmentDelete,
         InventoryDocDelete, TransferCreate
<1>2. ASSUME NEW p \in Products, NEW r \in Racks, NEW q \in Quantities,
             RackStockAdjust(p, r, q) \/ RackStockDelete(p, r)
      PROVE  OffcutsStand
  <2>1. q \in Int /\ <<p, r>> \in Products \X Racks
    BY StockConstants
  <2>2. \E n \in Int : rackStock' = [rackStock EXCEPT ![<<p, r>>] = n]
    BY <1>2, <2>1 DEF RackStockAdjust, RackStockDelete
  <2>3. rackStock' \in [Products \X Racks -> Int]
    BY <1>0, <2>2
  <2> QED BY <1>2, <2>3, SameOffcutsStand DEF RackStockAdjust, RackStockDelete
<1>3. ASSUME NEW p \in Products, NEW r1 \in Racks, NEW r2 \in Racks, NEW q \in Quantities,
             RackStockTransfer(p, r1, r2, q)
      PROVE  OffcutsStand
  <2>1. rackStock' \in [Products \X Racks -> Int] /\ UNCHANGED offcutVars
    <3>1. /\ q \in Int /\ <<p, r1>> \in Products \X Racks /\ <<p, r2>> \in Products \X Racks
          /\ <<p, r1>> # <<p, r2>>
      BY <1>3, StockConstants DEF RackStockTransfer
    <3>2. /\ rackStock' = [rackStock EXCEPT ![<<p, r1>>] = @ - q, ![<<p, r2>>] = @ + q]
          /\ UNCHANGED offcutVars
      BY <1>3 DEF RackStockTransfer
    <3> QED BY <1>0, <3>1, <3>2
  <2> QED BY <2>1, SameOffcutsStand
<1>4. ASSUME NEW p \in Products, NEW g \in Godowns, NEW size \in Pieces,
             OffcutCreate(p, g, size)
      PROVE  OffcutsStand
  <2> DEFINE new == [product |-> p, godown |-> g, size |-> size,
                     status |-> "Available", consumer |-> NoRef]
  <2>1. /\ nextOffcut \in OffcutIds /\ nextOffcut' = nextOffcut + 1
        /\ offcut' = [offcut EXCEPT ![nextOffcut] = new] /\ UNCHANGED rackStock
    BY <1>4 DEF OffcutCreate
  <2>2. new \in Offcut /\ new.consumer = NoRef
    BY StockConstants DEF Offcut
  <2>3. Unused(offcut[nextOffcut])
    BY <1>0, <2>1 DEF ServedInv, OffcutInv, Unused
  <2> HIDE DEF new
  <2> QED BY <2>1, <2>2, <2>3, OffcutChanges
<1>5. ASSUME NEW o \in OffcutIds, NEW st \in {"Used", "Deleted"},
             offcut[o].status = "Available",
             offcut' = [offcut EXCEPT ![o].status = st],
             UNCHANGED <<rackStock, nextOffcut>>
      PROVE  OffcutsStand
  <2> DEFINE new == [offcut[o] EXCEPT !.status = st]
  <2>1. Unused(offcut[o]) /\ offcut[o].consumer = NoRef
    BY <1>0, <1>5 DEF Unused
  <2>2. new \in Offcut /\ new.consumer = NoRef
    <3>1. offcut[o] \in Offcut
      BY <1>0
    <3> QED BY <2>1, <3>1 DEF Offcut
  <2>3. o < nextOffcut
    BY <1>0, <1>5 DEF ServedInv, OffcutInv
  <2>4. offcut' = [offcut EXCEPT ![o] = new] /\ nextOffcut' = nextOffcut /\ UNCHANGED rackStock
    BY <1>0, <1>5
  <2> HIDE DEF new
  <2> QED BY <2>1, <2>2, <2>3, <2>4, OffcutChanges
<1>6. ASSUME NEW o \in OffcutIds, OffcutUse(o) \/ OffcutDelete(o)
      PROVE  OffcutsStand
  BY <1>5, <1>6 DEF OffcutUse, OffcutDelete
<1>7. CASE \/ \E p \in Products, r \in Racks, q \in Quantities : RackStockAdjust(p, r, q)
           \/ \E p \in Products, r \in Racks : RackStockDelete(p, r)
  <2>1. CASE \E p \in Products, r \in Racks, q \in Quantities : RackStockAdjust(p, r, q)
    BY <1>2, <2>1
  <2>2. ASSUME NEW p \in Products, NEW r \in Racks, RackStockDelete(p, r)
        PROVE  OffcutsStand
    <3>1. rackStock' \in [Products \X Racks -> Int]
      BY <1>0, <2>2 DEF RackStockDelete
    <3> QED BY <2>2, <3>1, SameOffcutsStand DEF RackStockDelete
  <2> QED BY <1>7, <2>1, <2>2
<1>8. CASE \E p \in Products, r1, r2 \in Racks, q \in Quantities : RackStockTransfer(p, r1, r2, q)
  BY <1>3, <1>8
<1> QED BY <1>1, <1>4, <1>6, <1>7, <1>8 DEF InventoryNext

LEMMA OffRacksType ==
  ASSUME rackStock \in [Products \X Racks -> Int], NEW lines \in CuttingLineSeqs
  PROVE  OffRacks(lines) \in [Products \X Racks -> Int]
<1> PICK n \in 1..MaxLines : lines \in [1..n -> CuttingLine]
  BY DEF CuttingLineSeqs
<1>1. n \in Nat /\ Len(lines) = n
  BY StockConstants
<1>2. \A i \in 1..n : lines[i] \in CuttingLine
  OBVIOUS
<1>3. \A i \in 1..n : lines[i].qty \in Int
  BY <1>2, StockConstants DEF CuttingLine
<1>4. ASSUME NEW c \in Products \X Racks
      PROVE  SumTo([i \in 1..Len(lines) |->
                      IF <<lines[i].product, lines[i].rack>> = c THEN lines[i].qty ELSE 0],
                   Len(lines)) \in Int
  <2> DEFINE f == [i \in 1..Len(lines) |->
                     IF <<lines[i].product, lines[i].rack>> = c THEN lines[i].qty ELSE 0]
  <2>1. \A i \in 1..Len(lines) : f[i] \in Int
    BY <1>1, <1>3
  <2> HIDE DEF f
  <2>2. SumTo(f, Len(lines)) \in Int
    BY <1>1, <2>1, SumType
  <2> QED BY <2>2 DEF f
<1> QED BY <1>4 DEF OffRacks

LEMMA SalesOffcuts ==
  ASSUME IInv, ServedInv, SalesNext
  PROVE  OffcutsStand \/ \E lines \in CounterLineSeqs : CounterInvoiceCreate(lines)
<1>0. rackStock \in [Products \X Racks -> Int]
  BY DEF ServedInv
<1>1. ASSUME NEW lines \in CuttingLineSeqs, CuttingEntryCreate(lines)
      PROVE  OffcutsStand
  <2>1. rackStock' \in [Products \X Racks -> Int] /\ UNCHANGED offcutVars
    BY <1>0, <1>1, OffRacksType DEF CuttingEntryCreate
  <2> QED BY <2>1, SameOffcutsStand
<1>2. CASE \/ \E lines \in LineSeqs : InvoiceCreate(lines)
           \/ \E d \in DocIds : InvoiceCancel(d)
           \/ \E d \in DocIds : InvoiceDelete(d)
           \/ \E d \in DocIds, paper \in Papers : PaperCreate(d, paper)
           \/ \E d \in DocIds, paper \in Papers : PaperDelete(d, paper)
           \/ \E d \in DocIds : CuttingEntryCancel(d)
  BY <1>0, <1>2, SameOffcutsStand
     DEF InvoiceCreate, InvoiceCancel, InvoiceDelete, PaperCreate, PaperDelete,
         CuttingEntryCancel
<1> QED BY <1>1, <1>2 DEF SalesNext

LEMMA StepKeepsServed == IInv /\ ServedInv /\ [Next]_vars => ServedInv'
<1> SUFFICES ASSUME IInv, ServedInv, [Next]_vars PROVE ServedInv'
  OBVIOUS
<1>0. PapersOnSales /\ rackStock \in [Products \X Racks -> Int]
  BY DEF ServedInv
<1>1. CASE PurchaseNext
  <2>1. UNCHANGED <<rackStock, offcutVars>>
    BY <1>1 DEF PurchaseNext, GrnCreate, GrnDelete, EwayBillCreate, EwayBillDelete,
                PurchaseInvoiceCreate, PurchaseInvoiceUpdate, PurchaseInvoiceDelete,
                purchaseFrame
  <2>2. OffcutsStand
    BY <1>0, <2>1, SameOffcutsStand
  <2> QED BY <1>0, <1>1, <2>2, PurchaseLeavesSales, OthersKeepServed
<1>2. CASE InventoryNext
  BY <1>0, <1>2, InventoryLeavesSales, InventoryOffcuts, OthersKeepServed
<1>3. CASE SalesNext
  <2>1. CASE \E lines \in CounterLineSeqs : CounterInvoiceCreate(lines)
    BY <2>1, CounterSaleServed
  <2>2. CASE SalesStand /\ OffcutsStand
    BY <2>2, OthersKeepServed
  <2> QED BY <1>0, <1>3, <2>1, <2>2, InvoicesLeaveSales, SalesOffcuts
<1>4. CASE UNCHANGED vars
  <2>1. UNCHANGED <<movement, doc, nextDoc, papers, rackStock, offcutVars>>
    BY <1>4 DEF vars, ledgerVars
  <2> QED BY <1>0, <2>1, SameSalesStand, SameOffcutsStand, OthersKeepServed
<1> QED BY <1>1, <1>2, <1>3, <1>4 DEF Next

LEMMA InitServed == Init => ServedInv
<1> SUFFICES ASSUME Init PROVE ServedInv
  OBVIOUS
<1>1. rackStock \in [Products \X Racks -> Int] /\ nextOffcut \in 1..(MaxOffcuts + 1)
  BY StockConstants DEF Init
<1>2. OffcutInv(offcut, nextOffcut, nextDoc)
  <2> DEFINE none == [product |-> CHOOSE p \in Products : TRUE, godown |-> MainGodown,
                      size |-> 0, status |-> "None", consumer |-> NoRef]
  <2>1. (CHOOSE p \in Products : TRUE) \in Products
    BY StockConstants
  <2>2. none \in Offcut /\ none.status = "None" /\ none.consumer = NoRef
    BY <2>1, StockConstants DEF Offcut
  <2>3. offcut = [o \in OffcutIds |-> none] /\ nextDoc = 1
    BY DEF Init
  <2> HIDE DEF none
  <2> QED BY <2>2, <2>3 DEF OffcutInv, NoRef
<1>3. PapersOnSales
  BY DEF Init, PapersOnSales
<1>4. EveryLineServed
  BY HeaderType DEF Init, EveryLineServed
<1> QED BY <1>1, <1>2, <1>3, <1>4 DEF ServedInv

LEMMA ServedHolds == Spec => []ServedInv
BY InitServed, StepKeepsServed, InvHolds, PTL DEF Spec

-----------------------------------------------------------------------------
(* Every line of a counter sale is served once, by a fresh sheet or by one *)
(* offcut, for any lines, any pieces and any stock of offcuts              *)
(* (EveryLineServed).                                                      *)
THEOREM LinesServedOnce == Spec => []EveryLineServed
<1>1. ServedInv => EveryLineServed
  BY DEF ServedInv
<1> QED BY <1>1, ServedHolds, PTL

(* A sale with a payment, a voucher, a waybill or a complaint keeps its    *)
(* document and its rows (BilledSaleStands).                               *)
THEOREM SalesStandBilled == Spec => BilledSaleStands
<1>1. IInv /\ ServedInv /\ [Next]_vars
        => [\A d \in DocIds : papers[d] # {} =>
              movement'[d] = movement[d] /\ doc'[d].kind = doc[d].kind]_vars
  <2> SUFFICES ASSUME IInv, ServedInv, Next, NEW d \in DocIds, papers[d] # {}
               PROVE  movement'[d] = movement[d] /\ doc'[d].kind = doc[d].kind
    OBVIOUS
  <2>0. PapersOnSales
    BY DEF ServedInv
  <2>1. CASE SalesStand
    BY <2>0, <2>1 DEF PapersOnSales, SalesStand, Kept
  <2>2. ASSUME NEW lines \in CounterLineSeqs, CounterInvoiceCreate(lines)
        PROVE  movement'[d] = movement[d] /\ doc'[d].kind = doc[d].kind
    <3>1. d # nextDoc
      <4>1. doc[d].kind # "None"
        BY <2>0 DEF PapersOnSales, SaleKinds
      <4>2. nextDoc \in DocIds => doc[nextDoc].kind = "None"
        BY DEF IInv, NoDocsAhead, LedgerTypeOK
      <4> QED BY <4>1, <4>2
    <3> QED BY <2>2, <3>1 DEF CounterInvoiceCreate, CreateDoc, IInv, LedgerTypeOK
  <2>3. CASE PurchaseNext
    BY <2>0, <2>1, <2>3, PurchaseLeavesSales
  <2>4. CASE InventoryNext
    BY <2>0, <2>1, <2>4, InventoryLeavesSales
  <2>5. CASE SalesNext
    BY <2>0, <2>1, <2>2, <2>5, InvoicesLeaveSales
  <2> QED BY <2>3, <2>4, <2>5 DEF Next
<1> QED BY <1>1, InvHolds, ServedHolds, PTL DEF Spec, BilledSaleStands

(* Every stock table keeps its type: ledger, racks, offcuts, e-Way Bills   *)
(* and the papers of a sale (TypeOK).                                      *)
THEOREM TablesTypeCorrect == Spec => []TypeOK
<1>1. IInv /\ LinkInv /\ ServedInv => TypeOK
  BY DEF IInv, CounterSalePaid, LinkInv, ServedInv, OffcutInv, TypeOK
<1> QED BY <1>1, InvHolds, LinkHolds, ServedHolds, PTL
=============================================================================
