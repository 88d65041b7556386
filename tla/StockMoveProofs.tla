-------------------------- MODULE StockMoveProofs ---------------------------
(***************************************************************************)
(* What one request may do to the ledger, for every value of the constants:*)
(* the stock ledger implements the abstract account, a reversal leaves no  *)
(* balance it lowers below zero, and a transfer between godowns moves stock*)
(* without making or losing any.                                           *)
(*                                                                         *)
(* StepHandled sorts the steps: a request posts the rows of one new        *)
(* document, changes the rows of one it has checked, or leaves the rows    *)
(* alone.  A reversal that may pass its check takes the rows of a document *)
(* out of balances that hold each of them; FloorKept shows that this leaves*)
(* a cell named once non-negative.  A transfer is followed line by line:   *)
(* the sum of all godowns stays what it was (HeldMoves) and the source     *)
(* covers each line after the ones before it.                              *)
(***************************************************************************)
EXTENDS StockLedgerProofs

LEMMA MovedIsNet == \A r, c : Books!Net(r, c) = Net(r, c)
BY DEF Books!Net, Net, Books!SumTo, SumTo, Books!Totals, Totals

AccountStep ==
  UNCHANGED <<balance, movement>> \/ \E d \in DocIds : Books!Repost(d)

(* The balances follow the rows of document d from old to new. *)
LEMMA FollowIsRepost ==
  ASSUME NEW d \in DocIds, NEW rows, LedgerTypeOK,
         movement' = [movement EXCEPT ![d] = rows],
         balance' = [c \in Cells |-> balance[c] - Net(movement[d], c) + Net(rows, c)]
  PROVE  AccountStep
<1>1. movement'[d] = rows
  BY DEF LedgerTypeOK
<1>2. Books!Repost(d)
  BY <1>1, MovedIsNet DEF Books!Repost
<1> QED BY <1>2 DEF AccountStep

(* Posting rows under a fresh id. *)
LEMMA AddIsRepost ==
  ASSUME IInv, NEW rows \in Seq(Row), NEW h, CreateDoc(h, rows),
         balance' = [c \in Cells |-> balance[c] + Net(rows, c)]
  PROVE  AccountStep
<1>1. /\ nextDoc \in DocIds /\ movement' = [movement EXCEPT ![nextDoc] = rows]
      /\ LedgerTypeOK /\ balance \in [Cells -> Int]
  BY DEF CreateDoc, IInv, LedgerTypeOK
<1>2. movement[nextDoc] = << >>
  BY <1>1, StockConstants DEF IInv, NoOrphanRows, DocIds
<1>3. ASSUME NEW c \in Cells
      PROVE  balance[c] + Net(rows, c) = balance[c] - Net(movement[nextDoc], c) + Net(rows, c)
  <2>1. Net(movement[nextDoc], c) = 0 /\ Net(rows, c) \in Int /\ balance[c] \in Int
    BY <1>1, <1>2, NetEmpty, NetType
  <2> QED BY <2>1
<1>4. balance' = [c \in Cells |-> balance[c] - Net(movement[nextDoc], c) + Net(rows, c)]
  BY <1>3
<1> QED BY <1>1, <1>4, FollowIsRepost

(* Taking back the rows of a document. *)
LEMMA TakeBackIsRepost ==
  ASSUME IInv, NEW d \in DocIds,
         balance' = Removed(balance, movement[d]), movement' = WithoutRows(d)
  PROVE  AccountStep
<1>1. LedgerTypeOK /\ balance \in [Cells -> Int] /\ movement[d] \in Seq(Row)
  BY DEF IInv, LedgerTypeOK
<1>2. ASSUME NEW c \in Cells
      PROVE  balance[c] - Net(movement[d], c) = balance[c] - Net(movement[d], c) + Net(<< >>, c)
  <2>1. Net(<< >>, c) = 0 /\ Net(movement[d], c) \in Int /\ balance[c] \in Int
    BY <1>1, NetEmpty, NetType
  <2> QED BY <2>1
<1>3. balance' = [c \in Cells |-> balance[c] - Net(movement[d], c) + Net(<< >>, c)]
  BY <1>2 DEF Removed
<1>4. movement' = [movement EXCEPT ![d] = << >>]
  BY DEF WithoutRows
<1> QED BY <1>1, <1>3, <1>4, FollowIsRepost

(* Posting rows and adding them to the balances. *)
LEMMA AddedIsRepost ==
  ASSUME IInv, NEW rows \in Seq(Row), NEW h, CreateDoc(h, rows),
         balance' = Added(balance, rows)
  PROVE  AccountStep
BY AddIsRepost DEF Added

-----------------------------------------------------------------------------
LEMMA PurchaseSteps ==
  ASSUME IInv, PurchaseNext
  PROVE  AccountStep
<1>1. ASSUME NEW g \in Godowns, NEW lines \in LineSeqs, GrnCreate(g, lines)
      PROVE  AccountStep
  BY <1>1, PurchaseRows, AddedIsRepost DEF GrnCreate
<1>2. ASSUME NEW d \in DocIds, GrnDelete(d) \/ PurchaseInvoiceDelete(d)
      PROVE  AccountStep
  BY <1>2, TakeBackIsRepost DEF GrnDelete, PurchaseInvoiceDelete, DeleteDoc
<1>3. ASSUME NEW e \in EwayBills, EwayBillCreate(e) \/ EwayBillDelete(e)
      PROVE  AccountStep
  BY <1>3 DEF EwayBillCreate, EwayBillDelete, ledgerVars, AccountStep
<1>4. ASSUME NEW g \in Godowns, NEW lines \in LineSeqs, NEW e \in EwayBills \cup {NoEway},
             NEW grn \in DocIds \cup {NoRef}, PurchaseInvoiceCreate(g, lines, e, grn)
      PROVE  AccountStep
  BY <1>4, PurchaseRows, AddedIsRepost DEF PurchaseInvoiceCreate
<1>5. ASSUME NEW d \in DocIds, NEW e \in EwayBills \cup {NoEway},
             NEW lines \in LineSeqs \cup {<< >>}, PurchaseInvoiceUpdate(d, e, lines)
      PROVE  AccountStep
  <2>1. CASE UNCHANGED <<balance, movement>>
    BY <2>1 DEF AccountStep
  <2>2. CASE lines # << >> /\ ReplaceLines(d, lines)
    <3> DEFINE rows == InRows(lines, doc[d].godown)
    <3>1. lines \in LineSeqs /\ doc[d].godown \in Godowns
      BY <2>2 DEF IInv, LedgerTypeOK, Header
    <3>2. rows \in Seq(Row)
      BY <3>1, PurchaseRows
    <3>3. /\ LedgerTypeOK
          /\ balance' = Added(Removed(balance, movement[d]), rows)
          /\ movement' = [movement EXCEPT ![d] = rows]
      BY <2>2 DEF ReplaceLines, IInv
    <3> HIDE DEF rows
    <3>4. balance' = [c \in Cells |-> balance[c] - Net(movement[d], c) + Net(rows, c)]
      BY <3>3 DEF Added, Removed
    <3> QED BY <3>3, <3>4, FollowIsRepost
  <2> QED BY <1>5, <2>1, <2>2 DEF PurchaseInvoiceUpdate
<1> QED BY <1>1, <1>2, <1>3, <1>4, <1>5 DEF PurchaseNext

(* An adjustment writes the counts over the balances, which moves each by  *)
(* the differences it posts; the other handlers are like the above.        *)
LEMMA InventorySteps ==
  ASSUME IInv, InventoryNext
  PROVE  AccountStep
<1>0. balance \in [Cells -> Int]
  BY DEF IInv, LedgerTypeOK
<1>1. ASSUME NEW g \in Godowns, NEW lines \in LineSeqs, StockOpeningCreate(g, lines)
      PROVE  AccountStep
  BY <1>1, PurchaseRows, AddedIsRepost DEF StockOpeningCreate
<1>2. ASSUME NEW d \in DocIds, StockOpeningDelete(d) \/ AdjustmentDelete(d)
      PROVE  AccountStep
  BY <1>2, TakeBackIsRepost
     DEF StockOpeningDelete, AdjustmentDelete, InventoryDocDelete, DeleteDoc
<1>3. ASSUME NEW g \in Godowns, NEW lines \in LineSeqs, AdjustmentCreate(g, lines)
      PROVE  AccountStep
  <2> DEFINE h == Document("StockAdjustment", g, Len(lines), NoRef, NoEway)
             rows == DifferenceRows(lines, g)
  <2>1. CreateDoc(h, rows) /\ balance' = [c \in Cells |-> BookQty(lines, g, Len(lines), c)]
    BY <1>3 DEF AdjustmentCreate
  <2>2. \A c \in Cells : /\ rows \in Seq(Row)
                         /\ BookQty(lines, g, Len(lines), c) = balance[c] + Net(rows, c)
    BY <1>0, DifferencesAddUp
  <2>3. \E c : c \in Cells
    <3>1. PICK p : p \in Products
      BY StockConstants
    <3>2. <<p, g>> \in Cells
      BY <3>1 DEF Cells
    <3> QED BY <3>2
  <2> HIDE DEF h, rows
  <2>4. balance' = [c \in Cells |-> balance[c] + Net(rows, c)]
    BY <2>1, <2>2
  <2> QED BY <2>1, <2>2, <2>3, <2>4, AddIsRepost
<1>4. ASSUME NEW from \in Godowns, NEW to \in Godowns, NEW lines \in LineSeqs,
             TransferCreate(from, to, lines)
      PROVE  AccountStep
  <2>1. TransferRows(lines, from, to) \in Seq(Row)
    BY LinesType, TransferRowsType
  <2> QED BY <1>4, <2>1, AddedIsRepost DEF TransferCreate
<1>5. ASSUME NEW p \in Products, NEW r1 \in Racks, NEW r2 \in Racks, NEW q \in Quantities,
             RackStockTransfer(p, r1, r2, q)
      PROVE  AccountStep
  <2> DEFINE h == Document("RackTransfer", RackGodown[r1], 1, NoRef, NoEway)
             lines == <<[product |-> p, qty |-> q]>>
             rows == TransferRows(lines, RackGodown[r1], RackGodown[r2])
  <2>1. rows \in Seq(Row)
    <3>1. /\ Len(lines) = 1
          /\ \A i \in 1..Len(lines) : lines[i].product \in Products /\ lines[i].qty \in Int
      BY StockConstants
    <3>2. RackGodown[r1] \in Godowns /\ RackGodown[r2] \in Godowns
      BY StockConstants
    <3> HIDE DEF lines
    <3> QED BY <3>1, <3>2, TransferRowsType
  <2>2. CASE UNCHANGED ledgerVars
    BY <2>2 DEF AccountStep, ledgerVars
  <2>3. CASE CreateDoc(h, rows) /\ balance' = Added(balance, rows)
    <3> HIDE DEF h, rows
    <3> QED BY <2>1, <2>3, AddedIsRepost
  <2> QED BY <1>5, <2>2, <2>3 DEF RackStockTransfer
<1>6. CASE \/ \E p \in Products, r \in Racks, q \in Quantities : RackStockAdjust(p, r, q)
           \/ \E p \in Products, r \in Racks : RackStockDelete(p, r)
           \/ \E p \in Products, g \in Godowns, size \in Pieces : OffcutCreate(p, g, size)
           \/ \E o \in OffcutIds : OffcutUse(o)
           \/ \E o \in OffcutIds : OffcutDelete(o)
  BY <1>6 DEF RackStockAdjust, RackStockDelete, OffcutCreate, OffcutUse, OffcutDelete,
              ledgerVars, AccountStep
<1>7. CASE \/ \E g \in Godowns, lines \in LineSeqs : StockOpeningCreate(g, lines)
           \/ \E d \in DocIds : StockOpeningDelete(d)
           \/ \E g \in Godowns, lines \in LineSeqs : AdjustmentCreate(g, lines)
           \/ \E d \in DocIds : AdjustmentDelete(d)
  BY <1>1, <1>2, <1>3, <1>7
<1>8. CASE \/ \E from, to \in Godowns, lines \in LineSeqs : TransferCreate(from, to, lines)
           \/ \E p \in Products, r1, r2 \in Racks, q \in Quantities :
                 RackStockTransfer(p, r1, r2, q)
  BY <1>4, <1>5, <1>8
<1> QED BY <1>6, <1>7, <1>8 DEF InventoryNext

LEMMA SalesSteps ==
  ASSUME IInv, SalesNext
  PROVE  AccountStep
<1>1. ASSUME NEW lines \in LineSeqs, InvoiceCreate(lines)
      PROVE  AccountStep
  <2>1. OutRows(lines, MainGodown) \in Seq(Row)
    BY PurchaseRows, StockConstants
  <2> QED BY <1>1, <2>1, AddedIsRepost DEF InvoiceCreate
<1>2. ASSUME NEW d \in DocIds, InvoiceCancel(d)
      PROVE  AccountStep
  BY <1>2 DEF InvoiceCancel, AccountStep
<1>3. ASSUME NEW d \in DocIds, InvoiceDelete(d)
      PROVE  AccountStep
  <2>1. doc[d].kind = "Invoice"
    BY <1>3 DEF InvoiceDelete, SalesInvoice, Unreferenced, IInv, CounterSalePaid
  <2>2. balance' = Removed(balance, movement[d]) /\ movement' = WithoutRows(d)
    BY <1>3, <2>1 DEF InvoiceDelete, OwnRows
  <2> QED BY <2>2, TakeBackIsRepost
<1>4. ASSUME NEW d \in DocIds, NEW paper \in Papers,
             PaperCreate(d, paper) \/ PaperDelete(d, paper)
      PROVE  AccountStep
  BY <1>4 DEF PaperCreate, PaperDelete, ledgerVars, AccountStep
<1>5. ASSUME NEW lines \in CounterLineSeqs, CounterInvoiceCreate(lines)
      PROVE  AccountStep
  BY <1>5, CounterRowsType, AddedIsRepost DEF CounterInvoiceCreate
<1>6. ASSUME NEW lines \in CuttingLineSeqs, CuttingEntryCreate(lines)
      PROVE  AccountStep
  BY <1>6, CutRowsType, AddedIsRepost DEF CuttingEntryCreate
<1>7. ASSUME NEW d \in DocIds, CuttingEntryCancel(d)
      PROVE  AccountStep
  BY <1>7, TakeBackIsRepost DEF CuttingEntryCancel
<1> QED BY <1>1, <1>2, <1>3, <1>4, <1>5, <1>6, <1>7 DEF SalesNext

-----------------------------------------------------------------------------
(* Every execution of the stock handlers is one of the abstract account:   *)
(* no request moves a balance without the rows that explain it, and none   *)
(* touches the rows of two documents.                                      *)
THEOREM LedgerImplementsAccount == Spec => ImplementsAccount
<1>1. Init => Books!Open
  BY DEF Init, Books!Open
<1>2. IInv /\ [Next]_vars => [\E d \in DocIds : Books!Repost(d)]_(Books!accountVars)
  <2> SUFFICES ASSUME IInv, [Next]_vars
               PROVE  AccountStep
    BY DEF AccountStep, Books!accountVars
  <2>1. CASE UNCHANGED vars
    BY <2>1 DEF vars, ledgerVars, AccountStep
  <2> QED BY <2>1, PurchaseSteps, InventorySteps, SalesSteps DEF Next
<1> QED BY <1>1, <1>2, InvHolds, PTL DEF Spec, ImplementsAccount, Books!Account

-----------------------------------------------------------------------------
(* Induction over the finite sets of godowns, by their size. *)
Sized(P, n) == \A s \in SUBSET Godowns : Cardinality(s) = n => s \in P

LEMMA GodownSets ==
  ASSUME NEW s \in SUBSET Godowns
  PROVE  /\ IsFiniteSet(s) /\ Cardinality(s) \in Nat
         /\ Cardinality(s) <= Cardinality(Godowns) /\ Cardinality(Godowns) \in Nat
         /\ Cardinality(s) = 0 <=> s = {}
         /\ \A g \in s : s \ {g} \in SUBSET Godowns /\ Cardinality(s \ {g}) = Cardinality(s) - 1
<1>1. IsFiniteSet(s) /\ Cardinality(s) <= Cardinality(Godowns)
  BY GodownsFinite, FS_Subset
<1>2. Cardinality(s) \in Nat /\ Cardinality(Godowns) \in Nat
  BY <1>1, GodownsFinite, FS_CardinalityType
<1>3. Cardinality(s) = 0 <=> s = {}
  BY <1>1, FS_EmptySet
<1>4. \A g \in s : Cardinality(s \ {g}) = Cardinality(s) - 1
  BY <1>1, FS_RemoveElement
<1> QED BY <1>1, <1>2, <1>3, <1>4

Picked(s) == CHOOSE x \in s : TRUE

LEMMA GodownInduction ==
  ASSUME NEW P, {} \in P,
         \A s \in SUBSET Godowns, g \in Godowns :
           g \in s /\ s \ {g} \in P /\ g = Picked(s) => s \in P
  PROVE  Godowns \in P
<1> DEFINE N == Cardinality(Godowns)
           S == {n \in 0..N : Sized(P, n)}
<1>0. N \in Nat
  BY GodownSets
<1>1. 0 \in S
  <2>1. \A s \in SUBSET Godowns : Cardinality(s) = 0 => s = {}
    BY GodownSets
  <2>2. Sized(P, 0)
    BY <2>1 DEF Sized
  <2> QED BY <1>0, <2>2
<1>2. ASSUME NEW n \in 1..N, n - 1 \in S
      PROVE  n \in S
  <2>1. ASSUME NEW s \in SUBSET Godowns, Cardinality(s) = n
        PROVE  s \in P
    <3> DEFINE g == Picked(s)
    <3>1. s # {}
      BY <2>1, GodownSets
    <3>2. g \in s /\ g \in Godowns
      BY <3>1 DEF Picked
    <3> HIDE DEF g
    <3>3. s \ {g} \in SUBSET Godowns /\ Cardinality(s \ {g}) = n - 1
      BY <2>1, <3>2, GodownSets
    <3>4. s \ {g} \in P
      BY <1>2, <3>3 DEF Sized
    <3> QED BY <3>2, <3>4 DEF g
  <2>2. Sized(P, n)
    BY <2>1 DEF Sized
  <2> QED BY <2>2, <1>0
<1> HIDE DEF S, N
<1>3. \A n \in 0..N : n \in S
  BY <1>0, <1>1, <1>2, SetInduction
<1>4. Sized(P, N)
  BY <1>0, <1>3 DEF S
<1> QED BY <1>4 DEF Sized, N

(* What the godowns of a set hold of product p in books b, added up in the *)
(* order in which CHOOSE picks them.                                       *)
HeldIn(b, p) ==
  LET iter[s \in SUBSET Godowns] ==
        IF s = {} THEN 0
        ELSE LET g == CHOOSE x \in s : TRUE IN b[<<p, g>>] + iter[s \ {g}]
  IN  iter
HeldStep(b, p, h, s) ==
  IF s = {} THEN 0
  ELSE b[<<p, Picked(s)>>] + h[s \ {Picked(s)}]
UpTo(n) == {s \in SUBSET Godowns : Cardinality(s) <= n}
HeldUpTo(b, p, n) == \E h : h = [s \in UpTo(n) |-> HeldStep(b, p, h, s)]

LEMMA HeldExists ==
  ASSUME NEW b, NEW p
  PROVE  HeldUpTo(b, p, Cardinality(Godowns))
<1> DEFINE N == Cardinality(Godowns)
           S == {n \in 0..N : HeldUpTo(b, p, n)}
<1>0. N \in Nat
  BY GodownSets
<1>1. 0 \in S
  <2>1. \A s \in UpTo(0) : s = {}
    BY GodownSets DEF UpTo
  <2> DEFINE h == [s \in UpTo(0) |-> 0]
  <2>2. h = [s \in UpTo(0) |-> HeldStep(b, p, h, s)]
    BY <2>1 DEF HeldStep
  <2>3. HeldUpTo(b, p, 0)
    BY <2>2 DEF HeldUpTo
  <2> QED BY <1>0, <2>3
<1>2. ASSUME NEW n \in 1..N, n - 1 \in S
      PROVE  n \in S
  <2>1. PICK h : h = [s \in UpTo(n - 1) |-> HeldStep(b, p, h, s)]
    BY <1>2 DEF HeldUpTo
  <2> DEFINE k == [s \in UpTo(n) |-> IF s \in UpTo(n - 1) THEN h[s] ELSE HeldStep(b, p, h, s)]
  <2>2. ASSUME NEW s \in UpTo(n)
        PROVE  k[s] = HeldStep(b, p, k, s)
    <3> DEFINE g == Picked(s)
    <3>1. k[s] = HeldStep(b, p, h, s)
      BY <2>1
    <3>2. CASE s = {}
      BY <3>1, <3>2 DEF HeldStep
    <3>3. CASE s # {}
      <4>1. g \in s
        BY <3>3 DEF Picked
      <4> HIDE DEF g
      <4>2. s \ {g} \in UpTo(n - 1) /\ s \ {g} \in UpTo(n)
        BY <4>1, GodownSets DEF UpTo
      <4>3. k[s \ {g}] = h[s \ {g}]
        BY <4>2
      <4> HIDE DEF k
      <4> QED BY <3>1, <3>3, <4>3 DEF HeldStep, g
    <3> QED BY <3>2, <3>3
  <2>3. k = [s \in UpTo(n) |-> HeldStep(b, p, k, s)]
    BY <2>2
  <2>4. HeldUpTo(b, p, n)
    BY <2>3 DEF HeldUpTo
  <2> QED BY <1>0, <2>4
<1> HIDE DEF S, N
<1>3. \A n \in 0..N : n \in S
  BY <1>0, <1>1, <1>2, SetInduction
<1> QED BY <1>0, <1>3 DEF S, N

LEMMA HeldInStep ==
  ASSUME NEW b, NEW p
  PROVE  /\ Held(b, p) = HeldIn(b, p)[Godowns]
         /\ HeldIn(b, p)[{}] = 0
         /\ \A s \in SUBSET Godowns : \A g \in s :
              g = Picked(s) => HeldIn(b, p)[s] = b[<<p, g>>] + HeldIn(b, p)[s \ {g}]
<1> DEFINE h == HeldIn(b, p)
<1>1. Held(b, p) = h[Godowns]
  BY DEF Held, MapThenSumSet, MapThenFoldSet, HeldIn
<1>2. UpTo(Cardinality(Godowns)) = SUBSET Godowns
  BY GodownSets DEF UpTo
<1>3. \E k : k = [s \in SUBSET Godowns |-> HeldStep(b, p, k, s)]
  <2>1. PICK k : k = [s \in UpTo(Cardinality(Godowns)) |-> HeldStep(b, p, k, s)]
    BY HeldExists DEF HeldUpTo
  <2>2. k = [s \in SUBSET Godowns |-> HeldStep(b, p, k, s)]
    BY <1>2, <2>1
  <2> QED BY <2>2
<1>4. h = [s \in SUBSET Godowns |-> HeldStep(b, p, h, s)]
  BY <1>3, Zenon DEF HeldIn, HeldStep, Picked
<1> HIDE DEF h
<1>5. h[{}] = 0
  BY <1>4 DEF HeldStep
<1>6. ASSUME NEW s \in SUBSET Godowns, NEW g \in s, g = Picked(s)
      PROVE  h[s] = b[<<p, g>>] + h[s \ {g}]
  <2>1. h[s] = HeldStep(b, p, h, s) /\ s # {}
    BY <1>4
  <2> QED BY <1>6, <2>1, Zenon DEF HeldStep
<1> QED BY <1>1, <1>5, <1>6 DEF h

LEMMA HeldInType ==
  ASSUME NEW b \in [Cells -> Int], NEW p \in Products
  PROVE  Held(b, p) \in Int
<1> DEFINE h == HeldIn(b, p)
           P == {s \in SUBSET Godowns : h[s] \in Int}
<1>1. {} \in P
  BY HeldInStep
<1>2. ASSUME NEW s \in SUBSET Godowns, NEW g \in Godowns, g \in s, s \ {g} \in P,
             g = Picked(s)
      PROVE  s \in P
  <2>1. h[s] = b[<<p, g>>] + h[s \ {g}]
    <3>1. g \in s /\ g = Picked(s)
      BY <1>2
    <3> HIDE DEF P
    <3> QED BY <3>1, HeldInStep
  <2>2. b[<<p, g>>] \in Int
    BY DEF Cells
  <2> HIDE DEF h
  <2> QED BY <1>2, <2>1, <2>2
<1> HIDE DEF P
<1>3. Godowns \in P
  BY <1>1, <1>2, GodownInduction
<1> QED BY <1>3, HeldInStep DEF P

(* Moving a quantity between two godowns leaves what all of them hold.     *)
LEMMA HeldMoves ==
  ASSUME NEW b \in [Cells -> Int], NEW k \in [Cells -> Int], NEW p \in Products,
         NEW from \in Godowns, NEW to \in Godowns, from # to, NEW q \in Int,
         k[<<p, from>>] = b[<<p, from>>] - q, k[<<p, to>>] = b[<<p, to>>] + q,
         \A g \in Godowns : g \notin {from, to} => k[<<p, g>>] = b[<<p, g>>]
  PROVE  Held(k, p) = Held(b, p)
<1> DEFINE h == HeldIn(b, p)
           j == HeldIn(k, p)
           Shift(s) == (IF to \in s THEN q ELSE 0) - (IF from \in s THEN q ELSE 0)
           P == {s \in SUBSET Godowns : h[s] \in Int /\ j[s] = h[s] + Shift(s)}
<1>1. {} \in P
  BY HeldInStep
<1>2. ASSUME NEW s \in SUBSET Godowns, NEW g \in Godowns, g \in s, s \ {g} \in P,
             g = Picked(s)
      PROVE  s \in P
  <2>1. h[s] = b[<<p, g>>] + h[s \ {g}] /\ j[s] = k[<<p, g>>] + j[s \ {g}]
    <3>1. g \in s /\ g = Picked(s)
      BY <1>2
    <3> HIDE DEF P
    <3>2. h[s] = b[<<p, g>>] + h[s \ {g}]
      BY <3>1, HeldInStep
    <3>3. j[s] = k[<<p, g>>] + j[s \ {g}]
      BY <3>1, HeldInStep
    <3> QED BY <3>2, <3>3
  <2>2. b[<<p, g>>] \in Int /\ k[<<p, g>>] \in Int /\ b[<<p, from>>] \in Int /\ b[<<p, to>>] \in Int
    BY DEF Cells
  <2>3. h[s \ {g}] \in Int /\ j[s \ {g}] = h[s \ {g}] + Shift(s \ {g})
    BY <1>2
  <2> HIDE DEF h, j
  <2>4. CASE g = from
    <3>1. Shift(s) = Shift(s \ {g}) - q /\ Shift(s \ {g}) \in Int
      BY <1>2, <2>4
    <3> HIDE DEF Shift
    <3>2. j[s] = h[s] + Shift(s) /\ h[s] \in Int
      BY <2>1, <2>2, <2>3, <2>4, <3>1
    <3> QED BY <3>2
  <2>5. CASE g = to
    <3>1. Shift(s) = Shift(s \ {g}) + q /\ Shift(s \ {g}) \in Int
      BY <1>2, <2>5
    <3> HIDE DEF Shift
    <3>2. j[s] = h[s] + Shift(s) /\ h[s] \in Int
      BY <2>1, <2>2, <2>3, <2>5, <3>1
    <3> QED BY <3>2
  <2>6. CASE g \notin {from, to}
    <3>1. Shift(s) = Shift(s \ {g}) /\ Shift(s \ {g}) \in Int /\ k[<<p, g>>] = b[<<p, g>>]
      BY <1>2, <2>6
    <3> HIDE DEF Shift
    <3>2. j[s] = h[s] + Shift(s) /\ h[s] \in Int
      BY <2>1, <2>2, <2>3, <3>1
    <3> QED BY <3>2
  <2> QED BY <2>4, <2>5, <2>6
<1> HIDE DEF P
<1>3. Godowns \in P
  BY <1>1, <1>2, GodownInduction
<1>4. h[Godowns] \in Int /\ j[Godowns] = h[Godowns] + Shift(Godowns)
  BY <1>3 DEF P
<1> HIDE DEF h, j
<1>5. j[Godowns] = h[Godowns]
  BY <1>4
<1> QED BY <1>5, HeldInStep DEF h, j

(* Books that agree on a product hold the same of it. *)
LEMMA HeldSame ==
  ASSUME NEW b, NEW k, NEW p, \A g \in Godowns : k[<<p, g>>] = b[<<p, g>>]
  PROVE  Held(k, p) = Held(b, p)
<1> DEFINE h == HeldIn(b, p)
           j == HeldIn(k, p)
           P == {s \in SUBSET Godowns : j[s] = h[s]}
<1>1. {} \in P
  BY HeldInStep
<1>2. ASSUME NEW s \in SUBSET Godowns, NEW g \in Godowns, g \in s, s \ {g} \in P,
             g = Picked(s)
      PROVE  s \in P
  <2>1. h[s] = b[<<p, g>>] + h[s \ {g}] /\ j[s] = k[<<p, g>>] + j[s \ {g}]
    <3>1. g \in s /\ g = Picked(s)
      BY <1>2
    <3> HIDE DEF P
    <3>2. h[s] = b[<<p, g>>] + h[s \ {g}]
      BY <3>1, HeldInStep
    <3>3. j[s] = k[<<p, g>>] + j[s \ {g}]
      BY <3>1, HeldInStep
    <3> QED BY <3>2, <3>3
  <2> HIDE DEF h, j
  <2> QED BY <1>2, <2>1
<1> HIDE DEF P
<1>3. Godowns \in P
  BY <1>1, <1>2, GodownInduction
<1> QED BY <1>3, HeldInStep DEF P

-----------------------------------------------------------------------------
LEMMA NetUptoStep ==
  ASSUME NEW rows \in Seq(Row), NEW c
  PROVE  /\ NetUpto(rows, 0, c) = 0
         /\ NetUpto(rows, Len(rows), c) = Net(rows, c)
         /\ \A m \in 1..Len(rows) :
              /\ NetUpto(rows, m, c) = NetUpto(rows, m - 1, c) + Into(rows[m], c)
              /\ NetUpto(rows, m, c) \in Int /\ NetUpto(rows, m - 1, c) \in Int
BY NetStepwise DEF Row, Rows

(* Each line of a transfer takes its quantity out of one godown and puts   *)
(* it into the other.                                                      *)
TransferLines(lines) ==
  /\ Len(lines) \in Nat
  /\ \A i \in 1..Len(lines) :
       lines[i].product \in Products /\ lines[i].qty \in Int /\ lines[i].qty > 0

LEMMA LineMoves ==
  ASSUME NEW lines, TransferLines(lines), NEW from \in Godowns, NEW to \in Godowns,
         NEW i \in 1..Len(lines), NEW c
  PROVE  LET rows == TransferRows(lines, from, to)
             out == IF <<lines[i].product, from>> = c THEN 0 - lines[i].qty ELSE 0
             in == IF <<lines[i].product, to>> = c THEN lines[i].qty ELSE 0
         IN  /\ NetUpto(rows, 2 * i, c) = NetUpto(rows, 2 * (i - 1), c) + out + in
             /\ NetUpto(rows, 2 * i, c) \in Int /\ NetUpto(rows, 2 * (i - 1), c) \in Int
<1> DEFINE rows == TransferRows(lines, from, to)
           n == Len(lines)
           k == 2 * i
           l == 2 * i - 1
<1>0. n \in Nat /\ i \in Nat /\ i <= n
  BY DEF TransferLines
<1>1. rows \in Seq(Row)
  BY TransferRowsType DEF TransferLines
<1>2. /\ k \in 1..(2 * n) /\ l \in 1..(2 * n) /\ l - 1 = 2 * (i - 1) /\ k - 1 = l
      /\ (k + 1) \div 2 = i /\ k % 2 = 0 /\ (l + 1) \div 2 = i /\ l % 2 = 1
  BY <1>0
<1> HIDE DEF k, l
<1>3. Len(rows) = 2 * n
  BY <1>0 DEF TransferRows
<1>4. rows[l] = [cell |-> <<lines[i].product, from>>, qty |-> 0 - lines[i].qty]
  BY <1>2 DEF TransferRows
<1>5. rows[k] = [cell |-> <<lines[i].product, to>>, qty |-> lines[i].qty]
  BY <1>2 DEF TransferRows
<1> HIDE DEF rows, n
<1>6. /\ NetUpto(rows, l, c) = NetUpto(rows, l - 1, c) + Into(rows[l], c)
      /\ NetUpto(rows, k, c) = NetUpto(rows, k - 1, c) + Into(rows[k], c)
      /\ NetUpto(rows, k, c) \in Int /\ NetUpto(rows, l - 1, c) \in Int
  BY <1>1, <1>2, <1>3, NetUptoStep
<1>7. /\ Into(rows[l], c) = IF <<lines[i].product, from>> = c THEN 0 - lines[i].qty ELSE 0
      /\ Into(rows[k], c) = IF <<lines[i].product, to>> = c THEN lines[i].qty ELSE 0
  BY <1>4, <1>5 DEF Into
<1> QED BY <1>2, <1>6, <1>7 DEF rows, k

(* The whole transfer: what all godowns hold of a product stays, and the   *)
(* source is not overdrawn by it.                                          *)
MovesOnly(from) ==
  \A p \in Products :
    /\ Held(balance', p) = Held(balance, p)
    /\ balance'[<<p, from>>] < balance[<<p, from>>] => balance'[<<p, from>>] >= 0

LEMMA TransferMoves ==
  ASSUME balance \in [Cells -> Int], NEW lines, TransferLines(lines),
         NEW from \in Godowns, NEW to \in Godowns, from # to,
         EachLineOnHand(lines, from, to),
         balance' = Added(balance, TransferRows(lines, from, to))
  PROVE  MovesOnly(from)
<1> DEFINE rows == TransferRows(lines, from, to)
           n == Len(lines)
           After(i) == [c \in Cells |-> balance[c] + NetUpto(rows, 2 * i, c)]
<1>0. /\ n \in Nat /\ rows \in Seq(Row) /\ Len(rows) = 2 * n
      /\ \A i \in 1..n : lines[i].product \in Products /\ lines[i].qty \in Int /\ lines[i].qty > 0
  <2>1. n \in Nat /\ rows \in Seq(Row)
    BY TransferRowsType DEF TransferLines
  <2>2. Len(rows) = 2 * n
    BY <2>1 DEF TransferRows
  <2> QED BY <2>1, <2>2 DEF TransferLines
<1>1. \A c : NetUpto(rows, 2 * 0, c) = 0 /\ NetUpto(rows, 2 * n, c) = Net(rows, c)
  <2>1. /\ \A c : NetUpto(rows, 0, c) = 0
        /\ \A c : NetUpto(rows, Len(rows), c) = Net(rows, c)
    BY <1>0, NetUptoStep
  <2>2. 2 * 0 = 0 /\ 2 * n = Len(rows)
    BY <1>0
  <2> HIDE DEF rows, n
  <2> QED BY <2>1, <2>2
<1>2. \A i \in 1..n : balance[<<lines[i].product, from>>]
                        + NetUpto(rows, 2 * (i - 1), <<lines[i].product, from>>) >= lines[i].qty
  BY DEF EachLineOnHand, NetUpto
<1>3. \A i \in 1..n, c \in Cells :
        /\ NetUpto(rows, 2 * i, c) = NetUpto(rows, 2 * (i - 1), c)
             + (IF <<lines[i].product, from>> = c THEN 0 - lines[i].qty ELSE 0)
             + (IF <<lines[i].product, to>> = c THEN lines[i].qty ELSE 0)
        /\ NetUpto(rows, 2 * i, c) \in Int /\ NetUpto(rows, 2 * (i - 1), c) \in Int
  BY LineMoves
<1>4. balance' = [c \in Cells |-> balance[c] + Net(rows, c)]
  BY DEF Added
<1> HIDE DEF rows, n
<1>5. After(0) = balance /\ After(n) = balance'
  BY <1>1, <1>4
<1>6. \A i \in 0..n : After(i) \in [Cells -> Int]
  <2>1. \A i \in 1..n : After(i) \in [Cells -> Int]
    BY <1>3
  <2> QED BY <1>0, <1>5, <2>1
<1>7. ASSUME NEW p \in Products
      PROVE  Held(balance', p) = Held(balance, p)
  <2> DEFINE S == {i \in 0..n : Held(After(i), p) = Held(balance, p)}
  <2>1. 0 \in S
    BY <1>0, <1>5
  <2>2. ASSUME NEW i \in 1..n, i - 1 \in S
        PROVE  i \in S
    <3> DEFINE b == After(i - 1)
               k == After(i)
    <3>0. i \in 0..n /\ i - 1 \in 0..n
      BY <1>0
    <3>1. b \in [Cells -> Int] /\ k \in [Cells -> Int]
      BY <1>6, <3>0
    <3>2. \A g \in Godowns : <<p, g>> \in Cells
      BY DEF Cells
    <3>3. \A c \in Cells :
            k[c] = b[c] + (IF <<lines[i].product, from>> = c THEN 0 - lines[i].qty ELSE 0)
                        + (IF <<lines[i].product, to>> = c THEN lines[i].qty ELSE 0)
      <4>1. ASSUME NEW c \in Cells
            PROVE  k[c] = b[c] + (IF <<lines[i].product, from>> = c THEN 0 - lines[i].qty ELSE 0)
                               + (IF <<lines[i].product, to>> = c THEN lines[i].qty ELSE 0)
        <5>1. /\ b[c] = balance[c] + NetUpto(rows, 2 * (i - 1), c)
              /\ k[c] = balance[c] + NetUpto(rows, 2 * i, c)
          OBVIOUS
        <5>2. /\ NetUpto(rows, 2 * i, c) = NetUpto(rows, 2 * (i - 1), c)
                   + (IF <<lines[i].product, from>> = c THEN 0 - lines[i].qty ELSE 0)
                   + (IF <<lines[i].product, to>> = c THEN lines[i].qty ELSE 0)
              /\ NetUpto(rows, 2 * i, c) \in Int /\ NetUpto(rows, 2 * (i - 1), c) \in Int
              /\ balance[c] \in Int /\ lines[i].qty \in Int
          BY <1>0, <1>3
        <5> HIDE DEF b, k
        <5> QED BY <5>1, <5>2
      <4> QED BY <4>1
    <3> HIDE DEF After
    <3>4. CASE lines[i].product = p
      <4>1. /\ k[<<p, from>>] = b[<<p, from>>] - lines[i].qty
            /\ k[<<p, to>>] = b[<<p, to>>] + lines[i].qty
            /\ \A g \in Godowns : g \notin {from, to} => k[<<p, g>>] = b[<<p, g>>]
        <5> DEFINE q == lines[i].qty
        <5>1. \A g \in Godowns :
                /\ k[<<p, g>>] = b[<<p, g>>] + (IF from = g THEN 0 - q ELSE 0)
                                              + (IF to = g THEN q ELSE 0)
                /\ b[<<p, g>>] \in Int
          <6>1. ASSUME NEW g \in Godowns
                PROVE  /\ k[<<p, g>>] = b[<<p, g>>] + (IF from = g THEN 0 - q ELSE 0)
                                                    + (IF to = g THEN q ELSE 0)
                       /\ b[<<p, g>>] \in Int
            <7> HIDE DEF b, k
            <7>1. (<<p, from>> = <<p, g>> <=> from = g) /\ (<<p, to>> = <<p, g>> <=> to = g)
              OBVIOUS
            <7>2. <<p, g>> \in Cells
              BY <3>2
            <7> QED BY <3>1, <3>3, <3>4, <7>1, <7>2
          <6> QED BY <6>1
        <5>2. q \in Int
          BY <1>0
        <5> HIDE DEF b, k, q
        <5>3. k[<<p, from>>] = b[<<p, from>>] - q
          BY <5>1, <5>2
        <5>4. k[<<p, to>>] = b[<<p, to>>] + q
          BY <5>1, <5>2
        <5>5. \A g \in Godowns : g \notin {from, to} => k[<<p, g>>] = b[<<p, g>>]
          BY <5>1
        <5> QED BY <5>3, <5>4, <5>5 DEF q
      <4>2. lines[i].qty \in Int
        BY <1>0
      <4> HIDE DEF b, k
      <4>3. Held(k, p) = Held(b, p)
        BY <3>1, <4>1, <4>2, HeldMoves
      <4> QED BY <2>2, <3>0, <4>3 DEF b, k
    <3>5. CASE lines[i].product # p
      <4>1. \A g \in Godowns : k[<<p, g>>] = b[<<p, g>>]
        BY <1>0, <3>1, <3>2, <3>3, <3>5
      <4> HIDE DEF b, k
      <4>2. Held(k, p) = Held(b, p)
        BY <4>1, HeldSame
      <4> QED BY <2>2, <3>0, <4>2 DEF b, k
    <3> QED BY <3>4, <3>5
  <2> HIDE DEF S
  <2>3. \A i \in 0..n : i \in S
    BY <1>0, <2>1, <2>2, SetInduction
  <2> QED BY <1>0, <1>5, <2>3 DEF S
<1>8. ASSUME NEW p \in Products
      PROVE  balance'[<<p, from>>] < balance[<<p, from>>] => balance'[<<p, from>>] >= 0
  <2> DEFINE c == <<p, from>>
             S == {i \in 0..n : NetUpto(rows, 2 * i, c) = 0
                                  \/ balance[c] + NetUpto(rows, 2 * i, c) >= 0}
  <2>0. c \in Cells /\ balance[c] \in Int /\ \A r : <<r, from>> = c <=> r = p
    BY DEF Cells
  <2>9. \A r : <<r, to>> # c
    OBVIOUS
  <2> HIDE DEF c
  <2>1. 0 \in S
    BY <1>0, <1>1
  <2>2. ASSUME NEW i \in 1..n, i - 1 \in S
        PROVE  i \in S
    <3>0. i \in 0..n
      BY <1>0
    <3>1. /\ NetUpto(rows, 2 * i, c) = NetUpto(rows, 2 * (i - 1), c)
               + (IF <<lines[i].product, from>> = c THEN 0 - lines[i].qty ELSE 0)
               + (IF <<lines[i].product, to>> = c THEN lines[i].qty ELSE 0)
          /\ NetUpto(rows, 2 * i, c) \in Int /\ NetUpto(rows, 2 * (i - 1), c) \in Int
      BY <1>3, <2>0
    <3>2. CASE lines[i].product = p
      <4>1. NetUpto(rows, 2 * i, c) = NetUpto(rows, 2 * (i - 1), c) - lines[i].qty
        <5>1. <<lines[i].product, from>> = c /\ <<lines[i].product, to>> # c
          BY <2>0, <2>9, <3>2
        <5> QED BY <1>0, <3>1, <5>1
      <4>2. balance[c] + NetUpto(rows, 2 * (i - 1), c) >= lines[i].qty
        BY <1>2, <3>2 DEF c
      <4>3. balance[c] + NetUpto(rows, 2 * i, c) >= 0
        BY <1>0, <2>0, <3>1, <4>1, <4>2
      <4> QED BY <3>0, <4>3
    <3>3. CASE lines[i].product # p
      <4>1. NetUpto(rows, 2 * i, c) = NetUpto(rows, 2 * (i - 1), c)
        BY <2>0, <2>9, <3>1, <3>3
      <4> QED BY <2>2, <3>0, <4>1
    <3> QED BY <3>2, <3>3
  <2> HIDE DEF S
  <2>3. \A i \in 0..n : i \in S
    BY <1>0, <2>1, <2>2, SetInduction
  <2>4. balance'[c] = balance[c] + NetUpto(rows, 2 * n, c)
    BY <1>1, <1>4, <2>0
  <2>5. NetUpto(rows, 2 * n, c) = 0 \/ balance[c] + NetUpto(rows, 2 * n, c) >= 0
    BY <1>0, <2>3 DEF S
  <2>6. balance'[c] < balance[c] => balance'[c] >= 0
    BY <2>0, <2>4, <2>5
  <2> QED BY <2>6 DEF c
<1> QED BY <1>7, <1>8 DEF MovesOnly

-----------------------------------------------------------------------------
(* Rows of no negative quantity move no negative quantity. *)
LEMMA NetNotNegative ==
  ASSUME NEW rows \in Seq(Row), NEW c, \A i \in 1..Len(rows) : rows[i].qty >= 0
  PROVE  Net(rows, c) >= 0
<1> DEFINE n == Len(rows)
           S == {i \in 0..n : NetUpto(rows, i, c) >= 0}
<1>0. n \in Nat
  OBVIOUS
<1>1. 0 \in S
  BY <1>0, NetUptoStep
<1>2. ASSUME NEW i \in 1..n, i - 1 \in S
      PROVE  i \in S
  <2>1. /\ NetUpto(rows, i, c) = NetUpto(rows, i - 1, c) + Into(rows[i], c)
        /\ NetUpto(rows, i, c) \in Int /\ NetUpto(rows, i - 1, c) \in Int
    BY NetUptoStep
  <2>2. Into(rows[i], c) \in Int /\ Into(rows[i], c) >= 0
    <3>1. rows[i] \in Row
      OBVIOUS
    <3> QED BY <3>1 DEF Into, Row
  <2>3. NetUpto(rows, i - 1, c) >= 0 /\ i \in 0..n
    BY <1>0, <1>2
  <2> QED BY <2>1, <2>2, <2>3
<1> HIDE DEF S, n
<1>3. \A i \in 0..n : i \in S
  BY <1>0, <1>1, <1>2, SetInduction
<1>4. NetUpto(rows, n, c) >= 0
  BY <1>0, <1>3 DEF S
<1> QED BY <1>4, NetUptoStep DEF n

(* A cell that one row names gets what that row says. *)
LEMMA NetOfOne ==
  ASSUME NEW rows \in Seq(Row), NEW i \in 1..Len(rows),
         \A j \in 1..Len(rows) : j # i => rows[j].cell # rows[i].cell
  PROVE  Net(rows, rows[i].cell) = rows[i].qty
<1> DEFINE n == Len(rows)
           c == rows[i].cell
           f == [j \in 1..n |-> 0]
           h == [j \in 1..n |-> IF rows[j].cell = c THEN rows[j].qty ELSE 0]
<1>0. n \in Nat /\ \A j \in 1..n : rows[j].qty \in Int
  <2>1. \A j \in 1..n : rows[j] \in Row
    OBVIOUS
  <2> QED BY <2>1 DEF Row
<1>1. /\ \A j \in 1..n : f[j] = 0 /\ f[j] \in Int /\ h[j] \in Int
      /\ \A j \in 1..n : j # i => h[j] = f[j]
      /\ h[i] = rows[i].qty
  BY <1>0
<1>2. Net(rows, c) = SumTo(h, n)
  BY DEF Net
<1>3. i \in 1..n
  OBVIOUS
<1> HIDE DEF f, h, n, c
<1>4. SumTo(f, n) = 0
  BY <1>0, <1>1, SumZero
<1>5. SumTo(h, n) = SumTo(f, n) + (h[i] - f[i])
  <2>1. /\ \A j \in 1..n : f[j] \in Int /\ h[j] \in Int
        /\ \A j \in 1..n : j # i => h[j] = f[j]
    BY <1>1
  <2> QED BY <1>0, <1>3, <2>1, SumUpdate
<1>6. rows[i].qty \in Int
  BY <1>0, <1>3
<1>7. SumTo(h, n) = rows[i].qty
  BY <1>1, <1>3, <1>4, <1>5, <1>6
<1> QED BY <1>2, <1>7 DEF c

(* Taking the rows of a document that names each cell once out of balances *)
(* that hold each row leaves none of them negative.                        *)
LEMMA FloorKept ==
  ASSUME IInv, NEW d \in DocIds, EachRowOnHand(d), DistinctCells(d), NEW c \in Touched(d)
  PROVE  c \in Cells /\ balance[c] - Net(movement[d], c) >= 0
<1>1. movement[d] \in Seq(Row) /\ balance \in [Cells -> Int]
  BY DEF IInv, LedgerTypeOK
<1>2. PICK i \in 1..Len(movement[d]) : movement[d][i].qty # 0 /\ c = movement[d][i].cell
  BY DEF Touched
<1>3. movement[d][i] \in Row
  BY <1>1
<1>4. c \in Cells /\ movement[d][i].qty \in Int
  BY <1>2, <1>3 DEF Row
<1>5. Net(movement[d], c) = movement[d][i].qty
  BY <1>1, <1>2, NetOfOne DEF DistinctCells
<1>6. balance[c] >= movement[d][i].qty /\ balance[c] \in Int
  BY <1>1, <1>2, <1>4 DEF EachRowOnHand
<1> QED BY <1>4, <1>5, <1>6

-----------------------------------------------------------------------------
(* What a request does to the documents: it posts a new one, changes or    *)
(* deletes one, or leaves them alone.  Stock that came in is only taken    *)
(* out again after each row was found on hand, and a new transfer only     *)
(* moves stock.                                                            *)
TransferKinds == {"StockTransfer", "RackTransfer"}
Posts ==
  \E h, rows : CreateDoc(h, rows) /\ (h.kind \in TransferKinds => MovesOnly(h.godown))
Changes ==
  \E e \in DocIds : \E h :
    /\ doc' = [doc EXCEPT ![e] = h] /\ h.kind \notin TransferKinds
    /\ \A x \in DocIds : x # e => movement'[x] = movement[x]
    /\ \/ doc[e].kind \notin Inbound
       \/ movement' = movement
       \/ EachRowOnHand(e) /\ \A c \in Cells : balance'[c] >= balance[c] - Net(movement[e], c)
Handled == Posts \/ Changes \/ UNCHANGED <<movement, doc>>

(* A new document that is no transfer. *)
LEMMA PostIsHandled ==
  ASSUME NEW h, NEW rows, CreateDoc(h, rows), h.kind \notin TransferKinds
  PROVE  Handled
BY DEF Handled, Posts

(* A document whose rows are on hand goes, and they are taken out. *)
LEMMA DeleteIsHandled ==
  ASSUME IInv, NEW e \in DocIds, EachRowOnHand(e), balance' = Removed(balance, movement[e]),
         DeleteDoc(e)
  PROVE  Handled
<1>1. LedgerTypeOK /\ NoDoc.kind \notin TransferKinds
  BY HeaderType DEF IInv, TransferKinds
<1>2. /\ doc' = [doc EXCEPT ![e] = NoDoc]
      /\ \A x \in DocIds : x # e => movement'[x] = movement[x]
  BY <1>1 DEF DeleteDoc, WithoutRows, LedgerTypeOK
<1>3. \A c \in Cells : balance'[c] >= balance[c] - Net(movement[e], c)
  <2>1. \A c \in Cells : Net(movement[e], c) \in Int /\ balance[c] \in Int
    BY <1>1, NetType DEF LedgerTypeOK
  <2> QED BY <2>1 DEF Removed
<1> QED BY <1>1, <1>2, <1>3 DEF Handled, Changes

LEMMA PurchaseHandled ==
  ASSUME IInv, PurchaseNext
  PROVE  Handled
<1>0. LedgerTypeOK
  BY DEF IInv
<1>1. ASSUME NEW g \in Godowns, NEW lines \in LineSeqs, GrnCreate(g, lines)
      PROVE  Handled
  BY <1>1, PostIsHandled DEF GrnCreate, Document, TransferKinds
<1>2. ASSUME NEW d \in DocIds, GrnDelete(d) \/ PurchaseInvoiceDelete(d)
      PROVE  Handled
  BY <1>2, DeleteIsHandled DEF GrnDelete, PurchaseInvoiceDelete
<1>3. ASSUME NEW e \in EwayBills, EwayBillCreate(e) \/ EwayBillDelete(e)
      PROVE  Handled
  BY <1>3 DEF EwayBillCreate, EwayBillDelete, ledgerVars, Handled
<1>4. ASSUME NEW g \in Godowns, NEW lines \in LineSeqs, NEW e \in EwayBills \cup {NoEway},
             NEW grn \in DocIds \cup {NoRef}, PurchaseInvoiceCreate(g, lines, e, grn)
      PROVE  Handled
  BY <1>4, PostIsHandled DEF PurchaseInvoiceCreate, Document, TransferKinds
<1>5. ASSUME NEW d \in DocIds, NEW e \in EwayBills \cup {NoEway},
             NEW lines \in LineSeqs \cup {<< >>}, PurchaseInvoiceUpdate(d, e, lines)
      PROVE  Handled
  <2> DEFINE h == [doc[d] EXCEPT !.eway = e]
             rows == InRows(lines, doc[d].godown)
  <2>1. doc[d] \in Header /\ doc[d].kind = "PurchaseInvoice"
    BY <1>0, <1>5 DEF PurchaseInvoiceUpdate, LedgerTypeOK
  <2>2. h.kind \notin TransferKinds
    BY <2>1 DEF Header, TransferKinds
  <2>3. doc' = [doc EXCEPT ![d] = h]
    BY <1>0, <1>5 DEF PurchaseInvoiceUpdate, SwitchEway, LedgerTypeOK
  <2> HIDE DEF h
  <2>4. CASE UNCHANGED movement
    BY <2>2, <2>3, <2>4 DEF Handled, Changes
  <2>5. CASE lines # << >> /\ ReplaceLines(d, lines)
    <3>1. /\ EachRowOnHand(d) /\ Positive(lines)
          /\ balance' = Added(Removed(balance, movement[d]), rows)
          /\ movement' = [movement EXCEPT ![d] = rows]
      BY <2>5 DEF ReplaceLines
    <3>2. rows \in Seq(Row) /\ \A i \in 1..Len(rows) : rows[i].qty >= 0
      <4>1. lines \in LineSeqs /\ doc[d].godown \in Godowns
        BY <2>1, <2>5 DEF Header
      <4>2. rows \in Seq(Row)
        BY <4>1, PurchaseRows
      <4>3. Len(rows) = Len(lines) /\ \A i \in 1..Len(lines) : rows[i].qty = lines[i].qty
        BY <4>1, LinesType DEF InRows
      <4>4. \A i \in 1..Len(lines) : lines[i].qty \in Int /\ lines[i].qty > 0
        BY <3>1, <4>1, LinesType DEF Positive
      <4> HIDE DEF rows
      <4> QED BY <4>2, <4>3, <4>4
    <3> HIDE DEF rows
    <3>3. \A c \in Cells : balance'[c] >= balance[c] - Net(movement[d], c)
      <4> SUFFICES ASSUME NEW c \in Cells
                   PROVE  balance'[c] >= balance[c] - Net(movement[d], c)
        OBVIOUS
      <4>1. balance'[c] = (balance[c] - Net(movement[d], c)) + Net(rows, c)
        BY <3>1 DEF Added, Removed
      <4>2. balance[c] \in Int /\ Net(movement[d], c) \in Int /\ Net(rows, c) \in Int
        BY <1>0, <3>2, NetType DEF LedgerTypeOK
      <4>3. Net(rows, c) >= 0
        BY <3>2, NetNotNegative
      <4> QED BY <4>1, <4>2, <4>3
    <3>4. \A x \in DocIds : x # d => movement'[x] = movement[x]
      BY <1>0, <3>1 DEF LedgerTypeOK
    <3> QED BY <2>2, <2>3, <3>1, <3>3, <3>4 DEF Handled, Changes
  <2> QED BY <1>5, <2>4, <2>5 DEF PurchaseInvoiceUpdate
<1> QED BY <1>1, <1>2, <1>3, <1>4, <1>5 DEF PurchaseNext

LEMMA InventoryHandled ==
  ASSUME IInv, InventoryNext
  PROVE  Handled
<1>0. balance \in [Cells -> Int]
  BY DEF IInv, LedgerTypeOK
<1>1. ASSUME NEW g \in Godowns, NEW lines \in LineSeqs,
             StockOpeningCreate(g, lines) \/ AdjustmentCreate(g, lines)
      PROVE  Handled
  BY <1>1, PostIsHandled DEF StockOpeningCreate, AdjustmentCreate, Document, TransferKinds
<1>2. ASSUME NEW d \in DocIds, StockOpeningDelete(d) \/ AdjustmentDelete(d)
      PROVE  Handled
  BY <1>2, DeleteIsHandled DEF StockOpeningDelete, AdjustmentDelete, InventoryDocDelete
<1>3. ASSUME NEW from \in Godowns, NEW to \in Godowns, NEW lines \in LineSeqs,
             TransferCreate(from, to, lines)
      PROVE  Handled
  <2> DEFINE h == Document("StockTransfer", from, Len(lines), NoRef, NoEway)
  <2>1. TransferLines(lines)
    BY <1>3, LinesType DEF TransferCreate, TransferLines, Positive
  <2>2. MovesOnly(from)
    BY <1>0, <1>3, <2>1, TransferMoves DEF TransferCreate
  <2>3. CreateDoc(h, TransferRows(lines, from, to)) /\ h.godown = from
    BY <1>3 DEF TransferCreate, Document
  <2> HIDE DEF h
  <2> QED BY <2>2, <2>3 DEF Handled, Posts
<1>4. ASSUME NEW p \in Products, NEW r1 \in Racks, NEW r2 \in Racks, NEW q \in Quantities,
             RackStockTransfer(p, r1, r2, q)
      PROVE  Handled
  <2> DEFINE from == RackGodown[r1]
             to == RackGodown[r2]
             lines == <<[product |-> p, qty |-> q]>>
             rows == TransferRows(lines, from, to)
             h == Document("RackTransfer", from, 1, NoRef, NoEway)
  <2>1. CASE UNCHANGED ledgerVars
    BY <2>1 DEF ledgerVars, Handled
  <2>2. CASE /\ from # to /\ balance[<<p, from>>] >= q
             /\ CreateDoc(h, rows) /\ balance' = Added(balance, rows)
    <3>1. from \in Godowns /\ to \in Godowns /\ q \in Int /\ q > 0
      BY <1>4, StockConstants DEF RackStockTransfer
    <3>2. /\ Len(lines) = 1 /\ lines[1].product = p /\ lines[1].qty = q
          /\ \A i \in 1..Len(lines) : i = 1
      OBVIOUS
    <3>3. h.godown = from
      BY DEF Document
    <3> HIDE DEF lines, h
    <3>4. TransferLines(lines)
      BY <3>1, <3>2 DEF TransferLines
    <3>5. EachLineOnHand(lines, from, to)
      <4>1. rows \in Seq(Row)
        BY <3>1, <3>4, TransferRowsType DEF TransferLines
      <4>2. Net(SubSeq(rows, 1, 2 * (1 - 1)), <<p, from>>) = 0
        BY <4>1, NetUptoStep DEF NetUpto
      <4>3. balance[<<p, from>>] \in Int
        BY <1>0, <3>1 DEF Cells
      <4>4. balance[<<p, from>>] + Net(SubSeq(rows, 1, 2 * (1 - 1)), <<p, from>>) >= q
        BY <2>2, <4>2, <4>3
      <4> QED BY <3>2, <4>4 DEF EachLineOnHand
    <3>6. MovesOnly(from)
      BY <1>0, <2>2, <3>1, <3>4, <3>5, TransferMoves
    <3> HIDE DEF rows
    <3> QED BY <2>2, <3>3, <3>6 DEF Handled, Posts
  <2> QED BY <1>4, <2>1, <2>2 DEF RackStockTransfer
<1>5. ASSUME \/ \E p \in Products, r \in Racks, q \in Quantities : RackStockAdjust(p, r, q)
             \/ \E p \in Products, r \in Racks : RackStockDelete(p, r)
             \/ \E p \in Products, g \in Godowns, size \in Pieces : OffcutCreate(p, g, size)
             \/ \E o \in OffcutIds : OffcutUse(o) \/ OffcutDelete(o)
      PROVE  Handled
  BY <1>5 DEF RackStockAdjust, RackStockDelete, OffcutCreate, OffcutUse, OffcutDelete,
              ledgerVars, Handled
<1> QED BY <1>1, <1>2, <1>3, <1>4, <1>5 DEF InventoryNext

LEMMA SalesHandled ==
  ASSUME IInv, SalesNext
  PROVE  Handled
<1>0. LedgerTypeOK /\ NoDoc.kind \notin TransferKinds
  BY HeaderType DEF IInv, TransferKinds
<1>1. ASSUME \/ \E lines \in LineSeqs : InvoiceCreate(lines)
             \/ \E lines \in CounterLineSeqs : CounterInvoiceCreate(lines)
             \/ \E lines \in CuttingLineSeqs : CuttingEntryCreate(lines)
      PROVE  Handled
  <2>1. \A k, g, n : Document(k, g, n, NoRef, NoEway).kind = k
    BY DEF Document
  <2>2. \E k \in {"Invoice", "CounterInvoice", "CuttingEntry"} : \E n, rows :
          CreateDoc(Document(k, MainGodown, n, NoRef, NoEway), rows)
    BY <1>1 DEF InvoiceCreate, CounterInvoiceCreate, CuttingEntryCreate
  <2> QED BY <2>1, <2>2, PostIsHandled DEF TransferKinds
<1>2. ASSUME NEW d \in DocIds, InvoiceCancel(d) \/ CuttingEntryCancel(d) \/ InvoiceDelete(d)
      PROVE  Handled
  <2>1. /\ doc[d].kind \notin Inbound \cup TransferKinds
        /\ \A x \in DocIds : x # d => movement'[x] = movement[x]
    BY <1>0, <1>2 DEF InvoiceCancel, CuttingEntryCancel, InvoiceDelete, SalesInvoice, Inbound,
                      TransferKinds, WithoutRows, LedgerTypeOK
  <2>2. \E h : doc' = [doc EXCEPT ![d] = h] /\ h.kind \notin TransferKinds
    <3>1. CASE InvoiceDelete(d)
      BY <1>0, <3>1 DEF InvoiceDelete
    <3>2. CASE InvoiceCancel(d) \/ CuttingEntryCancel(d)
      <4> DEFINE h == [doc[d] EXCEPT !.status = "Cancelled"]
      <4>1. h.kind \notin TransferKinds
        BY <1>0, <2>1 DEF LedgerTypeOK, Header
      <4>2. doc' = [doc EXCEPT ![d] = h]
        BY <1>0, <3>2 DEF InvoiceCancel, CuttingEntryCancel, LedgerTypeOK
      <4> QED BY <4>1, <4>2
    <3> QED BY <1>2, <3>1, <3>2
  <2> QED BY <2>1, <2>2 DEF Handled, Changes
<1>3. ASSUME NEW d \in DocIds, NEW paper \in Papers,
             PaperCreate(d, paper) \/ PaperDelete(d, paper)
      PROVE  Handled
  BY <1>3 DEF PaperCreate, PaperDelete, ledgerVars, Handled
<1> QED BY <1>1, <1>2, <1>3 DEF SalesNext

LEMMA StepHandled == IInv /\ [Next]_vars => Handled
<1> SUFFICES ASSUME IInv, [Next]_vars PROVE Handled
  OBVIOUS
<1>1. CASE UNCHANGED vars
  BY <1>1 DEF vars, ledgerVars, Handled
<1> QED BY <1>1, PurchaseHandled, InventoryHandled, SalesHandled DEF Next

-----------------------------------------------------------------------------
(* Taking back a document that names each product once leaves none of its  *)
(* balances negative, whatever sales did to the others                     *)
(* (ReversalKeepsFloor).                                                   *)
THEOREM ReversalsKeepFloor == Spec => ReversalKeepsFloor
<1>1. IInv /\ [Next]_vars
        => [\A d \in DocIds : Reverses(d) /\ DistinctCells(d) =>
              \A c \in Touched(d) : balance'[c] >= 0]_vars
  <2> SUFFICES ASSUME IInv, IInv', Handled, NEW d \in DocIds, Reverses(d), DistinctCells(d),
                      NEW c \in Touched(d)
               PROVE  balance'[c] >= 0
    BY StepHandled, StepKeepsInv
  <2>0. /\ LedgerTypeOK /\ doc[d].kind \in Inbound /\ movement'[d] # movement[d]
        /\ doc[d].kind # "None"
    BY DEF IInv, Reverses, Inbound
  <2>1. CASE Posts
    <3>1. \A x \in DocIds : x # nextDoc => movement'[x] = movement[x]
      BY <2>0, <2>1 DEF Posts, CreateDoc, LedgerTypeOK
    <3>2. nextDoc \in DocIds => doc[nextDoc].kind = "None"
      BY DEF IInv, NoDocsAhead, LedgerTypeOK
    <3> QED BY <2>0, <3>1, <3>2
  <2>2. CASE Changes
    <3>1. /\ EachRowOnHand(d)
          /\ \A x \in Cells : balance'[x] >= balance[x] - Net(movement[d], x)
      BY <2>0, <2>2 DEF Changes
    <3>2. c \in Cells /\ balance[c] - Net(movement[d], c) >= 0
      BY <3>1, FloorKept
    <3>3. balance'[c] >= balance[c] - Net(movement[d], c)
      BY <3>1, <3>2
    <3>4. balance[c] \in Int /\ Net(movement[d], c) \in Int /\ balance'[c] \in Int
      <4>1. balance' \in [Cells -> Int]
        BY DEF IInv, LedgerTypeOK
      <4> QED BY <2>0, <3>2, <4>1, NetType DEF LedgerTypeOK
    <3> QED BY <3>2, <3>3, <3>4
  <2> QED BY <2>0, <2>1, <2>2 DEF Handled
<1> QED BY <1>1, InvHolds, PTL DEF Spec, ReversalKeepsFloor

(* A transfer between godowns, or across racks of two of them, moves stock *)
(* and makes none: the total of each product stays, and the godown it      *)
(* leaves is not overdrawn by it (TransferMovesStock).                     *)
THEOREM TransfersMoveStock == Spec => TransferMovesStock
<1>1. IInv /\ [Next]_vars
        => [\A d \in DocIds : Transfers(d) =>
              \A p \in Products :
                /\ Held(balance', p) = Held(balance, p)
                /\ LET from == <<p, doc'[d].godown>>
                   IN  balance'[from] < balance[from] => balance'[from] >= 0]_vars
  <2> SUFFICES ASSUME IInv, Handled, NEW d \in DocIds, Transfers(d)
               PROVE  MovesOnly(doc'[d].godown)
    BY StepHandled DEF MovesOnly
  <2>0. LedgerTypeOK /\ doc[d].kind = "None" /\ doc'[d].kind \in TransferKinds
    BY DEF IInv, Transfers, TransferKinds
  <2>1. CASE Posts
    <3>1. PICK h, rows : CreateDoc(h, rows) /\ (h.kind \in TransferKinds => MovesOnly(h.godown))
      BY <2>1 DEF Posts
    <3>2. doc' = [doc EXCEPT ![nextDoc] = h] /\ nextDoc \in DocIds
      BY <3>1 DEF CreateDoc
    <3>3. doc'[d] = h
      BY <2>0, <3>2 DEF LedgerTypeOK, TransferKinds
    <3> QED BY <2>0, <3>1, <3>3
  <2>2. CASE Changes
    BY <2>0, <2>2 DEF Changes, LedgerTypeOK, TransferKinds
  <2>3. CASE UNCHANGED <<movement, doc>>
    BY <2>0, <2>3 DEF TransferKinds
  <2> QED BY <2>1, <2>2, <2>3 DEF Handled
<1> QED BY <1>1, InvHolds, PTL DEF Spec, TransferMovesStock
=============================================================================
