------------------------ MODULE MCStockTransactions ------------------------
(***************************************************************************)
(* Instances of StockTransactions for TLC: two cells a and b, of which a   *)
(* has racks, a few standing documents, and for each request what it may   *)
(* ask for.                                                                *)
(***************************************************************************)
EXTENDS StockTransactions, TLC

CONSTANTS a, b, t1, t2, t3, t4, s1, s2

In(cell, q) == [cell |-> cell, qty |-> q]
Creation(kind, series, lines) == [kind |-> kind, series |-> series, lines |-> lines]
Deletion(kind, d) == [kind |-> kind, target |-> d]

(* A purchase of three sheets into a, and a sale of one of them, which may *)
(* not stand at the start.                                                 *)
MCBooked == [d \in Standing |-> IF d = s1 THEN <<In(a, 1), In(a, 2)>> ELSE <<In(a, -1)>>]
MCOpening == [k \in Cells |-> IF k # a THEN NoRow ELSE IF s2 \in Standing THEN 2 ELSE 3]

Across(from, to, q) == <<In(from, 0 - q), In(to, q)>>
Transfer(from, to, q) == Creation("Move", "StockTransfer", Across(from, to, q))
RackTransfer(x, y, q) ==
  [kind |-> "RackMove", from |-> x, to |-> y, lines |-> Across(a, b, q)]
Sale(lines) == Creation("Add", "Invoice", lines)
Revision(d, lines) == [kind |-> "Edit", target |-> d, lines |-> lines]

(* Transfers by godown and by rack that want all there is in a; the        *)
(* deletion of the purchase that filled a and two edits of it; a count of  *)
(* a; a sale that touches the cells in the other order; the deletion of an *)
(* invoice booked before and of that sale.                                 *)
MixedForms ==
  t1 :> {Transfer(a, b, 2), Deletion("TakeBack", s1), Revision(s1, <<In(a, 2)>>),
         Creation("Count", "StockAdjustment", <<In(a, 1)>>)} @@
  t2 :> {Transfer(a, b, 1), RackTransfer("A1", "B1", 2), Deletion("Undo", s2),
         Revision(s1, <<In(a, 1)>>)} @@
  t3 :> {Sale(<<In(b, -1), In(a, -1)>>)} @@
  t4 :> {RackTransfer("A2", "B2", 2), Deletion("Undo", t3)}

(* One document deleted by two requests at a time. *)
TwiceForms ==
  t1 :> {Deletion("TakeBack", s1)} @@ t2 :> {Deletion("TakeBack", s1)} @@
  t3 :> {Creation("Add", "Grn", <<In(a, 2)>>)}
=============================================================================
