---------------------------- MODULE StockAccount ----------------------------
(***************************************************************************)
(* What the stock tables promise: a book of quantities and, per document,  *)
(* the rows that explain it.  One step changes the rows of one document    *)
(* and moves the book by exactly the difference.  StockLedger (whole       *)
(* requests) and StockTransactions (their SQL statements, interleaved)     *)
(* both implement it.                                                      *)
(***************************************************************************)
EXTENDS Sums

CONSTANTS Cells,   \* a product in a godown
          Docs     \* document ids

VARIABLES book, rows

accountVars == <<book, rows>>

Open == book \in [Cells -> Int]

(* The rows of document d become those of the new table: posted, replaced  *)
(* or taken back.                                                          *)
Repost(d) ==
  /\ rows' = [rows EXCEPT ![d] = rows'[d]]
  /\ book' = [c \in Cells |-> book[c] - Net(rows[d], c) + Net(rows'[d], c)]

Account == Open /\ [][\E d \in Docs : Repost(d)]_accountVars
=============================================================================
