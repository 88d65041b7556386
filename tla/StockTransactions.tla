-------------------------- MODULE StockTransactions --------------------------
(***************************************************************************)
(* The stock handlers statement by statement: concurrent requests, each in *)
(* one SQL Server transaction at the default isolation level, READ         *)
(* COMMITTED with locks.  A read of a row waits while another transaction  *)
(* holds it exclusively and keeps nothing afterwards; a write takes the    *)
(* row exclusively until the transaction ends; a transaction that fails    *)
(* anywhere puts every row back.                                           *)
(*                                                                         *)
(* What touches the balances falls into seven kinds of request.            *)
(*   Add      invoices, counter sales, cutting entries (negative           *)
(*            quantities), receipts, purchase invoices, opening entries    *)
(*   Count    a stock adjustment                                           *)
(*   Move     a stock transfer between godowns                             *)
(*   RackMove a rack transfer between racks of two godowns                 *)
(*   TakeBack the deletion of a receipt, purchase invoice, opening entry   *)
(*            or stock adjustment                                          *)
(*   Undo     the deletion of an invoice or the cancellation of a cutting  *)
(*            entry, which check no balance                                *)
(*   Edit     new lines for a purchase invoice: its rows are taken back as *)
(*            by a deletion, then the new ones booked                      *)
(* The first three draw a document number first (DocNumbering), which      *)
(* holds the document type's series row to the end.  A rack transfer holds *)
(* its two racks' rows; deletions and edits hold nothing until they write. *)
(***************************************************************************)
EXTENDS Sums, FiniteSets

CONSTANTS
  Requests,   \* the requests that arrive, each once
  Standing,   \* documents booked before
  Cells,      \* a product in a godown
  Series,     \* document types with a numbering series
  Racks,      \* a product in a rack
  Forms,      \* what a request may ask for
  BookedRows, \* the rows of the standing documents
  Opening,    \* the balances these have left
  NoRow,      \* a cell without a StockBalance row
  Nobody      \* the holder of a row that is not locked

Docs == Requests \cup Standing
Row == [cell : Cells, qty : Int]

ASSUME TransactionConstants ==
  /\ Requests \cap Standing = {}
  /\ Nobody \notin Requests
  /\ NoRow \notin Int
  /\ BookedRows \in [Standing -> Seq(Row)]
  /\ Opening \in [Cells -> Int \cup {NoRow}]
  /\ \A r \in Requests : \A form \in Forms[r] :
       /\ form.kind \in {"Add", "Count", "Move", "RackMove", "TakeBack", "Undo", "Edit"}
       /\ form.kind \in {"TakeBack", "Undo", "Edit"} => form.target \in Docs
       /\ form.kind \in {"Add", "Count", "Move"} => form.series \in Series
       /\ form.kind = "RackMove" => form.from \in Racks /\ form.to \in Racks
       /\ form.kind \notin {"TakeBack", "Undo"} =>
            form.lines \in Seq(Row) /\ form.lines # << >>

(* The rows that can be locked. *)
Resource == ((({"balance"} \X Cells) \cup ({"doc"} \X Docs)) \cup ({"series"} \X Series))
              \cup ({"rack"} \X Racks)

VARIABLES
  balance,  \* StockBalance as it stands, uncommitted changes included
  rows,     \* the committed StockMovement rows of each document
  booked,   \* the documents that exist, committed
  number,   \* the number each document was given, 0 for none
  next,     \* DocSeries.NextNumber as it stands
  lock,     \* who holds each row exclusively
  tx        \* each request's transaction

tables == <<balance, rows, booked, number, next>>
vars == <<tables, lock, tx>>

(* A transaction: the statement it is at, its request, the line or row it  *)
(* has come to, what it last read, the rows it has found and those it has  *)
(* posted, and what to put back if it fails: the balance each cell it      *)
(* changed had first, and the number it drew.  That a count wrote over a   *)
(* balance which was no longer what it had read is only remembered here    *)
(* (missed): the code does not know it.                                    *)
Fresh == [pc |-> "idle", form |-> [kind |-> "None"], line |-> 1, seen |-> 0,
          found |-> << >>, rows |-> << >>, missed |-> << >>, undo |-> << >>, drawn |-> 0]

OnHand(v) == IF v = NoRow THEN 0 ELSE v

(* A request that books under a number of its own, that works on a document*)
(* booked before, that removes it.                                         *)
HasNumber(form) == form.kind \in {"Add", "Count", "Move"}
HasTarget(form) == form.kind \in {"TakeBack", "Undo", "Edit"}
Deletes(form) == form.kind \in {"TakeBack", "Undo"}

(* What the rows it posts belong to. *)
Paper(t) == IF HasTarget(tx[t].form) THEN tx[t].form.target ELSE t

-----------------------------------------------------------------------------
(* Locks.  Each statement names the one row it needs. *)
Free(t, res) == lock[res] \in {Nobody, t}
Cell(t) == tx[t].form.lines[tx[t].line].cell
Needs(t) ==
  CASE tx[t].pc = "number" -> <<"series", tx[t].form.series>>
    [] tx[t].pc \in {"read", "write"} -> <<"balance", Cell(t)>>
    [] tx[t].pc \in {"check", "takeout"} -> <<"balance", tx[t].found[tx[t].line].cell>>
    [] tx[t].pc \in {"header", "find", "erase"} -> <<"doc", tx[t].form.target>>
    [] tx[t].pc = "rackout" -> <<"rack", tx[t].form.from>>
    [] tx[t].pc = "rackin" -> <<"rack", tx[t].form.to>>

Waiting(t) ==
  /\ tx[t].pc \in {"number", "rackout", "rackin", "read", "write",
                   "check", "takeout", "header", "find", "erase"}
  /\ ~ Free(t, Needs(t))
Lock(t, res) == lock' = [lock EXCEPT ![res] = t]

Active(t) == tx[t].pc \notin {"idle", "committed", "refused", "failed"}

(* Mutant of Release: the connection is not disposed of. *)
ReleaseNothing(t) == UNCHANGED lock

(* The end of a transaction, one way or another. *)
Release(t) == lock' = [res \in Resource |-> IF lock[res] = t THEN Nobody ELSE lock[res]]
End(t, how) == tx' = [tx EXCEPT ![t] = [Fresh EXCEPT !.pc = how]]

(* Mutant of RestoreSeries: the number a failed request drew is lost. *)
KeepSeries(t) == next

(* The series once t's draw is undone. *)
RestoreSeries(t) ==
  IF tx[t].drawn = 0 THEN next ELSE [next EXCEPT ![tx[t].form.series] = tx[t].drawn]

(* What t found first in each cell it has changed, once c is one of them.  *)
Undo(t, c) ==
  [d \in DOMAIN tx[t].undo \cup {c} |->
     IF d \in DOMAIN tx[t].undo THEN tx[t].undo[d] ELSE balance[d]]

(* Every balance t changed, back at what t found first. *)
Restored(t) ==
  [c \in Cells |->
     IF c \in DOMAIN tx[t].undo THEN tx[t].undo[c] ELSE balance[c]]

Rollback(t, how) ==
  /\ balance' = Restored(t)
  /\ next' = RestoreSeries(t)
  /\ Release(t)
  /\ End(t, how)
  /\ UNCHANGED <<rows, booked, number>>

-----------------------------------------------------------------------------
(* A handler opens its transaction. *)
FirstPC(form) ==
  IF HasNumber(form) THEN "number" ELSE IF HasTarget(form) THEN "header" ELSE "rackout"
Begin(t, form) ==
  /\ tx[t].pc = "idle"
  /\ tx' = [tx EXCEPT ![t].form = form, ![t].pc = FirstPC(form)]
  /\ UNCHANGED <<tables, lock>>

(* Mutant of Draw: the number is drawn outside the request's transaction,  *)
(* so the series row is not held to its end.                               *)
DrawUnlocked(t) == UNCHANGED lock

(* DocNumbering.NextNumber: the series row is read under UPDLOCK, HOLDLOCK *)
(* and counted up.                                                         *)
Draw(t) == Lock(t, <<"series", tx[t].form.series>>)
NextNumber(t) ==
  /\ tx[t].pc = "number"
  /\ ~ Waiting(t)
  /\ Draw(t)
  /\ next' = [next EXCEPT ![tx[t].form.series] = @ + 1]
  /\ tx' = [tx EXCEPT ![t].drawn = next[tx[t].form.series], ![t].pc = "read"]
  /\ UNCHANGED <<balance, rows, booked, number>>

(* A rack transfer first takes the quantity out of one rack's row and puts *)
(* it into the other's, both held to the end.  How much a rack holds is    *)
(* left open: it may be too little.                                        *)
RackOut(t) ==
  /\ tx[t].pc = "rackout"
  /\ ~ Waiting(t)
  /\ \/ /\ Lock(t, <<"rack", tx[t].form.from>>)
        /\ tx' = [tx EXCEPT ![t].pc = "rackin"]
        /\ UNCHANGED tables
     \/ Rollback(t, "refused")
RackIn(t) ==
  /\ tx[t].pc = "rackin"
  /\ ~ Waiting(t)
  /\ Lock(t, <<"rack", tx[t].form.to>>)
  /\ tx' = [tx EXCEPT ![t].pc = "read"]
  /\ UNCHANGED tables

(* Whether a transfer's line takes stock out of a godown that lacks it. *)
Short(t) == /\ tx[t].form.kind \in {"Move", "RackMove"}
            /\ tx[t].form.lines[tx[t].line].qty < 0
            /\ OnHand(balance[Cell(t)]) + tx[t].form.lines[tx[t].line].qty < 0

(* The SELECT before each line's write; a transfer that is short here is   *)
(* refused and rolled back.                                                *)
ReadBalance(t) ==
  /\ tx[t].pc = "read"
  /\ ~ Waiting(t)
  /\ \/ ~ Short(t) /\ tx' = [tx EXCEPT ![t].seen = balance[Cell(t)], ![t].pc = "write"]
                   /\ UNCHANGED <<tables, lock>>
     \/ Short(t) /\ Rollback(t, "refused")

(* After a line, or a row found: the next one, or the end. *)
Onward(t, again, last) ==
  IF tx[t].line < Len(IF tx[t].pc = "write" THEN tx[t].form.lines ELSE tx[t].found)
  THEN again ELSE last
Step(t) == IF Onward(t, TRUE, FALSE) THEN tx[t].line + 1 ELSE 1

(* The row a line posts: the quantity it moves, or the difference between  *)
(* its count and the balance it read.                                      *)
Posted(t) ==
  LET line == tx[t].form.lines[tx[t].line]
  IN  IF tx[t].form.kind = "Count" THEN [line EXCEPT !.qty = @ - OnHand(tx[t].seen)] ELSE line

(* A count that finds what it counts posts no row. *)
Booked(t) ==
  IF tx[t].form.kind = "Count" /\ Posted(t).qty = 0 THEN tx[t].rows
  ELSE Append(tx[t].rows, Posted(t))

(* By how much a count's row is off when the balance has changed since it  *)
(* was read.                                                               *)
Overwritten(t) ==
  IF tx[t].form.kind = "Count" /\ OnHand(tx[t].seen) # OnHand(balance[Cell(t)])
  THEN Append(tx[t].missed,
              [cell |-> Cell(t), qty |-> OnHand(tx[t].seen) - OnHand(balance[Cell(t)])])
  ELSE tx[t].missed

(* Mutant of Written: the sum is made from the balance that was read. *)
WrittenFromSeen(t) ==
  LET line == tx[t].form.lines[tx[t].line]
  IN  IF tx[t].form.kind = "Count" THEN line.qty ELSE OnHand(tx[t].seen) + line.qty

(* The balance a line's write leaves: counts overwrite, the others add to  *)
(* whatever is there by now.                                               *)
Written(t) ==
  LET line == tx[t].form.lines[tx[t].line]
  IN  IF tx[t].form.kind = "Count" THEN line.qty ELSE OnHand(balance[line.cell]) + line.qty

(* INSERT when the SELECT found no row, UPDATE otherwise, and the movement *)
(* row.  An INSERT fails on the unique key when the row has come into      *)
(* being meanwhile.                                                        *)
WriteBalance(t) ==
  /\ tx[t].pc = "write"
  /\ ~ Waiting(t)
  /\ \/ /\ tx[t].seen = NoRow /\ balance[Cell(t)] # NoRow
        /\ Rollback(t, "failed")
     \/ /\ tx[t].seen = NoRow => balance[Cell(t)] = NoRow
        /\ balance' = [balance EXCEPT ![Cell(t)] = Written(t)]
        /\ Lock(t, <<"balance", Cell(t)>>)
        /\ tx' = [tx EXCEPT ![t].undo = Undo(t, Cell(t)),
                            ![t].rows = Booked(t),
                            ![t].missed = Overwritten(t),
                            ![t].line = Step(t),
                            ![t].pc = Onward(t, "read", "commit")]
        /\ UNCHANGED <<rows, booked, number, next>>

-----------------------------------------------------------------------------
(* A deletion or an edit first looks for the document, then for its rows. *)
ReadHeader(t) ==
  /\ tx[t].pc = "header"
  /\ ~ Waiting(t)
  /\ \/ /\ tx[t].form.target \in booked
        /\ tx' = [tx EXCEPT ![t].pc = "find"]
        /\ UNCHANGED <<tables, lock>>
     \/ tx[t].form.target \notin booked /\ Rollback(t, "refused")

(* The target's own StockMovement rows. *)
Found(t) == rows[tx[t].form.target]
FindRows(t) ==
  /\ tx[t].pc = "find"
  /\ ~ Waiting(t)
  /\ tx' = [tx EXCEPT ![t].found = Found(t),
                      ![t].pc = IF Found(t) = << >> THEN "erase"
                                ELSE IF tx[t].form.kind = "Undo" THEN "takeout" ELSE "check"]
  /\ UNCHANGED <<tables, lock>>

(* Each row's balance is read; one that no longer covers the row refuses   *)
(* the deletion or the edit.                                               *)
CheckRow(t) ==
  /\ tx[t].pc = "check"
  /\ ~ Waiting(t)
  /\ LET row == tx[t].found[tx[t].line]
     IN  \/ /\ OnHand(balance[row.cell]) >= row.qty
            /\ tx' = [tx EXCEPT ![t].line = Step(t), ![t].pc = Onward(t, "check", "takeout")]
            /\ UNCHANGED <<tables, lock>>
         \/ OnHand(balance[row.cell]) < row.qty /\ Rollback(t, "refused")

(* Then each row is taken out of its balance, whatever that has become.    *)
TakeOut(t) ==
  /\ tx[t].pc = "takeout"
  /\ ~ Waiting(t)
  /\ LET row == tx[t].found[tx[t].line]
     IN  /\ balance' = [balance EXCEPT ![row.cell] = OnHand(@) - row.qty]
         /\ Lock(t, <<"balance", row.cell>>)
         /\ tx' = [tx EXCEPT ![t].undo = Undo(t, row.cell),
                             ![t].line = Step(t),
                             ![t].pc = Onward(t, "takeout", "erase")]
  /\ UNCHANGED <<rows, booked, number, next>>

(* The DELETE statements on the rows, and on the document when it is to go.*)
(* An edit goes on to its new lines; if the document has been deleted      *)
(* meanwhile, their foreign key on it refuses the first.                   *)
Erase(t) ==
  /\ tx[t].pc = "erase"
  /\ ~ Waiting(t)
  /\ \/ /\ Deletes(tx[t].form) \/ tx[t].form.target \in booked
        /\ Lock(t, <<"doc", tx[t].form.target>>)
        /\ tx' = [tx EXCEPT ![t].pc = IF Deletes(tx[t].form) THEN "commit" ELSE "read"]
        /\ UNCHANGED tables
     \/ /\ ~ (Deletes(tx[t].form) \/ tx[t].form.target \in booked)
        /\ Rollback(t, "failed")

-----------------------------------------------------------------------------
(* What a transaction leaves: its rows in the place of whatever stood there*)
(* before, and a document more, one less, or the same.                     *)
Commit(t) ==
  /\ tx[t].pc = "commit"
  /\ rows' = [rows EXCEPT ![Paper(t)] = tx[t].rows]
  /\ booked' = IF HasNumber(tx[t].form) THEN booked \cup {t}
               ELSE IF Deletes(tx[t].form) THEN booked \ {tx[t].form.target} ELSE booked
  /\ number' = IF HasNumber(tx[t].form) THEN [number EXCEPT ![t] = tx[t].drawn] ELSE number
  /\ Release(t)
  /\ tx' = [tx EXCEPT ![t].pc = "committed", ![t].undo = << >>]
  /\ UNCHANGED <<balance, next>>

(* A statement may fail or time out, and the server or its connection may  *)
(* go down, at any point of a transaction.                                 *)
Fail(t) == Active(t) /\ Rollback(t, "failed")

(* The requests that wait for each other in a ring; SQL Server rolls one   *)
(* of them back.                                                           *)
Holder(t) == lock[Needs(t)]
Deadlocked(t) ==
  \E ring \in SUBSET {r \in Requests : Waiting(r)} :
    t \in ring /\ {Holder(r) : r \in ring} = ring
Victim(t) == Deadlocked(t) /\ Rollback(t, "failed")

-----------------------------------------------------------------------------
Init ==
  /\ rows = [d \in Docs |-> IF d \in Standing THEN BookedRows[d] ELSE << >>]
  /\ balance = Opening
  /\ booked = Standing
  /\ number = [d \in Docs |-> 0]
  /\ next = [s \in Series |-> 1]
  /\ lock = [res \in Resource |-> Nobody]
  /\ tx = [t \in Requests |-> Fresh]

(* The statements of a transaction that is under way. *)
Statement(t) ==
  \/ NextNumber(t) \/ RackOut(t) \/ RackIn(t) \/ ReadBalance(t) \/ WriteBalance(t)
  \/ ReadHeader(t) \/ FindRows(t) \/ CheckRow(t) \/ TakeOut(t) \/ Erase(t)
  \/ Commit(t)

Next ==
  \/ \E t \in Requests : \E form \in Forms[t] : Begin(t, form)
  \/ \E t \in Requests : Statement(t)
  \/ \E t \in Requests : Fail(t)
  \/ \E t \in Requests : Victim(t)

(* A handler that has begun runs on, unless its thread, its connection or  *)
(* the server fails; the deadlock monitor breaks every ring.               *)
Fairness == \A t \in Requests : WF_vars(Statement(t)) /\ WF_vars(Victim(t))
Spec == Init /\ [][Next]_vars /\ Fairness

-----------------------------------------------------------------------------
(* What a balance is for everyone but a transaction that has not ended.    *)
Committed(c) ==
  LET t == lock[<<"balance", c>>]
  IN  IF t = Nobody THEN OnHand(balance[c])
      ELSE OnHand(tx[t].undo[c])

Books == INSTANCE StockAccount WITH book <- [c \in Cells |-> Committed(c)]

Commits(t) == tx[t].pc = "commit" /\ tx'[t].pc = "committed"

(* A request whose reads no longer held when it wrote: a count that wrote  *)
(* over a balance changed since it read it; a deletion or an edit whose    *)
(* document another deletion or edit has changed since it found its rows.  *)
Stale(t) ==
  \/ tx[t].missed # << >>
  \/ /\ HasTarget(tx[t].form) /\ tx[t].found # rows[tx[t].form.target]
     /\ \E u \in Requests \ {t} : /\ tx[u].pc = "committed" /\ HasTarget(tx[u].form)
                                  /\ tx[u].form.target = tx[t].form.target

(* What a commit then does to the books: its rows replace those that stand,*)
(* but what leaves the balances is what it had found.                      *)
Parts(t) ==
  /\ rows' = [rows EXCEPT ![Paper(t)] = tx[t].rows]
  /\ \A c \in Cells :
       Committed(c)' = Committed(c) - Net(tx[t].found, c) + Net(tx[t].rows, c)
                         + Net(tx[t].missed, c)

(* However their statements interleave, block, deadlock and fail, requests *)
(* change the committed books one document at a time, balances and rows    *)
(* together, each by the difference of its rows (StockAccount).  Nothing   *)
(* but a stale read can part the two: a count overtaken by any booking, or *)
(* a deletion or edit overtaken by another of the same document; these     *)
(* part them by exactly what was read too early.                           *)
BooksFollowDocuments ==
  [][\E t \in Requests : /\ Commits(t)
                         /\ Books!Repost(Paper(t)) \/ (Stale(t) /\ Parts(t))
    ]_(Books!accountVars)

(* Which requests put stock into a cell, take it out, or move it on: a     *)
(* line's quantity does, a count may do either, and what a document put in *)
(* its deletion or edit takes out again.                                   *)
Gives(form, c) ==
  /\ ~ Deletes(form)
  /\ \E i \in 1..Len(form.lines) :
       form.lines[i].cell = c /\ (form.kind = "Count" \/ form.lines[i].qty > 0)
HasPutIn(d, c) ==
  \/ d \in Standing /\ \E i \in 1..Len(BookedRows[d]) :
                         BookedRows[d][i].cell = c /\ BookedRows[d][i].qty > 0
  \/ \E t \in Requests : \E form \in Forms[t] :
       /\ IF HasTarget(form) THEN form.target = d ELSE t = d
       /\ Gives(form, c)
Lowers(form, c) ==
  \E i \in 1..Len(form.lines) : form.lines[i].cell = c /\ form.lines[i].qty < 0
TakesOut(form, c) ==
  \/ form.kind \in {"Add", "RackMove", "Edit"} /\ Lowers(form, c)
  \/ form.kind = "Count" /\ \E i \in 1..Len(form.lines) : form.lines[i].cell = c
  \/ HasTarget(form) /\ HasPutIn(form.target, c)
MovesOut(form, c) == form.kind = "Move" /\ Lowers(form, c)

(* Transfers out of c that draw from two series, as one before and one     *)
(* after the end of a financial year do.                                   *)
TwoSeries(c) ==
  \E t, u \in Requests : \E f \in Forms[t], g \in Forms[u] :
    t # u /\ MovesOut(f, c) /\ MovesOut(g, c) /\ f.series # g.series

(* Stock transfers alone never overdraw a godown, although their check     *)
(* holds no lock on the balance: another one must first get the series row.*)
(* Below zero is only what was so before, or where some other request has  *)
(* taken stock out in between: a sale or cutting, a count, a deletion or   *)
(* edit of what put it there, or a rack transfer, which checks just the    *)
(* same but holds no row that a second one, or a stock transfer, has to    *)
(* wait for.                                                               *)
MovesNeverOverdraw ==
  \A c \in Cells : OnHand(balance[c]) < 0 =>
    \/ OnHand(Opening[c]) < 0
    \/ TwoSeries(c)
    \/ \E t \in Requests : TakesOut(tx[t].form, c)

(* The numbers of the documents of a series are 1, 2, ... without a gap or *)
(* a repetition, whatever fails in between ("unbroken document numbering   *)
(* per branch per financial year", DocNumbering).                          *)
Numbered(s) ==
  {t \in Requests : tx[t].pc = "committed" /\ HasNumber(tx[t].form) /\ tx[t].form.series = s}
NumbersUnbroken ==
  \A s \in Series :
    {number[t] : t \in Numbered(s)} = 1..Cardinality(Numbered(s))

(* Every request that begins ends: committed, refused or rolled back, for  *)
(* no ring of waiting requests outlives the deadlock monitor.              *)
EveryRequestEnds == \A t \in Requests : Active(t) ~> ~ Active(t)

(* A deletion that commits has taken back the rows that stood until then:  *)
(* "deleting it must reverse exactly what it added (found from its own     *)
(* Inventory.StockMovement rows, not recomputed)" (GrnController.Delete).  *)
ReversesWhatStands ==
  [][\A t \in Requests : Commits(t) /\ Deletes(tx[t].form) =>
       tx[t].found = rows[tx[t].form.target]]_vars
=============================================================================
