---------------------------- MODULE ScreenCache ----------------------------
(***************************************************************************)
(* What a page shows is the answer of a query, kept by the query library   *)
(* until a mutation calls it invalid.  One query and one mutation that     *)
(* changes what it shows; the user goes from page to page, other calls     *)
(* come and go, answers are late or lost.                                  *)
(***************************************************************************)
EXTENDS Endpoints, Pages

CONSTANTS
  Writes       \* bound: mutations applied

ASSUME CacheConstants == Writes \in Nat

VARIABLES
  pair,      \* the query, the mutation, and whether one page has both
  at,        \* the page the user is on: one that shows the query, one that calls the
             \* mutation, or another one
  entry,     \* the answer kept for the query, and the fetch of a new one
  written,   \* how often the server has applied the mutation
  call,      \* the mutation under way
  other,     \* another call of the client is under way
  held       \* an invalidation waits until no call is under way

vars == <<pair, at, entry, written, call, other, held>>

Callable(p) == PageOf[p].list.acts \cup {PageOf[p].form.create, PageOf[p].form.update}
Pairs ==
  LET shown  == UNION {PageOf[p].list.shows : p \in AllPages}
      called == UNION {Callable(p) : p \in AllPages} \cap Mutations
  IN  {c \in [query : shown, mutation : called, here : BOOLEAN] :
         /\ Changes(c.mutation, c.query)
         /\ c.here => \E p \in AllPages : /\ c.query \in PageOf[p].list.shows
                                          /\ c.mutation \in Callable(p)}

Confirmed == \E p \in AllPages : pair.mutation \in PageOf[p].list.asks
Reading == at = "reader"
Writing == at = IF pair.here THEN "reader" ELSE "writer"
NoEntry == [st |-> "none", data |-> FALSE, has |-> 0, got |-> 0, err |-> FALSE]

TypeOK ==
  /\ pair \in Pairs
  /\ at \in {"reader", "writer", "away"}
  /\ entry \in [st : {"none", "asked", "read", "held"}, data : BOOLEAN, has : 0..Writes,
                got : 0..Writes, err : BOOLEAN]
  /\ written \in 0..Writes
  /\ call \in {"idle", "asking", "sent", "applied"}
  /\ other \in BOOLEAN /\ held \in BOOLEAN

-----------------------------------------------------------------------------
(* The library.  Tags called invalid wait while any query or mutation is   *)
(* under way; then what is on show is fetched again and what nobody shows  *)
(* is dropped.                                                             *)
Pending(e, c, o) == e.st \in {"asked", "read"} \/ c \in {"sent", "applied"} \/ o

(* Mutant of Waits: a tag is called invalid at once; a fetch under way is  *)
(* not started again.                                                      *)
WaitsForNone(e, c, o) == FALSE

Waits(e, c, o) == Pending(e, c, o)
Fetching(e) == [e EXCEPT !.st = IF @ = "held" \/ @ = "none" THEN "asked" ELSE @]
Invalidated(e) ==
  IF e.st = "none" THEN e ELSE IF Reading THEN Fetching(e) ELSE NoEntry
Settle(e, c, o, h) ==
  /\ held' = (h /\ Waits(e, c, o))
  /\ entry' = IF h /\ ~ Waits(e, c, o) THEN Invalidated(e) ELSE e

ServerReads ==
  /\ entry.st = "asked"
  /\ entry' = [entry EXCEPT !.st = "read", !.got = written]
  /\ UNCHANGED <<pair, at, written, call, other, held>>

Answered ==
  /\ entry.st = "read"
  /\ Settle([entry EXCEPT !.st = "held", !.data = TRUE, !.has = entry.got, !.err = FALSE],
            call, other, held)
  /\ UNCHANGED <<pair, at, written, call, other>>

(* A fetch that fails leaves the answer before it on show.                 *)
FetchFails ==
  /\ entry.st \in {"asked", "read"}
  /\ Settle([entry EXCEPT !.st = IF entry.data THEN "held" ELSE "none", !.err = TRUE],
            call, other, held)
  /\ UNCHANGED <<pair, at, written, call, other>>

(* An answer nobody shows is dropped after a minute.                       *)
Expire ==
  /\ ~ Reading
  /\ entry.st \in {"held", "none"}
  /\ entry' = NoEntry
  /\ UNCHANGED <<pair, at, written, call, other, held>>

(* Mutant of OtherEnds: the end of another call lets nothing through.      *)
OtherEndsUnheard ==
  /\ other
  /\ other' = FALSE
  /\ UNCHANGED <<pair, at, entry, written, call, held>>

OtherStarts ==
  /\ ~ other
  /\ other' = TRUE
  /\ UNCHANGED <<pair, at, entry, written, call, held>>
OtherEnds ==
  /\ other
  /\ other' = FALSE
  /\ Settle(entry, call, FALSE, held)
  /\ UNCHANGED <<pair, at, written, call>>

-----------------------------------------------------------------------------
(* The user.  A page that is opened asks only for what is not kept.        *)
Go(to) ==
  /\ to # at
  /\ call # "asking"
  /\ at' = to
  /\ entry' = IF to = "reader" /\ ~ entry.data THEN Fetching(entry) ELSE entry
  /\ UNCHANGED <<pair, written, call, other, held>>

Press ==
  /\ Writing
  /\ call = "idle"
  /\ written < Writes
  /\ call' = IF Confirmed THEN "asking" ELSE "sent"
  /\ UNCHANGED <<pair, at, entry, written, other, held>>
Confirm(yes) ==
  /\ call = "asking"
  /\ call' = IF yes THEN "sent" ELSE "idle"
  /\ UNCHANGED <<pair, at, entry, written, other, held>>

(* Mutant of Apply: a call is sent again though it has been applied.       *)
AppliedAgain ==
  /\ call \in {"sent", "applied"}
  /\ call' = "applied"
  /\ written' = written + 1
  /\ UNCHANGED <<pair, at, entry, other, held>>

Apply ==
  /\ call = "sent"
  /\ call' = "applied"
  /\ written' = written + 1
  /\ UNCHANGED <<pair, at, entry, other, held>>

(* A mutation that was refused, or whose answer is lost, calls its tags    *)
(* invalid like one that succeeded.                                        *)
CallEnds ==
  /\ call \in {"sent", "applied"}
  /\ call' = "idle"
  /\ Settle(entry, "idle", other, held \/ Told(pair.mutation, pair.query))
  /\ UNCHANGED <<pair, at, written, other>>

-----------------------------------------------------------------------------
Init ==
  /\ pair \in Pairs
  /\ at = "away"
  /\ entry = NoEntry
  /\ written = 0
  /\ call = "idle"
  /\ other = FALSE
  /\ held = FALSE

Next ==
  \/ ServerReads \/ Answered \/ FetchFails \/ Expire
  \/ OtherStarts \/ OtherEnds
  \/ \E to \in {"reader", "writer", "away"} : Go(to)
  \/ Press \/ (\E yes \in BOOLEAN : Confirm(yes)) \/ Apply \/ CallEnds

(* Every call ends, with an answer or without.                             *)
Fairness == WF_vars(ServerReads) /\ WF_vars(Answered) /\ WF_vars(OtherEnds) /\ WF_vars(CallEnds)
Spec == Init /\ [][Next]_vars /\ Fairness
-----------------------------------------------------------------------------
(* The writes a query is not told of.  Reports, receivables, vehicles and  *)
(* the gateways' log are kept under no tag.  The lists of products,        *)
(* customers and suppliers are not told of documents about them, nor are   *)
(* the categories and types of products.  Of the pairs some matter little  *)
(* (a job card, by which its work order changes, not its sales order).     *)
DocumentsOnly ==
  [listProducts |-> "Product", listCustomers |-> "Customer", listSuppliers |-> "Supplier"]
SilentPairs ==
  ({"createProduct", "updateProduct", "deleteProduct"}
     \X {"listCategories", "listSubCategories", "listTypes"})
  \cup ({"createCategory", "deleteCategory"} \X {"listSubCategories"})
  \cup ({"updatePurchaseInvoice", "createInvoice", "deleteInvoice", "deleteProduct"}
          \X {"stockEnquiry"})
  \cup ({"createCuttingEntry", "deleteCuttingEntry", "deleteProduct"} \X {"listRackStock"})
  \cup ({"createCustomer", "updateCustomer", "deleteCustomer", "createQuotation",
         "createProduct", "updateProduct", "deleteProduct", "deleteWaybill",
         "generateEInvoice", "cancelEInvoice", "generateEwayBill", "cancelEwayBill"}
          \X {"getSummary"})
  \cup ({"generateEInvoice", "cancelEInvoice"}
          \X {"listInvoices", "listSalesOrders", "getSalesOrder"})
  \cup ({"createVoucher", "createVoucherSplit", "updateVoucher", "deleteVoucher",
         "createComplaint", "resolveComplaint", "deleteComplaint", "createWaybill",
         "deleteWaybill", "generateEwayBill", "cancelEwayBill"} \X {"listInvoices", "getInvoice"})
  \cup ({"generateEwayBill", "cancelEwayBill"} \X {"listWaybills"})
  \cup ({"generateEwayBill", "createCuttingPlan", "createJobCard", "deleteJobCard"}
          \X {"listSalesOrders", "getSalesOrder"})
  \cup ({"createWorkOrder", "deleteWorkOrder"} \X {"listQuotations", "getQuotation"})
  \cup ({"uploadCuttingEntryDesign", "deleteCuttingEntryDesign"} \X {"listCuttingEntries"})
  \cup ({"updatePurchaseInvoice"} \X {"listGrns", "getGrn"})
  \cup {<<"createInvoice", "listOffcuts">>, <<"createQuotation", "listCustomers">>,
        <<"deactivateEmployee", "listUsers">>, <<"finishJobCard", "listWorkOrders">>}
Silent(m, q) ==
  \/ EndpointOf[q].tags = {}
  \/ <<m, q>> \in SilentPairs
  \/ q \in DOMAIN DocumentsOnly /\ DocumentsOnly[q] \notin EndpointOf[m].tables

(* Every other write is told to the query, by a tag they share.            *)
ASSUME WritesTold ==
  \A c \in Pairs : Told(c.mutation, c.query) \/ Silent(c.mutation, c.query)

UpToDate == entry.has = written \/ entry.err \/ Silent(pair.mutation, pair.query)

(* Once no call is under way, what is on show has every write of this      *)
(* client in it, wherever the user was when it was made and whatever was   *)
(* being fetched then; writes the query is not told of, and a fetch that   *)
(* failed, are the exceptions.                                             *)
ShowsOwnWrites ==
  Reading /\ entry.st = "held" /\ ~ Pending(entry, call, other) => UpToDate

(* Calls that overlap without end keep an invalidation waiting.  Otherwise *)
(* a write of this client comes to show on the page the user stays on,     *)
(* however many other calls there are.                                     *)
OwnWriteComesToShow ==
  <>[](call = "idle") => ((Reading /\ written > 0) ~> (~ Reading \/ UpToDate))
=============================================================================
