---------------------------- MODULE CounterSync ----------------------------
(***************************************************************************)
(* Counter sales between one browser and the server.  The counter page     *)
(* posts a sale at once or, without a network, puts it into an outbox in   *)
(* IndexedDB; passes of the sync engine (flushOutbox) post what waits      *)
(* there.  Every post of one sale carries the same Idempotency-Key, which  *)
(* CounterInvoicesController.Create looks up before, and inserts within,   *)
(* the transaction that books the invoice.                                 *)
(*                                                                         *)
(* Every await is a place where other code runs: a second pass, the page,  *)
(* other requests.  A request or its answer may be lost, and a request the *)
(* client has given up may still be carried out.                           *)
(***************************************************************************)
EXTENDS Naturals, FiniteSetsExt

CONSTANTS
  Sales,       \* counter sales, numbered in the order they are captured
  Passes,      \* bound: passes of flushOutbox that run at one time
  Slots,       \* bound: calls the server works on at one time
  Page,        \* the counter page, as the sender of a call
  Nobody,      \* the sender of a call that has been given up
  MaxFailures, \* bound: lost messages, failed probes, server errors and closings
  Mishaps      \* "close": the browser may close; "expire": a day may pass

ASSUME SyncConstants ==
  /\ Sales \subseteq Nat /\ Slots \subseteq Nat
  /\ Page \notin Passes \cup {Nobody} /\ Nobody \notin Passes
  /\ MaxFailures \in Nat
  /\ Mishaps \subseteq {"close", "expire"}

VARIABLES
  item,      \* IndexedDB: a sale's outbox item, "none" without one
  page,      \* what the counter page has told the cashier about a sale
  pass,      \* the passes of flushOutbox
  flushing,  \* the flag that is to keep passes apart
  call,      \* the calls at the server
  idem,      \* Security.IdempotencyKey, by sale
  invoices,  \* the number of invoices booked for a sale
  discarded, \* the sales whose failed item the cashier threw away
  failures   \* how many of MaxFailures have happened

client == <<item, page, pass, flushing, discarded>>
server == <<idem, invoices>>
vars == <<client, call, server, failures>>

Idle == [pc |-> "idle", queue |-> {}, to |-> "syncing"]
Free == [at |-> "free", sale |-> 0, by |-> Nobody, synced |-> FALSE]
Answers == {"201", "422", "500"}

(* The type invariant; a pass that is past its list has an item in hand.   *)
AtItem == {"get", "put", "send", "wait", "remove"}
TypeOK ==
  /\ item \in [Sales -> {"none", "pending", "syncing", "error"}]
  /\ page \in [Sales -> {"new", "posting", "billed", "refused", "queued", "closed"}]
  /\ pass \in [Passes -> [pc : {"idle", "probe", "list"} \cup AtItem,
                          queue : SUBSET Sales, to : {"syncing", "pending", "error"}]]
  /\ \A p \in Passes : pass[p].pc \in AtItem => pass[p].queue # {}
  /\ flushing \in BOOLEAN
  /\ call \in [Slots -> [at : {"free", "lookup", "checks", "bill", "notify"} \cup Answers,
                         sale : Sales \cup {0}, by : Passes \cup {Page, Nobody},
                         synced : BOOLEAN]]
  /\ idem \in [Sales -> {"none", "live", "expired"}]
  /\ invoices \in [Sales -> Nat]
  /\ discarded \subseteq Sales
  /\ failures \in 0..MaxFailures

Fails == failures < MaxFailures /\ failures' = failures + 1

-----------------------------------------------------------------------------
(* Calls, seen from the client.                                            *)
CallsOf(s) == {c \in Slots : call[c].by = s}

Post(s, k) ==
  \E c \in Slots :
    /\ call[c] = Free
    /\ \A b \in Slots : b < c => call[b] # Free
    /\ call' = [call EXCEPT ![c] = [at |-> "lookup", sale |-> k, by |-> s, synced |-> s # Page]]

(* The call s waits for has been answered. *)
Answered(s, answers) ==
  \E c \in CallsOf(s) :
    /\ call[c].at \in answers
    /\ call' = [call EXCEPT ![c] = Free]
    /\ UNCHANGED failures

(* s sees a network error.  The server may carry the call out all the same.*)
Forgotten(c) == IF call[c].at \in Answers THEN Free ELSE [call[c] EXCEPT !.by = Nobody]
NetworkError(s) ==
  /\ Fails
  /\ \E c \in CallsOf(s) : call' = [call EXCEPT ![c] = Forgotten(c)]

-----------------------------------------------------------------------------
(* CounterBillingPage.handleSubmit: a new sale is posted when the app      *)
(* believes to be online, queued when not; one sale at a time.             *)
Turn(k) ==
  /\ page[k] = "new"
  /\ \A j \in Sales : page[j] # "posting"
  /\ \A j \in Sales : j < k => page[j] # "new"

SubmitOnline(k) ==
  /\ Turn(k)
  /\ Post(Page, k)
  /\ page' = [page EXCEPT ![k] = "posting"]
  /\ UNCHANGED <<item, pass, flushing, discarded, server, failures>>

Enqueue(k) ==
  /\ item' = [item EXCEPT ![k] = "pending"]
  /\ page' = [page EXCEPT ![k] = "queued"]
  /\ UNCHANGED <<pass, flushing, discarded, server>>

SubmitOffline(k) == Turn(k) /\ Enqueue(k) /\ UNCHANGED <<call, failures>>

(* An answer with a status is shown; only a network error queues the sale. *)
PageAnswered(k) ==
  /\ page[k] = "posting"
  /\ \/ /\ Answered(Page, {"201"})
        /\ page' = [page EXCEPT ![k] = "billed"]
     \/ /\ Answered(Page, {"422", "500"})
        /\ page' = [page EXCEPT ![k] = "refused"]
  /\ UNCHANGED <<item, pass, flushing, discarded, server>>

PageDropped(k) == page[k] = "posting" /\ NetworkError(Page) /\ Enqueue(k)

(* The cashier throws a failed item away. *)
Discard(k) ==
  /\ item[k] = "error"
  /\ item' = [item EXCEPT ![k] = "none"]
  /\ discarded' = discarded \cup {k}
  /\ UNCHANGED <<page, pass, flushing, call, server, failures>>

-----------------------------------------------------------------------------
(* flushOutbox, from "Sync now" or a change to online.                     *)
passFrame == <<page, discarded, server>>

StartPass(p) ==
  /\ pass[p].pc = "idle"
  /\ ~ flushing
  /\ pass' = [pass EXCEPT ![p].pc = "probe"]
  /\ UNCHANGED <<item, flushing, call, failures, passFrame>>

(* The flag is raised only when the probe has been answered. *)
Probe(p) ==
  /\ pass[p].pc = "probe"
  /\ \/ /\ flushing' = TRUE
        /\ pass' = [pass EXCEPT ![p].pc = "list"]
        /\ UNCHANGED failures
     \/ /\ Fails
        /\ pass' = [pass EXCEPT ![p] = Idle]
        /\ UNCHANGED flushing
  /\ UNCHANGED <<item, call, passFrame>>

(* Mutant of Continue: nothing lowers the flag again. *)
ContinueFlagUp(p, q) ==
  /\ pass' = [pass EXCEPT ![p] =
                IF q = {} THEN Idle ELSE [pc |-> "get", queue |-> q, to |-> "syncing"]]
  /\ UNCHANGED flushing

(* Mutant of Continue: a pass does not notice that it has come to the end. *)
ContinuePastEnd(p, q) ==
  /\ pass' = [pass EXCEPT ![p] = [pc |-> "get", queue |-> q, to |-> "syncing"]]
  /\ flushing' = IF q = {} THEN FALSE ELSE flushing

(* A pass goes on with the items q, or ends when none is left. *)
Continue(p, q) ==
  /\ pass' = [pass EXCEPT ![p] =
                IF q = {} THEN Idle ELSE [pc |-> "get", queue |-> q, to |-> "syncing"]]
  /\ flushing' = IF q = {} THEN FALSE ELSE flushing

(* The items a pass takes up; sales are numbered in the order of their     *)
(* capture, so the one in hand is the first that is left.                  *)
Listed == {k \in Sales : item[k] = "pending"}
List(p) ==
  /\ pass[p].pc = "list"
  /\ Continue(p, Listed)
  /\ UNCHANGED <<item, call, failures, passFrame>>

Current(p) == Min(pass[p].queue)
Others(p) == pass[p].queue \ {Current(p)}

(* Once an item has its new status: "syncing" is posted, a failed item is  *)
(* left, an item put back to "pending" ends the pass.                      *)
AfterUpdate(p) ==
  \/ /\ pass[p].to = "syncing"
     /\ pass' = [pass EXCEPT ![p].pc = "send"]
     /\ UNCHANGED flushing
  \/ pass[p].to = "error" /\ Continue(p, Others(p))
  \/ pass[p].to = "pending" /\ Continue(p, {})

(* updateOutboxItem reads the item and then, in a second transaction of    *)
(* IndexedDB, writes it with the new status; an item that is gone stays so.*)
GetItem(p) ==
  /\ pass[p].pc = "get"
  /\ \/ /\ item[Current(p)] # "none"
        /\ pass' = [pass EXCEPT ![p].pc = "put"]
        /\ UNCHANGED flushing
     \/ item[Current(p)] = "none" /\ AfterUpdate(p)
  /\ UNCHANGED <<item, call, failures, passFrame>>

PutItem(p) ==
  /\ pass[p].pc = "put"
  /\ item' = [item EXCEPT ![Current(p)] = pass[p].to]
  /\ AfterUpdate(p)
  /\ UNCHANGED <<call, failures, passFrame>>

SendItem(p) ==
  /\ pass[p].pc = "send"
  /\ Post(p, Current(p))
  /\ pass' = [pass EXCEPT ![p].pc = "wait"]
  /\ UNCHANGED <<item, flushing, failures, passFrame>>

(* Mutant of Settle: a server error, too, settles the item. *)
SettleOnAnyAnswer(p) ==
  \/ /\ Answered(p, {"201", "500"})
     /\ pass' = [pass EXCEPT ![p].pc = "remove"]
  \/ /\ Answered(p, {"422"})
     /\ pass' = [pass EXCEPT ![p].pc = "get", ![p].to = "error"]
  \/ /\ NetworkError(p)
     /\ pass' = [pass EXCEPT ![p].pc = "get", ![p].to = "pending"]

(* What an answer makes of the item: gone, failed, or pending again. *)
Settle(p) ==
  \/ /\ Answered(p, {"201"})
     /\ pass' = [pass EXCEPT ![p].pc = "remove"]
  \/ /\ Answered(p, {"422"})
     /\ pass' = [pass EXCEPT ![p].pc = "get", ![p].to = "error"]
  \/ /\ Answered(p, {"500"}) \/ NetworkError(p)
     /\ pass' = [pass EXCEPT ![p].pc = "get", ![p].to = "pending"]
Receive(p) ==
  /\ pass[p].pc = "wait"
  /\ Settle(p)
  /\ UNCHANGED <<item, flushing, passFrame>>

RemoveItem(p) ==
  /\ pass[p].pc = "remove"
  /\ item' = [item EXCEPT ![Current(p)] = "none"]
  /\ Continue(p, Others(p))
  /\ UNCHANGED <<call, failures, passFrame>>

(* The browser or the tab goes away; only IndexedDB survives. *)
Close ==
  /\ "close" \in Mishaps
  /\ Fails
  /\ pass' = [p \in Passes |-> Idle]
  /\ flushing' = FALSE
  /\ page' = [k \in Sales |-> IF page[k] = "posting" THEN "closed" ELSE page[k]]
  /\ call' = [c \in Slots |-> Forgotten(c)]
  /\ UNCHANGED <<item, discarded, server>>

-----------------------------------------------------------------------------
(* CounterInvoicesController.Create. *)
Goto(c, at) == call' = [call EXCEPT ![c].at = at]
Answer(c, status) ==
  call' = [call EXCEPT ![c] = IF @.by = Nobody THEN Free ELSE [@ EXCEPT !.at = status]]

(* A key that has not expired replays the stored answer. *)
Lookup(c) ==
  /\ call[c].at = "lookup"
  /\ \/ idem[call[c].sale] = "live" /\ Answer(c, "201")
     \/ idem[call[c].sale] # "live" /\ Goto(c, "checks")
  /\ UNCHANGED <<client, server, failures>>

(* The checks on the request, the customer and the amounts.  Whether the   *)
(* customer is blocked may differ from one call to the next.               *)
Checks(c) ==
  /\ call[c].at = "checks"
  /\ Goto(c, "bill") \/ Answer(c, "422")
  /\ UNCHANGED <<client, server, failures>>

(* Mutant of KeyTaken: the table has no unique key. *)
KeyNeverTaken(k) == FALSE

(* From DocNumbering.NextNumber to the commit the series row is held, so   *)
(* calls pass here one by one.  The key is inserted with the invoice; one  *)
(* that is in the table already, expired or not, rolls all of it back.     *)
KeyTaken(k) == idem[k] # "none"
Bill(c) ==
  /\ call[c].at = "bill"
  /\ LET k == call[c].sale
     IN  \/ KeyTaken(k) /\ Answer(c, "500") /\ UNCHANGED server
         \/ /\ ~ KeyTaken(k)
            /\ invoices' = [invoices EXCEPT ![k] = @ + 1]
            /\ idem' = [idem EXCEPT ![k] = "live"]
            /\ Goto(c, "notify")
  /\ UNCHANGED <<client, failures>>

(* Mutant of Notifies: every sale notifies the owner. *)
AlwaysNotifies(c) == TRUE

(* After the commit a synced sale notifies the owner; if that throws, the  *)
(* answer is an error all the same.                                        *)
Notifies(c) == call[c].synced
Notify(c) ==
  /\ call[c].at = "notify"
  /\ \/ Answer(c, "201") /\ UNCHANGED failures
     \/ Notifies(c) /\ Fails /\ Answer(c, "500")
  /\ UNCHANGED <<client, server>>

(* Before the commit anything may throw, and a request may never arrive.   *)
ServerError(c) ==
  /\ call[c].at \in {"lookup", "checks", "bill"}
  /\ Fails
  /\ Answer(c, "500")
  /\ UNCHANGED <<client, server>>

NeverArrived(c) ==
  /\ call[c].at = "lookup" /\ call[c].by = Nobody
  /\ call' = [call EXCEPT ![c] = Free]
  /\ UNCHANGED <<client, server, failures>>

(* Twenty-four hours after the sale was booked. *)
Expire(k) ==
  /\ "expire" \in Mishaps
  /\ idem[k] = "live"
  /\ \A c \in Slots : call[c].sale # k
  /\ idem' = [idem EXCEPT ![k] = "expired"]
  /\ UNCHANGED <<client, call, invoices, failures>>

-----------------------------------------------------------------------------
Init ==
  /\ item = [k \in Sales |-> "none"]
  /\ page = [k \in Sales |-> "new"]
  /\ pass = [p \in Passes |-> Idle]
  /\ flushing = FALSE
  /\ call = [c \in Slots |-> Free]
  /\ idem = [k \in Sales |-> "none"]
  /\ invoices = [k \in Sales |-> 0]
  /\ discarded = {}
  /\ failures = 0

PassStep(p) ==
  Probe(p) \/ List(p) \/ GetItem(p) \/ PutItem(p) \/ SendItem(p) \/ Receive(p) \/ RemoveItem(p)
ServerStep(c) == Lookup(c) \/ Checks(c) \/ Bill(c) \/ Notify(c)

Next ==
  \/ \E k \in Sales : SubmitOnline(k) \/ SubmitOffline(k)
  \/ \E k \in Sales : PageAnswered(k) \/ PageDropped(k)
  \/ \E k \in Sales : Discard(k)
  \/ \E p \in Passes : StartPass(p)
  \/ \E p \in Passes : PassStep(p)
  \/ Close
  \/ \E c \in Slots : ServerStep(c)
  \/ \E c \in Slots : ServerError(c) \/ NeverArrived(c)
  \/ \E k \in Sales : Expire(k)

(* A pass that runs goes on, a call that has arrived is carried out, and   *)
(* the page handles the answer it waits for.                               *)
Fairness ==
  /\ \A k \in Sales : WF_vars(PageAnswered(k))
  /\ \A p \in Passes : WF_vars(PassStep(p))
  /\ \A c \in Slots : WF_vars(ServerStep(c))
Spec == Init /\ [][Next]_vars /\ Fairness

-----------------------------------------------------------------------------
(* However often a sale is posted, by the page, by passes that overlap and *)
(* after its key has expired, the server books it once: "a retried sync    *)
(* can never double-bill" (offlineDb.ts).                                  *)
BilledAtMostOnce == \A k \in Sales : invoices[k] <= 1

(* A sale the cashier was told is queued is waiting in the outbox, booked, *)
(* or was thrown away by the cashier after a refusal; it never just goes.  *)
QueuedSaleKept ==
  \A k \in Sales : page[k] = "queued" =>
    item[k] # "none" \/ invoices[k] = 1 \/ k \in discarded

(* An error the counter page shows means the sale was not booked: entering *)
(* it again, under a new key, bills it once.                               *)
ShownErrorNotBilled == \A k \in Sales : page[k] = "refused" => invoices[k] = 0

(* While passes keep being started, every queued sale leaves the queue or  *)
(* is set aside as failed: a flush that is interrupted "can safely resume" *)
(* (syncEngine.ts).                                                        *)
Waiting(k) == item[k] \in {"pending", "syncing"}
KeepSyncing == WF_vars(\E p \in Passes : StartPass(p))
QueuedSalesSettle == KeepSyncing => \A k \in Sales : Waiting(k) ~> ~ Waiting(k)
=============================================================================
