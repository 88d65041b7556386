# A TLA+ model of RajendraGlass

RajendraGlass is the ERP of a glass shop: a React client (`src/client`), an
ASP.NET Core server with Dapper (`src/server`) and a SQL Server database
(`src/db`). These modules specify the parts of it whose correctness depends on
the order of things: stock, the documents that move it, the transactions they run
in, the papers of a sale from quotation to waybill with their numbers at the
government's gateways, counter sales billed while the shop is offline, every form
of the client between opening and the answer to its save, and the cache its pages
show.

1. [The system](#the-system)
2. [Modules](#modules)
3. [How the models correspond to the code](#how-the-models-correspond-to-the-code)
4. [Runs](#runs)
5. [Where the code and its comments disagree](#where-the-code-and-its-comments-disagree)
6. [Bounds](#bounds)
7. [Fairness](#fairness)
8. [Proofs](#proofs)
9. [What is not modelled](#what-is-not-modelled)
10. [Plan](#plan)

## The system

Every request is handled by one controller method. A handler that changes more
than one row opens one connection and one transaction, at the default isolation
level of SQL Server (READ COMMITTED with locks; no script turns row versioning
on), and rolls it back when it throws or refuses. The parts talk through the
database only; the server keeps no state in memory but a permission cache and a
gateway token. The client keeps its session and, in IndexedDB, the outbox of
counter sales.

| Part | State | Operations | Hard behaviour | What must hold |
|---|---|---|---|---|
| Stock tables | StockBalance, StockMovement, RackStock, Offcut | upsert a balance and insert a row | every other part writes them | a balance is the sum of its rows; rows belong to a standing document |
| Purchase | Grn, PurchaseInvoice, EwayBill | book, edit, delete | deletes and edits take stock out that may be sold; e-Way Bill links move between invoices | reversal takes back what was posted; a bill is used by exactly one invoice |
| Inventory | opening entries, adjustments, transfers, racks, offcuts | create, delete | a count overwrites a balance; a transfer checks before it moves | transfers conserve stock and do not overdraw |
| Sales | Invoice, payments, vouchers, waybills, complaints | create, cancel, delete | deletion depends on what refers to the invoice | a billed sale keeps its rows |
| Counter billing | Invoice, Offcut, IdempotencyKey | create | offcuts are reused and created line by line; requests are retried | each line is served once; each sale is booked once |
| Cutting | CuttingEntry, RackStock | create, cancel | the rack is decremented, best effort | cancelling undoes the entry |
| Numbering | DocSeries | NextNumber | drawn inside a transaction that may roll back | numbers are unbroken |
| Offline client | outbox, `flushing`, the page | submit, flush, discard | overlapping passes, lost answers, closing browser | no sale is lost or billed twice |
| Sales chain and production | quotation, order, invoice, work order, job card, waybill, ...: parent and status | convert, bill, raise, edit, cancel, delete | handlers check with plain SELECTs and write later; a deletion counts siblings that others are deleting | no paper without its parent; an order billed once; statuses follow the papers |
| GST gateways | e-invoice and e-Way Bill status of invoices and waybills | generate, cancel | the gateway is awaited between the read and the update; answers get lost | a number active at the gateway is on record |
| Pages of the client | a form, lookups and saves under way, the list's rows | open, fill, save, cancel, select | late answers, lost answers, forms reopened for another row, drafts taken along to another page | one draft books one record; an edit stays on its row |
| Query cache of the client | one answer per query, its tags | fetch, invalidate, expire | invalidation while fetching, while other calls are open, while the page is left | the user comes to see his own writes |
| Authentication | sessions, refresh tokens | login, refresh, logout | single-session policy against concurrent refreshes | not modelled, see the plan |
| Permissions | cache of five minutes | load, invalidate | a load that races an invalidation | not modelled, see the plan |
| Calculators | none | pricing, chargeable size, unit conversion | rounding | not modelled, see the plan |
| HR, masters, reports, dashboard | rows | CRUD, queries | on the server none | as pages of the client |
| Notifications, audit log | rows | insert, push | best effort | not modelled |

`PROJECT.json` lists the files of each part, and the hazards with the lines where
they bite.

## Modules

| Module | What it is |
|---|---|
| `Sums` | sums of integer functions over 1..n, as a recursive function, and what rows move into a cell (`Net`) |
| `StockTables` | the stock tables as variables and the operators handlers share: posting rows, taking them back, the on-hand check |
| `StockPurchase`, `StockInventory`, `StockSales` | one action per handler, each a whole committed request |
| `StockLedger` | the three together, and their properties |
| `StockAccount` | the abstract specification: a book of quantities and the rows that explain it |
| `StockTransactions` | the stock handlers statement by statement: reads, row locks, rollback, deadlock, numbering |
| `CounterSync` | counter sales between the page, the outbox, the sync engine, the network and the server |
| `SalesPapers` | the papers of a sale under overlapping requests, and their numbers at the gateways |
| `PageShape` | what all pages have in common, as data: a form and a list |
| `PagesMasters`, `PagesStock`, `PagesTrade` | one record per form and per list of the client |
| `Pages` | the pages by name: which form goes with which list |
| `PageForms` | what a page with such a form does |
| `Endpoints` | the client's API definitions as data: tags and tables of each call |
| `ScreenCache` | one query and one mutation between the pages, the query library and the server |
| `SumsProofs`, `StockLedgerProofs`, `StockMoveProofs`, `StockTransactionsProofs`, `CounterSyncProofs`, `SalesPapersProofs`, `ScreenCacheProofs`, `PageFormsProofs` | theorems |
| `MCStockLedger`, `MCStockTransactions`, `MCCounterSync`, `MCSalesPapers`, `MCPageForms` | instances for TLC |

`StockLedger` extends `StockPurchase`, `StockInventory` and `StockSales`, which
extend `StockTables`. `StockTransactions` looks at the same handlers at a finer
grain. It does not extend `StockLedger`: what distinguishes the handlers there is
their sequence of statements, so it has the seven kinds of request that differ in
it. `StockLedger` implements `StockAccount` with its balances and rows as they are.
`StockTransactions` is held against it with the committed ones: each commit is a
step of `StockAccount`, but for those whose reads were stale, and of these it is
said what they do instead.

## How the models correspond to the code

**Stock.** `balance[<<p, g>>]` is `Inventory.StockBalance.Qty`, `movement[d]` the
`StockMovement` rows under document `d`, `doc` the headers. Document ids of all
tables are merged into one range; the type column keeps them apart in the code,
and where a handler looks under the wrong type (`InvoicesController.Delete` for a
counter sale) the model does the same (`OwnRows`). An action is one request; a
refusal changes nothing, so the code's early returns and guards are the action's
guards. `EachRowOnHand` is the loop "still on hand" all four deletions share.
Transfers of racks between godowns post rows without a document id; the model
gives them an id of their own.

The server accepts quantities of any sign in some handlers, where the page filters
them (the transfers page, the opening page, the invoice page). The models take the
page's inputs, and say so at the action.

**Transactions.** A request is `idle`, then at one of its statements, then at
`commit`, and ends as `committed`, `refused` or `failed`. What comes after what:

| Kind | Handlers | Statements |
|---|---|---|
| `Add` | invoices, counter sales, cutting entries, receipts, purchase invoices, opening entries | `number`, then `read` and `write` line by line |
| `Count` | stock adjustments | the same; the row is the difference to what was read, the balance is overwritten |
| `Move` | `CreateTransfer` | the same; `read` also refuses what is short |
| `RackMove` | `TransferRackStock` between godowns | `rackout`, `rackin`, then `read` and `write` for both godowns; no number |
| `TakeBack` | deletion of a receipt, purchase invoice, opening entry or adjustment | `header`, `find`, `check` row by row, `takeout` row by row, `erase` |
| `Undo` | deletion of an invoice, cancellation of a cutting entry | the same without `check` |
| `Edit` | `PurchaseInvoiceController.Update` with new lines | as `TakeBack` up to `erase`, then `read` and `write` for the new lines; no number |

A statement needs one row; it waits while another transaction holds it
(`Waiting`). A write keeps the row to the end (`Lock`), a read keeps nothing. The
rows under a document stand and fall with its header in one lock (`doc`). `undo`
has what each changed cell held first, and `Rollback` restores the balances and the
series from it. `Victim` is SQL Server's deadlock monitor. `Fail` stands for every
exception, timeout and crash, and for what an edit may still refuse after its lines
(an e-Way Bill in use). An edit without lines touches no stock and is not a request
here.

Left out of these statements: how much a rack holds (`RackOut` may find too
little); the rack a cutting line takes from, corrections and deletions of rack
stock; offcuts, and the number one draws in the middle of a counter sale; e-Way
Bills; what else a deletion looks for first (`StockLedger` and `SalesPapers` have
that); and the deletion of a product. That removes a product's balance rows when
all are at zero and no movement names it; a booking at the same time is decided by
the foreign key of its movement row.

**Counter sales.** A sale is identified with its Idempotency-Key. `item` is the
outbox, the only client state that survives `Close`; `pass` holds the runs of
`flushOutbox`, with a program counter at every `await`; `flushing` is the flag,
tested before the connectivity probe and raised after it, as in the code.
A pass takes the items it has listed in the order of their numbers (`Current`).
`updateOutboxItem` is two steps, as it reads and writes in two IndexedDB
transactions. `call` holds what the server works on. A call that the client gave
up (`by = Nobody`) may still be carried out. On the server the lookup of the key,
the checks, the booking and the notification are separate steps; the booking is
one step because the numbering row is held from `NextNumber` to the commit.

**Papers of a sale.** `paper[d]` is a row of `Sales.Quotation`, `Sales.SalesOrder`,
`Sales.Invoice`, `Production.WorkOrder`, `Production.JobCard`, `Dispatch.Waybill`
and the other tables that refer to them: its kind, the row its foreign key names,
its status, and whether it says it has a number at the gateway. A request is
one handler. `Begin` is its opening SELECTs (`MayCreate`, `MayDelete`, ...), which
keep nothing; `Insert`, `Replace` and `Erase` are what it writes. `Insert` asks
the foreign key again, `Erase` too, and both wait for a row that a deletion still
open has erased (`Held`). Two handlers go on after the erasure: work orders and job
cards count their siblings (`Count`) and may put the parent back (`Commit`). A
count waits for rows others have erased (`SiblingHeld`): under row versioning it
would not, and the mutant shows what would then go wrong. A gateway call is
`Generate` or `Revoke`, `Answer` and `Note`; `live` is the gateway's own record.
`clashed` is a history variable: it names the papers about which two requests that
can disturb each other overlapped, and those whose answer was lost. The properties
that the code's plain checks cannot keep are stated of the others.

**Pages.** All pages follow a few patterns, so a page is a record
(`PageShape.Plain` and what differs), and `PageForms` has one action per thing a
page does: open, fill in, save, the answer. What the patterns differ in is what
matters: whether opening clears the form, where the choices of a dependent field
come from and whether those for the earlier value stay on show, which saves disable
the button, what a successful answer does to the form that is open by then. A form
with several lines has one line. `row[r]` has the records the content of `r` was
taken from.

A page that is left is unmounted (`LeavePage`); the one opened later knows of none
of its calls, so `here` says of a save whether the page on show has the mutation
hook that made it, and `own` whether it is of the draft on show. Three forms
(quotation, order, invoice) can be left for a new customer or product and take
their draft along in the navigation state (`LeaveForTrip`, `ComeBack`): the draft is
the same, the page is mounted anew and its Save enabled whatever is under way. The
quotation's items are entered in a component with a state of its own (`EnterItem`,
`AddItem`), which stays while the form around it is replaced.

**Query cache.** `ScreenCache` is what RTK Query does, as far as `src/client` uses
it: an answer is kept under tags; the tags a mutation names wait until no query or
mutation is under way, then what is on show is fetched again and the rest is
dropped; an answer nobody shows expires. `Endpoints` gives, for each call of the
`...Api.ts` files, its tags as the code has them and the tables the server's
handler reads or writes. `SilentPairs` are the pairs in which the mutation changes
what the query shows and no tag connects them.

## Runs

| Run | Instance | Shows |
|---|---|---|
| `purchase` | 1 product, 2 godowns, 2 e-Way Bills, 3 documents of up to 2 lines | balances follow rows (`LedgerMatchesBalance`), rows have documents (`NoOrphanRows`), bills have exactly one invoice (`EwayLinkExact`), taking back a document that names each product once leaves no negative balance (`ReversalKeepsFloor`), each request reposts one document (`ImplementsAccount`) |
| `inventory` | 3 racks in 2 godowns, 2 documents | the same for counts and transfers; `TransferMovesStock`: a transfer conserves a product's stock and does not overdraw, however many lines name the product |
| `sales` | 2 documents and the papers that refer to them, two piece sizes, offcuts, cutting on racks | balances follow rows; `BilledSaleStands`: a sale something refers to keeps its rows; `EveryLineServed`: each counter line is served by a row or by one offcut |
| `transactions` | 4 requests of all kinds, 2 standing documents, 2 cells, 4 racks | `BooksFollowDocuments`: the committed books change one document at a time, and only stale reads part balances from rows; `MovesNeverOverdraw`: stock transfers alone overdraw nothing; `NumbersUnbroken`; `EveryRequestEnds` |
| `sync` | 2 sales, 2 passes, 2 calls, 2 failures | `BilledAtMostOnce`, `QueuedSaleKept`, `ShownErrorNotBilled`, with closing browsers and expired keys |
| `settle` | 2 sales, 2 passes, 1 call, 2 failures | `QueuedSalesSettle` while the browser stays open |
| `papers` | 3 papers of 6 kinds, 2 requests, 1 clash | `NoStrandedPaper` without exception; `BilledOnce`, `StatusFollowsPapers`, `ConvertedStays`, `NumbersOnRecord` but for papers that requests clashed over |
| `screens` | every form of the client, 2 rows, 2 values, 2 saves under way | `DraftBookedOnce`, `EditsStayOnTheirRow`, `DependentsFit`, over closing, reopening, trips and half-entered items |
| `cache` | every query with every mutation that changes what it shows, 2 writes | `ShowsOwnWrites`, `OwnWriteComesToShow` |

The deadlock check is off in all but `screens` (a page can always be left): the
other models stop when the bounded number of documents, requests or sales is used
up.

`transactions` lets the kinds of request race without restriction, the
combinations that go wrong included: a count overtaken by a sale, two edits of one
purchase invoice, an edit against the deletion, two rack transfers. What goes wrong
in them is part of the properties, named and measured. `BooksFollowDocuments` has a
second disjunct for a commit that is `Stale`, and says of it that balances and rows
part by exactly the rows that were read too early (`Parts`); `MovesNeverOverdraw`
lists who else may have taken the stock.

## Where the code and its comments disagree

Each of these is a run that TLC must find violated.

* `receipt_reversal`: the comment on `GrnController.Delete` says a receipt whose
  stock has moved on is refused "rather than silently taking a balance negative".
  The check looks at one row at a time, so a receipt with two lines of one product
  passes when either line is on hand though both together are not.
* `delete_twice`: two deletions of one receipt both read its rows before either
  deletes them, and both take the stock out ("must reverse exactly what it added").
* `closed_flush`: a flush "can safely resume" after the app is closed. The item it
  was posting is marked `syncing`, and passes take up only `pending` items.

Not runs, but met while modelling:

* A count (`InventoryController.CreateAdjustment`) overwrites a balance it read
  earlier; a booking committed in between is lost from the balance though its row
  stays.
* Two edits of one purchase invoice (`PurchaseController.cs:783-826`), or an edit
  and its deletion, go wrong as two deletions do: the old rows are subtracted twice.
* Two rack transfers between the same godowns from different racks both pass the
  check and overdraw the godown (`InventoryController.cs:351-360`): no series row
  keeps them apart, as it does two stock transfers. The comment above the handler
  has them work "exactly like a Stock Transfer" (301-304).
* A draft whose save is under way can be taken along on a trip for a new customer
  and saved again when it is back (`QuotationsPage.tsx:202`, and the order and
  invoice pages): two records. An item half entered in one quotation can be added
  to the next one opened (`QuotationsPage.tsx:491`); a trip for a new customer drops
  it, though the comment says "stash everything typed so far" (198); and a line
  taken up for change comes back from a trip for a new product as a line to add.
* `CuttingStockConsumption.Reverse` "reverses everything Deduct posted", but leaves
  the rack ledger as it is. The model does the same; the rack ledger is never held
  against the balance.
* Deleting an order leaves its quotation "Converted"; deleting an order whose only
  invoice is cancelled passes the handler's check and fails at the foreign key; so
  does editing a quotation that has a cutting entry.
* An invoice with an active IRN can be deleted; only waybills are asked about their
  number. `NumbersOnRecord` says so by claiming it of waybills only. A lost answer
  marks a waybill 'Failed', which permits its deletion.
* The receipt form sends the lines of the order fetched last with the order chosen
  last; the godown panel saves the content of the row selected before over the row
  selected now; the purchase invoice form can send a bill of the supplier chosen
  before. `DependentsFit` and `EditsStayOnTheirRow` except these forms by name
  (`LateFill`, the panel).
* The pages of the roles and of the company catch no error of their saves
  (`RolesPage.tsx:51-56`, `CompanyProfilePage.tsx:22-28`): a refusal goes unsaid.
* The reports page prints the current filter over the rows of the previous one, and
  logging out leaves the query cache as it is (neither is modelled).
* Editing a product, customer, supplier or quotation overwrites columns the form
  does not carry (`ProductsController.cs:242-246`); the columns are not modelled.

## Bounds

`MaxDocs` (documents ever created), `MaxLines`, `Quantities`, `Pieces`,
`MaxOffcuts` and `MaxRackQty` bound the ledger. Two lines of one product are what
tells row-by-row checks from checks of sums; three documents are what it takes to
receive, sell and take back; a quantity of 2 against a balance of 1 is a shortage.
Negative balances occur in every ledger run (sales do not check stock). Handlers
treat products alike and never relate two of them, so one product is enough.
Each run takes the handlers of one side and those that disturb them; the proofs
below cover all of them together.

`transactions` gives each of four requests a choice among the forms that contend
for one cell and one document: transfers by godown and by rack that want all there
is, two edits and a deletion of the purchase that filled the cell, a count of it, a
sale that touches the cells in the other order, deletions of a standing and of a
new sale. Every kind of statement blocks, fails and deadlocks in it. Racks in different godowns keep
two rack transfers from waiting for each other before they come to the godown.

In `CounterSync`, `MaxFailures` counts lost messages, failed probes, exceptions
and closings. Two are enough to lose the answer of a sale the server has booked
and to disturb its retry. Two passes are the smallest overlap; two slots let a
retry meet the call it repeats.

In `papers`, three papers are a parent with two children (siblings deleted at the
same time, an order billed twice) or a chain of three (a job card raised while its
work order is deleted); two requests are what it takes to disturb. `MaxClashes` is
1: a second clash only exempts a second paper. Cutting entries and plans, vouchers
and complaints are in the module and not in the run: they differ from a waybill or a
work order only in what they lack. The theorems cover all kinds.

In `PageForms` two rows, two values of a field and two saves (`Slots`) are what a mix-up
needs; no form has more than two dependent fields. The two slots of saves are
interchangeable, which the run uses as a symmetry. The counter of records booked
stops at two. In `ScreenCache`, `Writes` is 2, so that a fetch can read between two writes;
a third pair of hands is `other`, one call that stands for all others.

## Fairness

`StockTransactions`: weak fairness of each request's statements (a handler that
runs goes on unless it fails) and of its rollback when it is in a ring of waiting
requests (the deadlock monitor runs every few seconds). `Fail` is not fair.

`CounterSync`: weak fairness of a pass's steps, the server's steps on a call that
has arrived, and the page's handling of an answer. Nothing obliges a request to
be answered: it can be given up. That passes keep being started is not a fact of
the code: a pass starts on a change to online or when the cashier presses "Sync
now". `QueuedSalesSettle` therefore has it as a hypothesis (`KeepSyncing`).

`ScreenCache`: weak fairness of everything that ends a call, for the browser ends
every request by an answer or an error. The user is not fair, and other calls may
start again and again: between them the invalidation still gets through, because
the query library looks each time a call ends. `OwnWriteComesToShow` has as
hypothesis that the user's own saves of this kind stop.

`SalesPapers` and `PageForms` state no fairness and no liveness.

## Proofs

`tlapm` checks all of the following for every value of the constants that
satisfies the named assumptions (`StockConstants`, `GodownsFinite`, `TransactionConstants`,
`SyncConstants`, `PaperConstants`, `CacheConstants`, `WritesTold`, `FormConstants` and
`FormsWellMade`), which TLC evaluates in every run of their modules.

* `SumsProofs` has no theorems, only lemmas on the sum that the others use: that it
  exists and is what its recursive definition says, by induction from the least
  element of a set, how it changes when one term does (`SumUpdate`), and that the net
  of a document's rows grows row by row (`NetStepwise`, `NetAppend`).
* `StockLedgerProofs`: `LedgerTypeCorrect`, `BalanceIsLedger` and
  `RowsHaveDocuments`, each of the form `Spec => []...` for the whole of
  `StockLedger`, all handlers in any order. The inductive invariant `IInv` is the
  ledger's typing, `LedgerMatchesBalance`, `NoOrphanRows`, that no document exists
  under an id not yet given out, and that a counter sale has a payment. The last
  is needed because deleting a counter sale would drop its header and keep its
  rows; the payment is what makes the deletion impossible. The argument is one
  lemma, `ChangeKeepsInv`: a step that changes the rows of one document and moves
  each balance by the difference keeps the invariant. Each action is shown to be
  such a step (`PostKeepsInv`, `TakeBackKeepsInv`, `HeaderKeepsInv`). The hard
  case is a count, whose rows are differences against its own earlier lines:
  `DifferencesAddUp` shows that they add up to the last count minus the old
  balance.
  Its second half is about sales and bills: `BillsHaveOneInvoice`, `LinesServedOnce`,
  `SalesStandBilled` and `TablesTypeCorrect`, the type of every stock table. For the first, every handler of
  a purchase invoice moves its link and the bills' flags together (`Relinked`); the
  guard that a new bill be free keeps two invoices apart. `EveryLineServed` relates
  the lines of a counter sale to rows and to offcuts, which other requests handle
  too, so `ServedInv` adds why they leave them alone: papers are only on sales, an
  offcut that is logged or available names no sale, and none names an id that is not
  yet given out (`OffcutInv`). For the sale itself, `Progress` counts, after each
  line, the sheets cut and the offcuts taken: a line takes an offcut that was
  available, so one no line before it took.
* `StockMoveProofs`: `LedgerImplementsAccount`, `ReversalsKeepFloor` and
  `TransfersMoveStock`. Each handler is shown to be a step of `StockAccount` or to
  leave balances and rows alone (`AccountStep`), from `IInv`: a fresh id has no rows
  yet, and a deleted invoice is not a counter sale. `Handled` sorts the steps by what
  they may do to stock. That a reversal keeps its cells from going negative needs the
  document to name each product once (`DistinctCells`): then a cell's net is one row,
  the row that was checked (`NetOfOne`, `FloorKept`); without it the property is
  false, which `receipt_reversal` shows. A transfer is followed line by line: the
  total over a finite set of godowns (`GodownsFinite`) stays when one quantity moves
  (`HeldMoves`, by induction over the set's size), and the source is not overdrawn
  because each line is checked against what the lines before it left.
* `CounterSyncProofs`: `NeverBilledTwice`, `Spec => []BilledAtMostOnce`. The
  invariant `KeyMatchesInvoice` says that a sale is booked exactly when its key is
  in the table. No property of the client is used: the unique key alone carries it.
  `NoQueuedSaleLost` and `RefusedNotBilled` (and `CounterTyped`) are about the
  client, and need to know what each call, page and pass has in hand. `CallsOK`: a
  caller has one call, a 201 comes from a booked sale, and a call the page waits for
  is the only one for its sale and comes from a sale never queued. `PagesOK`: a sale
  that was not queued is in no outbox and in no pass's list; one that was refused is
  not booked and no call for it is left. `PassesOK`: a pass about to remove an item
  has seen it booked. With these, an item that `PutItem` writes back after another
  pass removed it is a sale already booked, which its key protects.
* `StockTransactionsProofs`: `NumbersNeverBreak`, `Spec => []NumbersUnbroken`, for any
  number of requests, series, products and godowns. `NumberInv` says who may hold a
  number: a transaction past its draw has the lock of its series to the end, so at
  most one open transaction is ahead of the committed ones, and the series is at
  its number; when it rolls back, the number it drew goes back to the series.
  `BooksAlwaysFollow`, `Spec => BooksFollowDocuments`, with no assumption on what is
  asked for. `LockInv` says that a request has the lock of exactly the cells it keeps
  a former value of, `ProgressInv` that each such cell is away from that value by the
  rows posted, the rows taken out, and what its counts have overwritten, so far
  (`Done`). So a step that does not commit, a rollback included, leaves the book alone
  (`QuietStands`, `ChangeStands`, `EndStands`), and a commit moves it by what was done
  in all. `TargetInv` is about deletions and edits: the rows they have found are those
  their document has, unless another deletion or edit of it has committed meanwhile. A
  commit that overwrote nothing and found what stands is therefore a step of
  `StockAccount` (`CommitReposts`); of the others the theorem says by how much they
  part the two (`CommitParts`). The code prevents neither, so neither is excluded.
  `TransfersAreCovered`, `Spec => []MovesNeverOverdraw`: the check of a stock transfer
  locks nothing, so `CoverInv` follows what it found to the moment it writes, for every
  cell that no other kind of request has taken stock from. In between, a commit can
  change such a cell only by adding to it, and another stock transfer cannot be that
  far, because it waits for the row of the series (`OneMove`). `OwnInv` says where rows
  that put stock into a cell come from, and so which deletion or edit can take it out
  again. Rack transfers wait for no series and are among those that take. Two stock
  transfers on either side of midnight on 31 March draw from two rows of the series
  (its key has the financial year): the property excepts them (`TwoSeries`). All
  documents are numbered for the one default branch.
* `ScreenCacheProofs`: `CacheTyped` and `NothingStaleOnShow`, `Spec =>
  []ShowsOwnWrites`, for any number of writes. `AnswerCurrent` says that whatever an
  answer lacks is on its way (the mutation has not ended, or its tags wait), and
  `HeldWaits` that tags wait only for a call that is open. That each mutation is
  told to the queries it changes, or is among the listed exceptions, is a fact
  about the client's declarations (`WritesTold`): the proof assumes it and TLC evaluates
  it for every pair.
* `SalesPapersProofs`: `PapersTyped` and `NoPaperStranded`, `Spec =>
  []NoStrandedPaper`, for any number of papers, kinds and requests. The handlers'
  checks play no part in it. The inductive invariant adds what an open deletion
  relies on (`ErasedIsLeaf`: a row it has erased has no children, and gets none,
  because an insert waits for it) and what an insert relies on (`ParentFits`: if the
  name it holds is still in use, it is not in use for another paper). Every step but
  `Insert` only shrinks the set of papers (`Shrinks`), and `ShrinkKeepsInv` is the
  one argument for all of these.
  The second half of the module has `OneBill`, `StatusFollows`, `NumbersRecorded` and
  `ConvertedUntouched`, for any number of papers and requests. These properties set
  aside the papers in `clashed`, about which two requests that disturb each other
  were under way at once, and the proof says why that is enough. `ClashKnown`: two
  such requests are in `clashed` from the moment the later begins. So what a request
  found when it began still holds when it writes, and each conjunct of `CInv` says
  what that is: that a paper about to be billed has no bill (`BillDue`), that a
  quotation about to be rewritten is not converted (`RewriteOpen`), what a request at
  the gateway is about to write down (`NumberInv`). Deletions of siblings do overlap
  without a clash, and there the locks carry the argument: of the deletions that have
  counted their siblings one at most has its row still there (`CountedAlone`), because
  the count waits for rows others hold; so the last one to go knows it is the last
  (`LastAlone`, `OthersStand`).
* `PageFormsProofs`: `FormsTyped`, `DraftsBookedOnce`, `EditsStay` and `ChoicesFit`,
  for every page at once: the proof looks at what a page's record
  says of its form and never at which page it is. The invariant follows a form and the
  saves under way. A form that is opened, closed or emptied disowns those saves
  (`ResetKeeps`); an edit keeps it a copy of the record it shows (`EditKeeps`). `OneDraft`:
  of the saves of this draft that are to make a record, one at most is under way or
  booked, and the page on show knows of it, because Save is disabled while one is; only a
  trip taken while one is under way ends that (`carried`). Where the record has a key the
  user typed, the server refuses it the second time, trip or not. `RowInv`: what is typed
  over a record, sent over it and stored in it has that record among its sources, and no
  other source but, where there are items, an item of another document. What the forms
  have in common and the proof needs is `FormsWellMade`
  (a form whose Save is never disabled makes records with a key, the answer that comes
  last decides only where the server looks again, what a trip fills has nothing that
  hangs on it): a fact about the client's
  declarations, which TLC evaluates for every page.

Every safety property of the passing runs is stated by a theorem. Checked by TLC only:
the liveness properties (`EveryRequestEnds`, `QueuedSalesSettle`,
`OwnWriteComesToShow`), which are beyond the prover, and of the violation runs
`NoReceiptReversalGoesNegative` and `ReversesWhatStands`, which the code refutes. The facts about the client's declarations (`WritesTold`, `FormsWellMade`)
are assumed by the proofs and evaluated by TLC, page by page and tag by tag.

## What is not modelled

* Amounts, taxes, prices: data the properties here do not depend on. Quantities
  are whole numbers; the conversion to a product's stock unit and its rounding to
  three decimals is left to a module of its own (see the plan).
* `QtyReserved`, `QtyBlocked`, `QtyDamaged` of a balance: never written.
* On the server, the masters, HR, furnace batches, the finishing of a job card, the
  resolution of a complaint and the re-linking of a voucher: rows edited one at a
  time. On the client they are pages like the others.
* What keeps the statements of `StockTransactions` from being the whole of their
  handlers: see there ([How the models correspond](#how-the-models-correspond-to-the-code)).
* What a page tells its user after a refusal. The browser's Back and Forward: the
  history entry of a trip holds its draft for as long as the tab is open, so going
  back to it brings the draft up again even after it was booked.
* Of the pages: layout, formatting, search, paging, printing, the arithmetic of the
  line grids; of a form with lines, more than one line. The counter billing page is
  in `CounterSync`, the log-in page in neither.
* Gateways: tokens, payloads, the log of calls. The mock gateway is a gateway that
  never refuses.
* Delivery of notifications: best effort after the commit. The audit log: an insert
  in the caller's transaction that nothing reads back.
* The user's clock: `CounterSync.Expire` may happen at any time no call for the
  sale is open.

## Plan

What would come next, in this order:

1. `AuthSession` and `PermissionCache`: refresh-token rotation and the
   single-session policy; the cache against its invalidation. Abstract
   specification: one live session per user when the policy asks for it. Runs: two
   users, two tokens, one policy change.
2. The link of a purchase invoice to an e-Way Bill, the choice of an offcut, what a
   rack holds and the deletion of a product, statement by statement, in
   `StockTransactions`.
3. `StockRounding` and the calculators as operators, against a reference
   definition on bounded inputs.
