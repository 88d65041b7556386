------------------------- MODULE CounterSyncProofs -------------------------
(***************************************************************************)
(* Counter sales, for every number of sales, passes, calls, failures and   *)
(* mishaps: a sale is booked at most once, one that was queued is never    *)
(* lost, and one the page shows as refused was not booked.                 *)
(***************************************************************************)
EXTENDS CounterSync, WellFoundedInduction, TLAPS

(* The strengthening: a sale is booked exactly when its key is in the      *)
(* table.  Nothing about the client is needed.                             *)
KeyMatchesInvoice ==
  /\ idem \in [Sales -> {"none", "live", "expired"}]
  /\ invoices \in [Sales -> Nat]
  /\ \A k \in Sales : invoices[k] = IF idem[k] = "none" THEN 0 ELSE 1

(* The tables of the server change in two actions only.                    *)
LEMMA KeyMatchesInvoiceStep ==
  ASSUME KeyMatchesInvoice, [Next]_vars
  PROVE  KeyMatchesInvoice'
<1> USE DEF KeyMatchesInvoice
<1>1. CASE UNCHANGED server
  BY <1>1 DEF server
<1>2. ASSUME NEW c \in Slots, Bill(c)
      PROVE  KeyMatchesInvoice'
  <2> DEFINE k == call[c].sale
  <2>1. CASE UNCHANGED server
    BY <2>1 DEF server
  <2>2. CASE /\ ~ KeyTaken(k)
             /\ invoices' = [invoices EXCEPT ![k] = @ + 1]
             /\ idem' = [idem EXCEPT ![k] = "live"]
    <3> HIDE DEF k
    <3>1. k \in Sales => idem[k] = "none" /\ invoices[k] = 0
      BY <2>2 DEF KeyTaken
    <3>2. idem' \in [Sales -> {"none", "live", "expired"}]
      BY <2>2
    <3>3. \A j \in Sales : idem'[j] = IF j = k THEN "live" ELSE idem[j]
      BY <2>2
    <3>4. \A j \in Sales : invoices'[j] = IF j = k THEN invoices[j] + 1 ELSE invoices[j]
      BY <2>2
    <3>5. \A j \in Sales : invoices'[j] = IF idem'[j] = "none" THEN 0 ELSE 1
      BY <3>1, <3>3, <3>4
    <3>6. invoices' \in [Sales -> Nat]
      <4>1. invoices' = [j \in Sales |-> invoices'[j]]
        BY <2>2
      <4>2. \A j \in Sales : invoices'[j] \in Nat
        BY <3>5
      <4> QED BY <4>1, <4>2
    <3> QED BY <3>2, <3>5, <3>6
  <2> QED BY <1>2, <2>1, <2>2 DEF Bill
<1>3. ASSUME NEW k \in Sales, Expire(k)
      PROVE  KeyMatchesInvoice'
  BY <1>3 DEF Expire
<1>4. CASE UNCHANGED vars
  BY <1>4 DEF vars, server
<1>5. ASSUME NEW k \in Sales,
             \/ SubmitOnline(k) \/ SubmitOffline(k)
             \/ PageAnswered(k) \/ PageDropped(k) \/ Discard(k)
      PROVE  UNCHANGED server
  BY <1>5 DEF SubmitOnline, SubmitOffline, Enqueue, PageAnswered, PageDropped, Discard, server
<1>6. ASSUME NEW p \in Passes, StartPass(p) \/ PassStep(p)
      PROVE  UNCHANGED server
  BY <1>6 DEF StartPass, PassStep, Probe, List, GetItem, PutItem, SendItem, Receive,
              RemoveItem, passFrame, server
<1>7. ASSUME Close
      PROVE  UNCHANGED server
  BY <1>7 DEF Close, server
<1>8. ASSUME NEW c \in Slots,
             \/ Lookup(c) \/ Checks(c) \/ Notify(c) \/ ServerError(c) \/ NeverArrived(c)
      PROVE  UNCHANGED server
  BY <1>8 DEF Lookup, Checks, Notify, ServerError, NeverArrived, server
<1> QED
  BY <1>1, <1>2, <1>3, <1>4, <1>5, <1>6, <1>7, <1>8 DEF Next, ServerStep

(* A retried sale is never billed twice (BilledAtMostOnce): the unique key *)
(* of Security.IdempotencyKey is inserted with the invoice, so a second    *)
(* booking fails, whatever the lookup said and however long ago the first  *)
(* was.                                                                    *)
THEOREM NeverBilledTwice == Spec => []BilledAtMostOnce
<1>1. Init => KeyMatchesInvoice
  BY DEF Init, KeyMatchesInvoice
<1>2. KeyMatchesInvoice /\ [Next]_vars => KeyMatchesInvoice'
  BY KeyMatchesInvoiceStep
<1>3. KeyMatchesInvoice => BilledAtMostOnce
  BY DEF KeyMatchesInvoice, BilledAtMostOnce
<1> QED
  BY <1>1, <1>2, <1>3, PTL DEF Spec

-----------------------------------------------------------------------------
(* The rest of the invariant ties the outbox to the server.                *)
(* The calls.  Each client has one call at a time, made for the item it    *)
(* has in hand or the sale the page is posting; a call of the page for a   *)
(* sale that is not booked yet finds no key, and so cannot be refused once *)
(* the sale is.                                                            *)
CallOK(c) ==
  /\ call[c].by # Nobody => call[c].at # "free"
  /\ call[c].at # "free" => call[c].sale \in Sales
  /\ call[c].at \in {"notify", "201"} => invoices[call[c].sale] = 1
  /\ call[c].by \in Passes =>
       pass[call[c].by].pc = "wait" /\ call[c].sale = Current(call[c].by)
  /\ call[c].by = Page =>
       /\ page[call[c].sale] = "posting" /\ ~ call[c].synced
       /\ call[c].at \notin {"notify", "201"} => invoices[call[c].sale] = 0
  /\ call[c].at # "free" /\ call[c].by # Page =>
       page[call[c].sale] \in {"queued", "closed"}
CallsOK ==
  /\ \A c \in Slots : CallOK(c)
  /\ \A c, d \in Slots : call[c].by = call[d].by /\ call[c].by # Nobody => c = d

(* The page.  It posts one sale at a time, nothing of a sale it has not    *)
(* queued is in the browser's outbox, and none it has refused is booked.   *)
PageOK(k) ==
  /\ page[k] # "queued" => item[k] = "none" /\ \A p \in Passes : k \notin pass[p].queue
  /\ page[k] \in {"new", "refused"} => invoices[k] = 0
PagesOK ==
  /\ \A k \in Sales : PageOK(k)
  /\ \A j, k \in Sales : page[j] = "posting" /\ page[k] = "posting" => j = k

(* The passes.  An item is removed only once its sale is booked.           *)
PassesOK == \A p \in Passes : pass[p].pc = "remove" => invoices[Current(p)] = 1

IInv == TypeOK /\ KeyMatchesInvoice /\ CallsOK /\ PagesOK /\ PassesOK /\ QueuedSaleKept

(* A non-empty set of numbers has a least one.                             *)
LEMMA LeastExists ==
  ASSUME NEW S, S \subseteq Nat, S # {}
  PROVE  \E x \in S : \A y \in S : x <= y
<1>1. PICK x \in S : \A y \in S : ~ (<<y, x>> \in OpToRel(<, Nat))
  BY NatLessThanWellFounded, WFMin
<1>2. \A y \in S : ~ (y < x)
  BY <1>1 DEF OpToRel
<1> QED BY <1>2

(* The item in hand is one of those that are left.                         *)
LEMMA CurrentIsLeft ==
  ASSUME TypeOK, NEW p \in Passes, pass[p].queue # {}
  PROVE  Current(p) \in pass[p].queue /\ Current(p) \in Sales
<1>1. pass[p].queue \subseteq Sales /\ pass[p].queue \subseteq Nat
  BY SyncConstants DEF TypeOK
<1>2. Min(pass[p].queue) \in pass[p].queue
  BY <1>1, LeastExists DEF Min
<1> QED BY <1>1, <1>2 DEF Current

(* A call stays in order while neither it nor what it is tied to changes.  *)
LEMMA OtherCallsKeep ==
  ASSUME CallsOK, NEW d \in Slots, call'[d] = call[d],
         call[d].at # "free" =>
           /\ page'[call[d].sale] = page[call[d].sale]
           /\ invoices'[call[d].sale] = invoices[call[d].sale]
           /\ call[d].by \in Passes => pass'[call[d].by] = pass[call[d].by]
  PROVE  CallOK(d)'
BY SyncConstants DEF CallsOK, CallOK, Current

(* The page's own steps.                                                   *)
LEMMA SubmitOnlineKeeps ==
  ASSUME IInv, NEW k \in Sales, SubmitOnline(k)
  PROVE  IInv'
<1> USE SyncConstants DEF IInv, SubmitOnline, Turn, Post, server
<1>1. TypeOK'
  BY DEF TypeOK, AtItem
<1>2. KeyMatchesInvoice'
  BY DEF KeyMatchesInvoice
<1>3. CallsOK'
  <2>1. PICK c \in Slots :
          /\ call[c] = Free
          /\ call' = [call EXCEPT ![c] =
                [at |-> "lookup", sale |-> k, by |-> Page, synced |-> FALSE]]
    OBVIOUS
  <2>2. /\ call'[c] = [at |-> "lookup", sale |-> k, by |-> Page, synced |-> FALSE]
        /\ \A d \in Slots : d # c => call'[d] = call[d]
    BY <2>1 DEF TypeOK
  <2>3. page'[k] = "posting" /\ \A j \in Sales : j # k => page'[j] = page[j]
    BY DEF TypeOK
  <2>4. invoices[k] = 0
    BY DEF PagesOK, PageOK
  <2>5. \A d \in Slots : call[d].at # "free" => call[d].by # Page /\ call[d].sale # k
    BY DEF CallsOK, CallOK
  <2>6. \A d \in Slots : CallOK(d)'
    BY <2>2, <2>3, <2>4, <2>5 DEF CallsOK, CallOK, Current
  <2>7. \A d, e \in Slots : call'[d].by = call'[e].by /\ call'[d].by # Nobody => d = e
    <3>1. call'[c].by = Page /\ Page # Nobody
      BY <2>2
    <3>2. \A d \in Slots : d # c => call'[d].by = call[d].by /\ call[d].by # Page
      <4>1. \A d \in Slots : call[d].at = "free" => call[d].by # Page
        BY <3>1 DEF CallsOK, CallOK
      <4> QED BY <2>2, <2>5, <4>1
    <3>3. \A d, e \in Slots : call[d].by = call[e].by /\ call[d].by # Nobody => d = e
      BY DEF CallsOK
    <3> HIDE DEF IInv, SubmitOnline, Turn, Post, server
    <3> QED BY <3>1, <3>2, <3>3
  <2> QED BY <2>6, <2>7 DEF CallsOK
<1>4. PagesOK'
  BY DEF TypeOK, PagesOK, PageOK
<1>5. PassesOK'
  BY DEF PassesOK, Current
<1>6. QueuedSaleKept'
  BY DEF TypeOK, QueuedSaleKept
<1> QED BY <1>1, <1>2, <1>3, <1>4, <1>5, <1>6

(* A sale made offline goes into the outbox.                               *)
LEMMA SubmitOfflineKeeps ==
  ASSUME IInv, NEW k \in Sales, SubmitOffline(k)
  PROVE  IInv'
<1> USE SyncConstants DEF IInv, SubmitOffline, Enqueue, Turn, server
<1>1. TypeOK'
  BY DEF TypeOK
<1>2. KeyMatchesInvoice'
  BY DEF KeyMatchesInvoice
<1>3. CallsOK'
  <2>1. page'[k] = "queued" /\ \A j \in Sales : j # k => page'[j] = page[j]
    BY DEF TypeOK
  <2>2. \A c \in Slots : call[c].at # "free" => call[c].sale # k
    BY DEF CallsOK, CallOK
  <2>3. ASSUME NEW c \in Slots
        PROVE  CallOK(c)'
    <3>1. CallOK(c) /\ UNCHANGED <<call, pass, invoices>>
      BY DEF CallsOK
    <3>2. call[c].at # "free" => page'[call[c].sale] = page[call[c].sale]
      BY <2>1, <2>2, <3>1 DEF CallOK
    <3> HIDE DEF IInv, SubmitOffline, Enqueue, Turn, server
    <3> QED BY <3>1, <3>2 DEF CallOK, Current
  <2>4. UNCHANGED call
    OBVIOUS
  <2> QED BY <2>3, <2>4 DEF CallsOK
<1>4. PagesOK'
  BY DEF TypeOK, PagesOK, PageOK
<1>5. PassesOK'
  BY DEF PassesOK, Current
<1>6. QueuedSaleKept'
  BY DEF TypeOK, QueuedSaleKept
<1> QED BY <1>1, <1>2, <1>3, <1>4, <1>5, <1>6

(* The page shows what the server answered.                                *)
LEMMA PageAnsweredKeeps ==
  ASSUME IInv, NEW k \in Sales, PageAnswered(k)
  PROVE  IInv'
<1> USE SyncConstants DEF IInv, PageAnswered, Answered, server
<1>1. PICK c \in Slots :
        /\ call[c].by = Page /\ call[c].at \in Answers
        /\ call' = [call EXCEPT ![c] = Free]
        /\ UNCHANGED failures
        /\ \/ page' = [page EXCEPT ![k] = "billed"]
           \/ call[c].at # "201" /\ page' = [page EXCEPT ![k] = "refused"]
  BY DEF CallsOf, Answers
<1>2. call[c].sale = k /\ call[c].at # "free"
  BY <1>1 DEF CallsOK, CallOK, PagesOK, Answers
<1>3. TypeOK'
  BY <1>1 DEF TypeOK, Free, Answers
<1>4. KeyMatchesInvoice'
  BY DEF KeyMatchesInvoice
<1>5. CallsOK'
  <2>1. call'[c] = Free /\ \A d \in Slots : d # c => call'[d] = call[d]
    BY <1>1 DEF TypeOK
  <2>2. \A j \in Sales : j # k => page'[j] = page[j]
    BY <1>1 DEF TypeOK
  <2>3. \A d \in Slots : d # c /\ call[d].at # "free" => call[d].sale # k
    BY <1>1 DEF CallsOK, CallOK
  <2>4. \A d \in Slots : CallOK(d)'
    <3>1. CallOK(c)'
      BY <2>1 DEF CallOK, Free
    <3>2. ASSUME NEW d \in Slots, d # c
          PROVE  CallOK(d)'
      <4>1. call[d].at # "free" => call[d].sale \in Sales \ {k}
        BY <2>3, <3>2 DEF CallsOK, CallOK
      <4> QED BY <2>1, <2>2, <3>2, <4>1, OtherCallsKeep
    <3> QED BY <3>1, <3>2
  <2>5. \A d, e \in Slots : call'[d].by = call'[e].by /\ call'[d].by # Nobody => d = e
    BY <2>1 DEF CallsOK, Free
  <2> QED BY <2>4, <2>5 DEF CallsOK
<1>6. PagesOK'
  <2>1. call[c].at # "201" => invoices[k] = 0
    BY <1>1, <1>2 DEF CallsOK, CallOK, Answers
  <2> QED BY <1>1, <2>1 DEF TypeOK, PagesOK, PageOK
<1>7. PassesOK'
  BY DEF PassesOK, Current
<1>8. QueuedSaleKept'
  BY <1>1 DEF TypeOK, QueuedSaleKept
<1> QED BY <1>3, <1>4, <1>5, <1>6, <1>7, <1>8

(* A sale whose call got no answer goes into the outbox.                   *)
LEMMA PageDroppedKeeps ==
  ASSUME IInv, NEW k \in Sales, PageDropped(k)
  PROVE  IInv'
<1> USE SyncConstants DEF IInv, PageDropped, NetworkError, Enqueue, server
<1>1. PICK c \in Slots :
        call[c].by = Page /\ call' = [call EXCEPT ![c] = Forgotten(c)]
  BY DEF CallsOf
<1>2. call[c].sale = k /\ call[c].at # "free"
  BY <1>1 DEF CallsOK, CallOK, PagesOK, Free
<1>3. TypeOK'
  BY <1>1 DEF TypeOK, Forgotten, Free, Fails
<1>4. KeyMatchesInvoice'
  BY DEF KeyMatchesInvoice
<1>5. CallsOK'
  <2>1. call'[c] = Forgotten(c) /\ \A d \in Slots : d # c => call'[d] = call[d]
    BY <1>1 DEF TypeOK
  <2>2. page'[k] = "queued" /\ \A j \in Sales : j # k => page'[j] = page[j]
    BY DEF TypeOK
  <2>3. \A d \in Slots : d # c /\ call[d].at # "free" => call[d].sale # k
    BY <1>1 DEF CallsOK, CallOK
  <2>4. \A d \in Slots : CallOK(d)'
    <3>1. ASSUME call[c].at \in Answers
          PROVE  CallOK(c)'
      <4>1. call'[c].at = "free" /\ call'[c].by = Nobody
        BY <2>1, <3>1 DEF Free, Forgotten
      <4> QED BY <4>1 DEF CallOK
    <3>2. ASSUME call[c].at \notin Answers
          PROVE  CallOK(c)'
      <4>1. call'[c] = [call[c] EXCEPT !.by = Nobody]
        BY <2>1, <3>2 DEF Forgotten
      <4>2. /\ call'[c].at = call[c].at /\ call'[c].sale = k
            /\ call'[c].by = Nobody
        BY <1>2, <4>1 DEF TypeOK
      <4>3. CallOK(c)
        BY DEF CallsOK
      <4>4. call'[c].at \in {"notify", "201"} => invoices'[k] = 1
        BY <1>2, <4>2, <4>3 DEF CallOK
      <4> QED BY <2>2, <4>2, <4>4 DEF CallOK
    <3>3. ASSUME NEW d \in Slots, d # c
          PROVE  CallOK(d)'
      <4>1. call[d].at # "free" => call[d].sale \in Sales \ {k}
        BY <2>3, <3>3 DEF CallsOK, CallOK
      <4> QED BY <2>1, <2>2, <3>3, <4>1, OtherCallsKeep
    <3>4. CallOK(c)'
      BY <3>1, <3>2
    <3> QED BY <3>3, <3>4
  <2>5. \A d, e \in Slots : call'[d].by = call'[e].by /\ call'[d].by # Nobody => d = e
    BY <2>1 DEF CallsOK, Free, Forgotten, TypeOK
  <2> QED BY <2>4, <2>5 DEF CallsOK
<1>6. PagesOK'
  BY DEF TypeOK, PagesOK, PageOK
<1>7. PassesOK'
  BY DEF PassesOK, Current
<1>8. QueuedSaleKept'
  BY DEF TypeOK, QueuedSaleKept
<1> QED BY <1>3, <1>4, <1>5, <1>6, <1>7, <1>8

(* What the cashier throws away is noted.                                  *)
LEMMA DiscardKeeps ==
  ASSUME IInv, NEW k \in Sales, Discard(k)
  PROVE  IInv'
<1> USE DEF IInv, Discard, server
<1>1. TypeOK'
  BY DEF TypeOK
<1>2. KeyMatchesInvoice' /\ PassesOK'
  BY DEF KeyMatchesInvoice, PassesOK, Current
<1>3. CallsOK'
  BY DEF CallsOK, CallOK, Current
<1>4. PagesOK' /\ QueuedSaleKept'
  BY DEF TypeOK, PagesOK, PageOK, QueuedSaleKept
<1> QED BY <1>1, <1>2, <1>3, <1>4

-----------------------------------------------------------------------------
(* A pass that neither posts nor waits may go to any place of its own, as  *)
(* long as an item leaves the outbox only when its sale is booked.         *)
PassRecord ==
  [pc : {"idle", "probe", "list"} \cup AtItem,
   queue : SUBSET Sales, to : {"syncing", "pending", "error"}]
LEMMA PassMovesOn ==
  ASSUME IInv, NEW p \in Passes, NEW r \in PassRecord,
         pass[p].pc # "wait", pass' = [pass EXCEPT ![p] = r],
         r.pc \notin {"wait", "remove"},
         r.pc \in AtItem => r.queue # {},
         \A k \in r.queue : page[k] = "queued",
         flushing' \in BOOLEAN, failures' \in 0..MaxFailures,
         item' \in [Sales -> {"none", "pending", "syncing", "error"}],
         \A k \in Sales : page[k] # "queued" => item'[k] = "none",
         \A k \in Sales : item'[k] = "none" => item[k] = "none" \/ invoices[k] = 1,
         UNCHANGED <<page, discarded, server, call>>
  PROVE  IInv'
<1> USE DEF IInv, server
<1>1. pass'[p] = r /\ \A q \in Passes : q # p => pass'[q] = pass[q]
  BY DEF TypeOK
<1>2. TypeOK'
  <2>1. pass' \in [Passes -> PassRecord]
    BY DEF TypeOK, PassRecord
  <2>2. \A q \in Passes : pass'[q].pc \in AtItem => pass'[q].queue # {}
    BY <1>1 DEF TypeOK
  <2> QED BY <2>1, <2>2 DEF TypeOK, PassRecord
<1>3. KeyMatchesInvoice'
  BY DEF KeyMatchesInvoice
<1>4. CallsOK'
  <2>1. \A c \in Slots : call[c].by # p
    BY DEF CallsOK, CallOK
  <2>2. \A c \in Slots : CallOK(c)'
    BY <1>1, <2>1, OtherCallsKeep
  <2> QED BY <2>2 DEF CallsOK
<1>5. PagesOK'
  BY <1>1 DEF PagesOK, PageOK
<1>6. PassesOK'
  BY <1>1 DEF PassesOK, Current
<1>7. QueuedSaleKept'
  BY DEF QueuedSaleKept
<1> QED BY <1>2, <1>3, <1>4, <1>5, <1>6, <1>7

(* What a pass has in hand was queued.                                     *)
LEMMA QueueIsQueued ==
  ASSUME IInv, NEW p \in Passes
  PROVE  /\ pass[p].queue \subseteq Sales
         /\ \A k \in pass[p].queue : page[k] = "queued"
BY DEF IInv, TypeOK, PagesOK, PageOK

(* Where Continue takes a pass.                                            *)
PlaceAfter(q) == IF q = {} THEN Idle ELSE [pc |-> "get", queue |-> q, to |-> "syncing"]
(* Where a pass goes after an item, its place is in order.                 *)
LEMMA ContinueGoes ==
  ASSUME TypeOK, NEW p \in Passes, NEW q \in SUBSET Sales, Continue(p, q)
  PROVE  /\ pass' = [pass EXCEPT ![p] = PlaceAfter(q)]
         /\ PlaceAfter(q) \in PassRecord
         /\ PlaceAfter(q).pc \notin {"wait", "remove"}
         /\ PlaceAfter(q).pc \in AtItem => PlaceAfter(q).queue # {}
         /\ PlaceAfter(q).queue = q
         /\ flushing' \in BOOLEAN
<1>1. CASE q = {}
  BY <1>1 DEF Continue, PlaceAfter, Idle, PassRecord, AtItem
<1>2. CASE q # {}
  BY <1>2 DEF Continue, PlaceAfter, PassRecord, AtItem, TypeOK
<1> QED BY <1>1, <1>2

(* Going on to the next item changes one pass and the flag.                *)
LEMMA PassContinues ==
  ASSUME IInv, NEW p \in Passes, NEW q \in SUBSET Sales, Continue(p, q),
         pass[p].pc # "wait",
         \A k \in q : page[k] = "queued",
         item' \in [Sales -> {"none", "pending", "syncing", "error"}],
         \A k \in Sales : page[k] # "queued" => item'[k] = "none",
         \A k \in Sales : item'[k] = "none" => item[k] = "none" \/ invoices[k] = 1,
         UNCHANGED <<page, discarded, server, call, failures>>
  PROVE  IInv'
<1>1. TypeOK /\ failures' \in 0..MaxFailures
  BY DEF IInv, TypeOK
<1> DEFINE r == PlaceAfter(q)
<1>2. /\ r \in PassRecord /\ r.pc \notin {"wait", "remove"} /\ r.queue = q
      /\ r.pc \in AtItem => r.queue # {}
      /\ pass' = [pass EXCEPT ![p] = r] /\ flushing' \in BOOLEAN
  BY <1>1, ContinueGoes
<1> HIDE DEF r
<1> QED BY <1>1, <1>2, PassMovesOn

(* The bound on the failures.                                              *)
LEMMA FailsTyped ==
  ASSUME TypeOK, UNCHANGED failures \/ Fails
  PROVE  failures' \in 0..MaxFailures
BY SyncConstants DEF TypeOK, Fails

(* The steps of a pass.                                                    *)
LEMMA StartPassKeeps ==
  ASSUME IInv, NEW p \in Passes, StartPass(p)
  PROVE  IInv'
<1> DEFINE r == [pass[p] EXCEPT !.pc = "probe"]
<1>1. r \in PassRecord /\ r.pc = "probe" /\ r.queue = pass[p].queue
  BY DEF IInv, TypeOK, PassRecord
<1>2. pass' = [pass EXCEPT ![p] = r] /\ pass[p].pc = "idle"
  BY DEF StartPass
<1>3. /\ r.pc \notin {"wait", "remove"} /\ r.pc \notin AtItem
      /\ \A k \in r.queue : page[k] = "queued"
  BY <1>1, QueueIsQueued DEF AtItem
<1>4. /\ flushing' \in BOOLEAN /\ failures' \in 0..MaxFailures
      /\ item' \in [Sales -> {"none", "pending", "syncing", "error"}]
      /\ \A k \in Sales : page[k] # "queued" => item'[k] = "none"
      /\ item' = item /\ UNCHANGED <<page, discarded, server, call>>
  BY DEF StartPass, passFrame, IInv, TypeOK, PagesOK, PageOK
<1> HIDE DEF r
<1> QED BY <1>2, <1>3, <1>4, <1>1, PassMovesOn

LEMMA ProbeKeeps ==
  ASSUME IInv, NEW p \in Passes, Probe(p)
  PROVE  IInv'
<1>1. /\ item' \in [Sales -> {"none", "pending", "syncing", "error"}]
      /\ \A k \in Sales : page[k] # "queued" => item'[k] = "none"
      /\ item' = item /\ UNCHANGED <<page, discarded, server, call>>
      /\ flushing' \in BOOLEAN /\ failures' \in 0..MaxFailures /\ pass[p].pc = "probe"
  <2>1. pass[p].pc = "probe" /\ item' = item /\ UNCHANGED <<page, discarded, server, call>>
    BY DEF Probe, passFrame
  <2>2. flushing' \in BOOLEAN
    BY DEF Probe, IInv, TypeOK
  <2>3. failures' \in 0..MaxFailures
    <3>1. UNCHANGED failures \/ Fails
      BY DEF Probe
    <3> QED BY <3>1, FailsTyped DEF IInv
  <2> QED BY <2>1, <2>2, <2>3 DEF IInv, TypeOK, PagesOK, PageOK
<1>2. CASE pass' = [pass EXCEPT ![p].pc = "list"]
  <2> DEFINE r == [pass[p] EXCEPT !.pc = "list"]
  <2>1. r \in PassRecord /\ r.pc = "list" /\ r.queue = pass[p].queue
    BY DEF IInv, TypeOK, PassRecord
  <2>2. pass' = [pass EXCEPT ![p] = r]
    BY <1>2
  <2>3. /\ r.pc \notin {"wait", "remove"} /\ r.pc \notin AtItem
        /\ \A k \in r.queue : page[k] = "queued"
    BY <2>1, QueueIsQueued DEF AtItem
  <2> HIDE DEF r
  <2> QED BY <1>1, <2>1, <2>2, <2>3, PassMovesOn
<1>3. CASE pass' = [pass EXCEPT ![p] = Idle]
  <2>1. Idle \in PassRecord /\ Idle.pc = "idle" /\ Idle.queue = {} /\ Idle.pc \notin AtItem
    BY DEF Idle, PassRecord, AtItem
  <2> QED BY <1>1, <1>3, <2>1, PassMovesOn
<1> QED BY <1>2, <1>3 DEF Probe

(* What a pass lists is in the outbox, so it was queued.                   *)
LEMMA ListKeeps ==
  ASSUME IInv, NEW p \in Passes, List(p)
  PROVE  IInv'
<1>1. Listed \in SUBSET Sales /\ \A k \in Listed : page[k] = "queued"
  BY DEF Listed, IInv, TypeOK, PagesOK, PageOK
<1>2. /\ item' \in [Sales -> {"none", "pending", "syncing", "error"}]
      /\ \A k \in Sales : page[k] # "queued" => item'[k] = "none"
      /\ item' = item /\ UNCHANGED <<page, discarded, server, call, failures>>
      /\ pass[p].pc # "wait" /\ Continue(p, Listed)
  BY DEF List, passFrame, IInv, TypeOK, PagesOK, PageOK
<1> QED BY <1>1, <1>2, PassContinues

(* After an item has its new status.                                       *)
LEMMA AfterUpdateKeeps ==
  ASSUME IInv, NEW p \in Passes, AfterUpdate(p), pass[p].pc \in {"get", "put"},
         item' \in [Sales -> {"none", "pending", "syncing", "error"}],
         \A k \in Sales : page[k] # "queued" => item'[k] = "none",
         \A k \in Sales : item'[k] = "none" => item[k] = "none" \/ invoices[k] = 1,
         UNCHANGED <<page, discarded, server, call, failures>>
  PROVE  IInv'
<1>1. CASE pass' = [pass EXCEPT ![p].pc = "send"] /\ UNCHANGED flushing
  <2> DEFINE r == [pass[p] EXCEPT !.pc = "send"]
  <2>1. r \in PassRecord /\ r.pc = "send" /\ r.queue = pass[p].queue
    BY DEF IInv, TypeOK, PassRecord, AtItem
  <2>2. pass' = [pass EXCEPT ![p] = r]
    BY <1>1
  <2>3. /\ r.pc \notin {"wait", "remove"} /\ r.queue # {}
        /\ \A k \in r.queue : page[k] = "queued"
        /\ flushing' \in BOOLEAN /\ failures' \in 0..MaxFailures
    BY <1>1, <2>1, QueueIsQueued DEF IInv, TypeOK, AtItem
  <2> HIDE DEF r
  <2> QED BY <2>1, <2>2, <2>3, PassMovesOn
<1>2. CASE Continue(p, Others(p))
  <2>1. Others(p) \in SUBSET Sales /\ \A k \in Others(p) : page[k] = "queued"
    BY QueueIsQueued DEF Others
  <2> QED BY <1>2, <2>1, PassContinues
<1>3. CASE Continue(p, {})
  BY <1>3, PassContinues
<1> QED BY <1>1, <1>2, <1>3 DEF AfterUpdate

LEMMA GetItemKeeps ==
  ASSUME IInv, NEW p \in Passes, GetItem(p)
  PROVE  IInv'
<1>1. /\ item' \in [Sales -> {"none", "pending", "syncing", "error"}]
      /\ \A k \in Sales : page[k] # "queued" => item'[k] = "none"
      /\ item' = item /\ UNCHANGED <<page, discarded, server, call, failures>>
      /\ pass[p].pc = "get" /\ failures' \in 0..MaxFailures
  BY DEF GetItem, passFrame, IInv, TypeOK, PagesOK, PageOK
<1>2. CASE pass' = [pass EXCEPT ![p].pc = "put"] /\ UNCHANGED flushing
  <2> DEFINE r == [pass[p] EXCEPT !.pc = "put"]
  <2>1. r \in PassRecord /\ r.pc = "put" /\ r.queue = pass[p].queue
    BY DEF IInv, TypeOK, PassRecord, AtItem
  <2>2. pass' = [pass EXCEPT ![p] = r]
    BY <1>2
  <2>3. /\ r.pc \notin {"wait", "remove"} /\ r.queue # {} /\ flushing' \in BOOLEAN
        /\ \A k \in r.queue : page[k] = "queued"
    BY <1>1, <1>2, <2>1, QueueIsQueued DEF IInv, TypeOK, AtItem
  <2> HIDE DEF r
  <2> QED BY <1>1, <2>1, <2>2, <2>3, PassMovesOn
<1>3. CASE AfterUpdate(p)
  BY <1>1, <1>3, AfterUpdateKeeps
<1> QED BY <1>2, <1>3 DEF GetItem

(* The second half of an update puts the item back, whatever came between. *)
LEMMA PutItemKeeps ==
  ASSUME IInv, NEW p \in Passes, PutItem(p)
  PROVE  IInv'
<1>1. pass[p].pc = "put" /\ pass[p].queue # {} /\ TypeOK
  BY DEF PutItem, IInv, TypeOK, AtItem
<1>2. Current(p) \in Sales /\ page[Current(p)] = "queued"
  BY <1>1, CurrentIsLeft, QueueIsQueued
<1>3. /\ item' \in [Sales -> {"none", "pending", "syncing", "error"}]
      /\ \A k \in Sales : item'[k] = IF k = Current(p) THEN pass[p].to ELSE item[k]
      /\ pass[p].to # "none"
  BY <1>2 DEF PutItem, IInv, TypeOK
<1>4. /\ \A k \in Sales : page[k] # "queued" => item'[k] = "none"
      /\ \A k \in Sales : item'[k] = "none" => item[k] = "none" \/ invoices[k] = 1
  BY <1>2, <1>3 DEF IInv, PagesOK, PageOK
<1>5. AfterUpdate(p) /\ UNCHANGED <<page, discarded, server, call, failures>>
  BY DEF PutItem, passFrame
<1> QED BY <1>1, <1>3, <1>4, <1>5, AfterUpdateKeeps

(* An item is removed after a 201 only: its sale is booked.                *)
LEMMA RemoveItemKeeps ==
  ASSUME IInv, NEW p \in Passes, RemoveItem(p)
  PROVE  IInv'
<1>1. pass[p].pc = "remove" /\ pass[p].queue # {} /\ TypeOK
  BY DEF RemoveItem, IInv, TypeOK, AtItem
<1>2. Current(p) \in Sales /\ invoices[Current(p)] = 1
  BY <1>1, CurrentIsLeft DEF IInv, PassesOK
<1>3. /\ item' \in [Sales -> {"none", "pending", "syncing", "error"}]
      /\ \A k \in Sales : item'[k] = IF k = Current(p) THEN "none" ELSE item[k]
  BY <1>2 DEF RemoveItem, IInv, TypeOK
<1>4. /\ \A k \in Sales : page[k] # "queued" => item'[k] = "none"
      /\ \A k \in Sales : item'[k] = "none" => item[k] = "none" \/ invoices[k] = 1
  BY <1>2, <1>3 DEF IInv, PagesOK, PageOK
<1>5. /\ Continue(p, Others(p)) /\ UNCHANGED <<page, discarded, server, call, failures>>
      /\ Others(p) \in SUBSET Sales /\ \A k \in Others(p) : page[k] = "queued"
  BY QueueIsQueued DEF RemoveItem, passFrame, Others
<1> QED BY <1>1, <1>3, <1>4, <1>5, PassContinues

(* A pass posts the item it has in hand.                                   *)
LEMMA SendItemKeeps ==
  ASSUME IInv, NEW p \in Passes, SendItem(p)
  PROVE  IInv'
<1> USE DEF IInv
<1>1. /\ pass[p].pc = "send" /\ pass[p].queue # {} /\ p # Page /\ p # Nobody
      /\ UNCHANGED <<item, flushing, failures, page, discarded, idem, invoices>>
  BY SyncConstants DEF SendItem, passFrame, TypeOK, AtItem, server
<1>2. Current(p) \in Sales /\ page[Current(p)] = "queued"
  BY <1>1, CurrentIsLeft, QueueIsQueued
<1>3. PICK c \in Slots :
        /\ call[c] = Free
        /\ call' = [call EXCEPT ![c] =
              [at |-> "lookup", sale |-> Current(p), by |-> p, synced |-> TRUE]]
  BY <1>1 DEF SendItem, Post
<1>4. /\ call'[c] = [at |-> "lookup", sale |-> Current(p), by |-> p, synced |-> TRUE]
      /\ \A d \in Slots : d # c => call'[d] = call[d]
  BY <1>3 DEF TypeOK
<1>5. /\ pass'[p] = [pass[p] EXCEPT !.pc = "wait"]
      /\ pass'[p].pc = "wait" /\ pass'[p].queue = pass[p].queue /\ pass'[p].to = pass[p].to
      /\ \A q \in Passes : q # p => pass'[q] = pass[q]
  BY DEF SendItem, TypeOK
<1>6. TypeOK'
  <2>1. call' \in [Slots -> [at : {"free", "lookup", "checks", "bill", "notify"} \cup Answers,
                            sale : Sales \cup {0}, by : Passes \cup {Page, Nobody},
                            synced : BOOLEAN]]
    BY <1>2, <1>3 DEF TypeOK
  <2>2. pass' \in [Passes -> PassRecord]
    BY <1>5 DEF SendItem, TypeOK, PassRecord, AtItem
  <2>3. \A q \in Passes : pass'[q].pc \in AtItem => pass'[q].queue # {}
    BY <1>1, <1>5 DEF TypeOK
  <2> QED BY <1>1, <2>1, <2>2, <2>3 DEF TypeOK, PassRecord
<1>7. KeyMatchesInvoice' /\ QueuedSaleKept'
  BY <1>1 DEF KeyMatchesInvoice, QueuedSaleKept
<1>8. CallsOK'
  <2>1. \A d \in Slots : call[d].by # p
    BY <1>1 DEF CallsOK, CallOK
  <2>2. Current(p)' = Current(p)
    BY <1>5 DEF Current
  <2>3. CallOK(c)'
    <3>1. /\ call'[c].at = "lookup" /\ call'[c].sale = Current(p)
          /\ call'[c].by = p
      BY <1>4
    <3> QED BY <1>1, <1>2, <1>5, <2>2, <3>1 DEF CallOK, Current
  <2>4. ASSUME NEW d \in Slots, d # c
        PROVE  CallOK(d)'
    BY <1>1, <1>4, <1>5, <2>1, <2>4, OtherCallsKeep
  <2>5. \A d, e \in Slots : call'[d].by = call'[e].by /\ call'[d].by # Nobody => d = e
    BY <1>4, <2>1 DEF CallsOK
  <2> QED BY <2>3, <2>4, <2>5 DEF CallsOK
<1>9. PagesOK'
  BY <1>1, <1>5 DEF PagesOK, PageOK
<1>10. PassesOK'
  BY <1>1, <1>5 DEF PassesOK, Current
<1> QED BY <1>6, <1>7, <1>8, <1>9, <1>10

(* A call that is answered, or given up, at the slot it has.               *)
LEMMA CallGivenUp ==
  ASSUME IInv, NEW c \in Slots, call[c].at # "free",
         call'[c] = Free \/ call'[c] = [call[c] EXCEPT !.by = Nobody],
         page'[call[c].sale] \in {"queued", "closed"} \/ call'[c] = Free,
         invoices' = invoices
  PROVE  CallOK(c)'
<1> USE SyncConstants DEF IInv
<1>1. CASE call'[c] = Free
  <2>1. call'[c].at = "free" /\ call'[c].by = Nobody
    BY <1>1 DEF Free
  <2> QED BY <2>1 DEF CallOK
<1>2. CASE call'[c] # Free
  <2>1. /\ call'[c].at = call[c].at /\ call'[c].sale = call[c].sale
        /\ call'[c].by = Nobody
    BY <1>2 DEF TypeOK
  <2>2. /\ call[c].sale \in Sales
        /\ call[c].at \in {"notify", "201"} => invoices[call[c].sale] = 1
    BY DEF CallsOK, CallOK
  <2> QED BY <1>2, <2>1, <2>2 DEF CallOK
<1> QED BY <1>1, <1>2

(* The server's steps on a call.                                           *)
LEMMA ReceiveKeeps ==
  ASSUME IInv, NEW p \in Passes, Receive(p)
  PROVE  IInv'
<1> USE DEF IInv
<1>1. /\ pass[p].pc = "wait" /\ pass[p].queue # {} /\ p # Page /\ p # Nobody
      /\ UNCHANGED <<item, flushing, page, discarded, idem, invoices>>
  BY SyncConstants DEF Receive, passFrame, TypeOK, AtItem, server
<1>2. PICK c \in Slots, f \in {"remove", "get"}, to \in {"syncing", "pending", "error"} :
        /\ call[c].by = p
        /\ f = "remove" => call[c].at = "201"
        /\ call' = [call EXCEPT ![c] = Free] \/ call' = [call EXCEPT ![c] = Forgotten(c)]
        /\ pass' = [pass EXCEPT ![p].pc = f, ![p].to = to]
        /\ failures' \in 0..MaxFailures
  <2>1. CASE Answered(p, {"201"}) /\ pass' = [pass EXCEPT ![p].pc = "remove"]
    <3>1. pass' = [pass EXCEPT ![p].pc = "remove", ![p].to = pass[p].to]
      BY <2>1 DEF TypeOK
    <3>2. pass[p].to \in {"syncing", "pending", "error"} /\ failures \in 0..MaxFailures
      BY DEF TypeOK
    <3>3. PICK c \in Slots :
            /\ call[c].by = p /\ call[c].at = "201" /\ UNCHANGED failures
            /\ call' = [call EXCEPT ![c] = Free]
      BY <2>1 DEF Answered, CallsOf
    <3> HIDE DEF IInv
    <3> QED BY <3>1, <3>2, <3>3
  <2>2. CASE Answered(p, {"422"}) /\ pass' = [pass EXCEPT ![p].pc = "get", ![p].to = "error"]
    BY <2>2, FailsTyped DEF Answered, CallsOf
  <2>3. CASE /\ Answered(p, {"500"}) \/ NetworkError(p)
             /\ pass' = [pass EXCEPT ![p].pc = "get", ![p].to = "pending"]
    BY <2>3, FailsTyped DEF Answered, NetworkError, CallsOf
  <2> QED BY <2>1, <2>2, <2>3 DEF Receive, Settle
<1>3. /\ call[c].at # "free" /\ call[c].sale = Current(p) /\ page[Current(p)] = "queued"
      /\ f = "remove" => invoices[Current(p)] = 1
  <2>1. call[c].at # "free" /\ call[c].sale = Current(p)
    BY <1>1, <1>2 DEF CallsOK, CallOK
  <2>2. page[Current(p)] = "queued"
    BY <1>1, CurrentIsLeft, QueueIsQueued
  <2>3. f = "remove" => invoices[Current(p)] = 1
    BY <1>2, <2>1 DEF CallsOK, CallOK
  <2> QED BY <2>1, <2>2, <2>3
<1>4. /\ call'[c] = Free \/ call'[c] = [call[c] EXCEPT !.by = Nobody]
      /\ \A d \in Slots : d # c => call'[d] = call[d]
  BY <1>2 DEF TypeOK, Forgotten
<1>5. /\ pass'[p].pc = f /\ pass'[p].queue = pass[p].queue
      /\ \A q \in Passes : q # p => pass'[q] = pass[q]
  BY <1>2 DEF TypeOK
<1>6. TypeOK'
  <2>1. call' \in [Slots -> [at : {"free", "lookup", "checks", "bill", "notify"} \cup Answers,
                            sale : Sales \cup {0}, by : Passes \cup {Page, Nobody},
                            synced : BOOLEAN]]
    <3> DEFINE Calls ==
          [at : {"free", "lookup", "checks", "bill", "notify"} \cup Answers,
           sale : Sales \cup {0}, by : Passes \cup {Page, Nobody}, synced : BOOLEAN]
    <3>1. Free \in Calls
      BY DEF Free
    <3>2. call[c] \in Calls /\ call \in [Slots -> Calls]
      BY DEF TypeOK
    <3>3. [call[c] EXCEPT !.by = Nobody] \in Calls
      BY <3>2
    <3>4. Forgotten(c) \in Calls
      BY <3>1, <3>3 DEF Forgotten
    <3> HIDE DEF Calls, IInv
    <3>5. call' \in [Slots -> Calls]
      BY <1>2, <3>1, <3>2, <3>4
    <3> QED BY <3>5 DEF Calls
  <2>2. pass' \in [Passes -> PassRecord]
    <3>1. pass'[p] = [pass[p] EXCEPT !.pc = f, !.to = to]
      BY <1>2 DEF TypeOK
    <3>2. pass'[p] \in PassRecord
      <4>1. pass[p] \in PassRecord
        BY DEF TypeOK, PassRecord
      <4> HIDE DEF IInv
      <4> QED BY <3>1, <4>1 DEF PassRecord, AtItem
    <3>3. pass' = [pass EXCEPT ![p] = pass'[p]]
      BY <1>2, <3>1 DEF TypeOK
    <3> QED BY <3>2, <3>3 DEF TypeOK, PassRecord
  <2>3. \A q \in Passes : pass'[q].pc \in AtItem => pass'[q].queue # {}
    BY <1>1, <1>5 DEF TypeOK
  <2> QED BY <1>1, <1>2, <2>1, <2>2, <2>3 DEF TypeOK, PassRecord
<1>7. KeyMatchesInvoice' /\ QueuedSaleKept'
  BY <1>1 DEF KeyMatchesInvoice, QueuedSaleKept
<1>8. CallsOK'
  <2>1. CallOK(c)'
    BY <1>1, <1>3, <1>4, CallGivenUp
  <2>2. ASSUME NEW d \in Slots, d # c
        PROVE  CallOK(d)'
    <3>1. call[d].by # p
      BY <1>1, <1>2, <2>2 DEF CallsOK
    <3> QED BY <1>1, <1>4, <1>5, <2>2, <3>1, OtherCallsKeep
  <2>3. \A d, e \in Slots : call'[d].by = call'[e].by /\ call'[d].by # Nobody => d = e
    <3>1. call'[c].by = Nobody
      BY <1>4 DEF Free, TypeOK
    <3> QED BY <1>4, <3>1 DEF CallsOK
  <2> QED BY <2>1, <2>2, <2>3 DEF CallsOK
<1>9. PagesOK'
  BY <1>1, <1>5 DEF PagesOK, PageOK
<1>10. PassesOK'
  BY <1>1, <1>3, <1>5 DEF PassesOK, Current
<1> QED BY <1>6, <1>7, <1>8, <1>9, <1>10

(* The browser goes: every call is given up, every pass is gone.           *)
LEMMA CloseKeeps ==
  ASSUME IInv, Close
  PROVE  IInv'
<1> USE DEF IInv
<1>1. /\ UNCHANGED <<item, discarded, idem, invoices>> /\ flushing' = FALSE
      /\ failures' \in 0..MaxFailures
      /\ \A q \in Passes : pass'[q] = Idle
      /\ \A k \in Sales : page'[k] = IF page[k] = "posting" THEN "closed" ELSE page[k]
      /\ \A c \in Slots : call'[c] = Forgotten(c)
  BY FailsTyped DEF Close, server
<1>2. TypeOK'
  <2>1. call' \in [Slots -> [at : {"free", "lookup", "checks", "bill", "notify"} \cup Answers,
                            sale : Sales \cup {0}, by : Passes \cup {Page, Nobody},
                            synced : BOOLEAN]]
    BY DEF Close, TypeOK, Forgotten, Free
  <2>2. /\ pass' \in [Passes -> PassRecord]
        /\ \A q \in Passes : pass'[q].pc \notin AtItem
    BY DEF Close, Idle, PassRecord, AtItem
  <2>3. page' \in [Sales -> {"new", "posting", "billed", "refused", "queued", "closed"}]
    BY DEF Close, TypeOK
  <2> QED BY <1>1, <2>1, <2>2, <2>3 DEF TypeOK, PassRecord
<1>3. KeyMatchesInvoice'
  BY <1>1 DEF KeyMatchesInvoice
<1>4. CallsOK'
  <2>1. ASSUME NEW c \in Slots
        PROVE  CallOK(c)' /\ call'[c].by = Nobody
    <3>1. call'[c] = Free \/ call'[c] = [call[c] EXCEPT !.by = Nobody]
      BY <1>1 DEF Forgotten
    <3>2. call'[c].by = Nobody
      BY <3>1 DEF Free, TypeOK
    <3>3. CASE call[c].at = "free"
      <4>1. call'[c].at = "free"
        BY <3>1, <3>3 DEF Free, TypeOK
      <4> QED BY <3>2, <4>1, SyncConstants DEF CallOK
    <3>4. CASE call[c].at # "free"
      <4>1. page'[call[c].sale] \in {"queued", "closed"}
        BY <1>1, <3>4 DEF CallsOK, CallOK
      <4> QED BY <1>1, <3>1, <3>2, <3>4, <4>1, CallGivenUp
    <3> QED BY <3>2, <3>3, <3>4
  <2> QED BY <2>1 DEF CallsOK
<1>5. PagesOK'
  BY <1>1 DEF PagesOK, PageOK, Idle
<1>6. PassesOK'
  BY <1>1 DEF PassesOK, Idle
<1>7. QueuedSaleKept'
  BY <1>1 DEF QueuedSaleKept
<1> QED BY <1>2, <1>3, <1>4, <1>5, <1>6, <1>7

-----------------------------------------------------------------------------
(* The server moves a call: to its next step, to an answer, or, when       *)
(* nobody waits for the answer, out of its slot.  It may book the call's   *)
(* sale with that, but nothing else.                                       *)
Moved(c, at) ==
  \/ call[c].by = Nobody /\ call' = [call EXCEPT ![c] = Free]
  \/ call' = [call EXCEPT ![c] = [call[c] EXCEPT !.at = at]]

LEMMA CallMoves ==
  ASSUME IInv, KeyMatchesInvoice', NEW c \in Slots, call[c].at # "free",
         NEW at \in {"lookup", "checks", "bill", "notify"} \cup Answers, Moved(c, at),
         \A k \in Sales : k # call[c].sale => invoices'[k] = invoices[k],
         invoices'[call[c].sale] \in {invoices[call[c].sale], 1},
         at \in {"notify", "201"} => invoices'[call[c].sale] = 1,
         at \notin {"notify", "201"} /\ call[c].by = Page => invoices'[call[c].sale] = 0,
         failures' \in 0..MaxFailures,
         UNCHANGED client
  PROVE  IInv'
<1> USE SyncConstants DEF IInv, client
<1>1. /\ call[c].sale \in Sales
      /\ page[call[c].sale] \in {"posting", "queued", "closed"}
  BY DEF CallsOK, CallOK
<1>2. \A k \in Sales : invoices[k] \in {0, 1} /\ invoices[k] = 1 => invoices'[k] = 1
  BY DEF KeyMatchesInvoice
<1>3. \A d \in Slots : d # c => call'[d] = call[d]
  BY DEF TypeOK, Moved
<1>4. \/ call[c].by = Nobody /\ call'[c] = Free
      \/ /\ call'[c].at = at /\ call'[c].sale = call[c].sale
         /\ call'[c].by = call[c].by /\ call'[c].synced = call[c].synced
  BY DEF TypeOK, Moved
<1>5. TypeOK'
  <2>1. call' \in [Slots -> [at : {"free", "lookup", "checks", "bill", "notify"} \cup Answers,
                            sale : Sales \cup {0}, by : Passes \cup {Page, Nobody},
                            synced : BOOLEAN]]
    <3>1. Free \in [at : {"free", "lookup", "checks", "bill", "notify"} \cup Answers,
                    sale : Sales \cup {0}, by : Passes \cup {Page, Nobody},
                    synced : BOOLEAN]
      BY DEF Free
    <3>2. CASE call' = [call EXCEPT ![c] = Free]
      BY <3>1, <3>2 DEF TypeOK
    <3>3. CASE call' = [call EXCEPT ![c] = [call[c] EXCEPT !.at = at]]
      BY <3>3 DEF TypeOK
    <3> QED BY <3>2, <3>3 DEF Moved
  <2> QED BY <2>1 DEF TypeOK, KeyMatchesInvoice
<1>6. CallsOK'
  <2>1. CallOK(c)'
    <3>1. CASE call'[c] = Free
      <4>1. call'[c].at = "free" /\ call'[c].by = Nobody
        BY <3>1 DEF Free
      <4> QED BY <4>1 DEF CallOK
    <3>2. CASE /\ call'[c].at = at /\ call'[c].sale = call[c].sale
               /\ call'[c].by = call[c].by /\ call'[c].synced = call[c].synced
      <4>1. CallOK(c) /\ at # "free"
        BY DEF CallsOK, Answers
      <4> QED BY <1>1, <3>2, <4>1 DEF CallOK, Current
    <3> QED BY <1>4, <3>1, <3>2
  <2>2. ASSUME NEW d \in Slots, d # c
        PROVE  CallOK(d)'
    <3>1. CallOK(d) /\ call'[d] = call[d]
      BY <1>3, <2>2 DEF CallsOK
    <3>2. call[d].by = Page => call[d].sale # call[c].sale
      BY <2>2 DEF CallsOK, CallOK
    <3>3. call[d].at \in {"notify", "201"} => invoices'[call[d].sale] = 1
      BY <1>2, <3>1, <1>1 DEF CallOK
    <3>4. call[d].by = Page /\ call[d].at \notin {"notify", "201"} =>
            invoices'[call[d].sale] = 0
      BY <3>1, <3>2 DEF CallOK
    <3> QED BY <3>1, <3>3, <3>4 DEF CallOK, Current
  <2>3. \A d, e \in Slots : call'[d].by = call'[e].by /\ call'[d].by # Nobody => d = e
    BY <1>3, <1>4 DEF CallsOK, Free
  <2> QED BY <2>1, <2>2, <2>3 DEF CallsOK
<1>7. PagesOK'
  BY <1>1 DEF PagesOK, PageOK
<1>8. PassesOK'
  <2>1. ASSUME NEW p \in Passes, pass[p].pc = "remove"
        PROVE  invoices'[Current(p)] = 1
    <3>1. Current(p) \in Sales /\ invoices[Current(p)] = 1
      BY <2>1, CurrentIsLeft DEF TypeOK, AtItem, PassesOK
    <3> QED BY <1>2, <3>1
  <2> QED BY <2>1 DEF PassesOK, Current
<1>9. QueuedSaleKept'
  BY <1>2 DEF QueuedSaleKept
<1> QED BY <1>5, <1>6, <1>7, <1>8, <1>9

(* A call of the page finds no key while its sale is not booked.           *)
LEMMA PageFindsNoKey ==
  ASSUME IInv, NEW c \in Slots, call[c].by = Page, call[c].at \notin {"notify", "201"}
  PROVE  call[c].sale \in Sales /\ invoices[call[c].sale] = 0 /\ idem[call[c].sale] = "none"
<1>1. CallOK(c)
  BY DEF IInv, CallsOK
<1>2. call[c].sale \in Sales /\ invoices[call[c].sale] = 0
  BY <1>1, SyncConstants DEF CallOK
<1> QED BY <1>2 DEF IInv, KeyMatchesInvoice

(* The steps before the commit, and the failures, book nothing.            *)
LEMMA ServerStepsKeep ==
  ASSUME IInv, NEW c \in Slots,
         Lookup(c) \/ Checks(c) \/ ServerError(c) \/ NeverArrived(c)
  PROVE  IInv'
<1> USE DEF IInv
<1>1. UNCHANGED <<client, invoices, idem>> /\ KeyMatchesInvoice'
  BY DEF Lookup, Checks, ServerError, NeverArrived, KeyMatchesInvoice, server
<1>2. call[c].at \in {"lookup", "checks", "bill"} /\ failures' \in 0..MaxFailures
  <2>1. UNCHANGED failures \/ Fails
    BY DEF Lookup, Checks, ServerError, NeverArrived
  <2> QED BY <2>1, FailsTyped DEF Lookup, Checks, ServerError, NeverArrived
<1>3. call[c].sale \in Sales /\ invoices[call[c].sale] \in Nat
  BY <1>2 DEF CallsOK, CallOK, KeyMatchesInvoice
<1>4. call[c].by = Page => invoices[call[c].sale] = 0 /\ idem[call[c].sale] = "none"
  BY <1>2, PageFindsNoKey
<1>5. PICK at \in {"checks", "bill"} \cup Answers :
        Moved(c, at) /\ (at = "201" => idem[call[c].sale] = "live")
  BY SyncConstants DEF Lookup, Checks, ServerError, NeverArrived, Goto, Answer, Moved, Answers
<1>6. at = "201" => invoices[call[c].sale] = 1
  BY <1>3, <1>5 DEF KeyMatchesInvoice
<1> QED BY <1>1, <1>2, <1>3, <1>4, <1>5, <1>6, CallMoves DEF Answers

(* The booking and its key are one step.                                   *)
LEMMA BillKeeps ==
  ASSUME IInv, NEW c \in Slots, Bill(c)
  PROVE  IInv'
<1> USE DEF IInv
<1>1. /\ UNCHANGED client /\ failures' \in 0..MaxFailures /\ call[c].at = "bill"
      /\ call[c].sale \in Sales /\ invoices[call[c].sale] \in Nat
  BY DEF Bill, TypeOK, CallsOK, CallOK
<1>2. KeyMatchesInvoice'
  BY KeyMatchesInvoiceStep DEF Next, ServerStep
<1>3. CASE KeyTaken(call[c].sale) /\ Answer(c, "500") /\ UNCHANGED server
  <2>1. call[c].by # Page
    BY <1>1, <1>3, PageFindsNoKey DEF KeyTaken
  <2>2. Moved(c, "500")
    BY <1>3 DEF Answer, Moved
  <2> QED BY <1>1, <1>2, <1>3, <2>1, <2>2, CallMoves DEF Answers, server
<1>4. CASE /\ ~ KeyTaken(call[c].sale) /\ Goto(c, "notify")
           /\ invoices' = [invoices EXCEPT ![call[c].sale] = @ + 1]
  <2>1. invoices[call[c].sale] = 0
    BY <1>1, <1>4 DEF KeyTaken, KeyMatchesInvoice
  <2>2. /\ invoices'[call[c].sale] = 1
        /\ \A k \in Sales : k # call[c].sale => invoices'[k] = invoices[k]
    BY <1>1, <1>4, <2>1 DEF KeyMatchesInvoice
  <2>3. Moved(c, "notify")
    BY <1>4 DEF Goto, Moved
  <2> QED BY <1>1, <1>2, <2>2, <2>3, CallMoves
<1> QED BY <1>3, <1>4 DEF Bill

LEMMA NotifyKeeps ==
  ASSUME IInv, NEW c \in Slots, Notify(c)
  PROVE  IInv'
<1> USE DEF IInv
<1>1. /\ UNCHANGED <<client, invoices, idem>> /\ KeyMatchesInvoice'
      /\ call[c].at = "notify"
  BY DEF Notify, KeyMatchesInvoice, server
<1>2. failures' \in 0..MaxFailures
  BY FailsTyped DEF Notify
<1>3. invoices[call[c].sale] = 1 /\ (call[c].by = Page => ~ call[c].synced)
  BY <1>1 DEF CallsOK, CallOK
<1>4. PICK at \in {"201", "500"} :
        Moved(c, at) /\ (at = "500" => call[c].synced)
  BY DEF Notify, Notifies, Answer, Moved
<1> QED BY <1>1, <1>2, <1>3, <1>4, CallMoves DEF Answers

(* A key is dropped while no call carries it.                              *)
LEMMA ExpireKeeps ==
  ASSUME IInv, NEW k \in Sales, Expire(k)
  PROVE  IInv'
<1> USE DEF IInv
<1>1. UNCHANGED <<client, call, invoices, failures>>
  BY DEF Expire
<1>2. KeyMatchesInvoice'
  BY DEF Expire, KeyMatchesInvoice
<1>3. TypeOK'
  BY <1>1, <1>2 DEF TypeOK, KeyMatchesInvoice, client
<1>4. CallsOK' /\ PagesOK' /\ PassesOK' /\ QueuedSaleKept'
  BY <1>1 DEF CallsOK, CallOK, PagesOK, PageOK, PassesOK, QueuedSaleKept, Current, client
<1> QED BY <1>2, <1>3, <1>4

-----------------------------------------------------------------------------
LEMMA IInvHolds == Spec => []IInv
<1>1. Init => IInv
  <2> SUFFICES ASSUME Init
               PROVE  IInv
    OBVIOUS
  <2>1. TypeOK
    <3>1. /\ pass \in [Passes -> [pc : {"idle", "probe", "list"} \cup AtItem,
                                  queue : SUBSET Sales, to : {"syncing", "pending", "error"}]]
          /\ \A p \in Passes : pass[p].pc \notin AtItem
      BY DEF Init, Idle, AtItem
    <3>2. call \in [Slots -> [at : {"free", "lookup", "checks", "bill", "notify"} \cup Answers,
                             sale : Sales \cup {0}, by : Passes \cup {Page, Nobody},
                             synced : BOOLEAN]]
      BY DEF Init, Free
    <3>3. failures \in 0..MaxFailures
      BY SyncConstants DEF Init
    <3> QED BY <3>1, <3>2, <3>3 DEF Init, TypeOK
  <2>2. KeyMatchesInvoice /\ PagesOK /\ PassesOK /\ QueuedSaleKept
    BY DEF Init, KeyMatchesInvoice, PagesOK, PageOK, PassesOK, QueuedSaleKept, Idle
  <2>3. CallsOK
    BY SyncConstants DEF Init, CallsOK, CallOK, Free
  <2> QED BY <2>1, <2>2, <2>3 DEF IInv
<1>2. IInv /\ [Next]_vars => IInv'
  <2> SUFFICES ASSUME IInv, [Next]_vars
               PROVE  IInv'
    OBVIOUS
  <2>1. ASSUME NEW k \in Sales,
               \/ SubmitOnline(k) \/ SubmitOffline(k)
               \/ PageAnswered(k) \/ PageDropped(k) \/ Discard(k)
        PROVE  IInv'
    BY <2>1, SubmitOnlineKeeps, SubmitOfflineKeeps, PageAnsweredKeeps, PageDroppedKeeps,
       DiscardKeeps
  <2>2. ASSUME NEW p \in Passes, StartPass(p) \/ PassStep(p)
        PROVE  IInv'
    BY <2>2, StartPassKeeps, ProbeKeeps, ListKeeps, GetItemKeeps, PutItemKeeps, SendItemKeeps,
       ReceiveKeeps, RemoveItemKeeps DEF PassStep
  <2>3. CASE Close
    BY <2>3, CloseKeeps
  <2>4. ASSUME NEW c \in Slots, ServerStep(c) \/ ServerError(c) \/ NeverArrived(c)
        PROVE  IInv'
    BY <2>4, ServerStepsKeep, BillKeeps, NotifyKeeps DEF ServerStep
  <2>5. ASSUME NEW k \in Sales, Expire(k)
        PROVE  IInv'
    BY <2>5, ExpireKeeps
  <2>6. CASE UNCHANGED vars
    BY <2>6 DEF vars, client, server, IInv, TypeOK, KeyMatchesInvoice, CallsOK, CallOK, PagesOK,
                PageOK, PassesOK, QueuedSaleKept, Current
  <2> QED BY <2>1, <2>2, <2>3, <2>4, <2>5, <2>6 DEF Next
<1> QED BY <1>1, <1>2, PTL DEF Spec

(* Items, passes, calls and keys keep their types, and a pass past its     *)
(* list always has an item in hand (TypeOK).                               *)
THEOREM CounterTyped == Spec => []TypeOK
<1>1. IInv => TypeOK
  BY DEF IInv
<1> QED BY <1>1, IInvHolds, PTL

(* A sale the cashier was told is queued is in the outbox until it is      *)
(* booked or thrown away (QueuedSaleKept): an item is removed only on an   *)
(* answer to a call for that very item, and only a booked sale is answered *)
(* with success.                                                           *)
THEOREM NoQueuedSaleLost == Spec => []QueuedSaleKept
<1>1. IInv => QueuedSaleKept
  BY DEF IInv
<1> QED BY <1>1, IInvHolds, PTL

(* A sale the page shows as refused was not booked and never will be       *)
(* (ShownErrorNotBilled): the page's call was the only one ever made for   *)
(* it, and after the commit such a call cannot fail any more.              *)
THEOREM RefusedNotBilled == Spec => []ShownErrorNotBilled
<1>1. IInv => ShownErrorNotBilled
  BY DEF IInv, PagesOK, PageOK, ShownErrorNotBilled
<1> QED BY <1>1, IInvHolds, PTL
=============================================================================
