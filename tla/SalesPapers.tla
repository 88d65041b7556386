----------------------------- MODULE SalesPapers -----------------------------
(***************************************************************************)
(* The papers of a sale: quotation, sales order, invoice, work order and   *)
(* what hangs from them.  Each paper may name the paper it was made from,  *)
(* and the database holds a foreign key for it.  The handlers check with   *)
(* plain SELECTs and write afterwards, one transaction per request, so     *)
(* other requests come between the check and the write; and the e-invoice  *)
(* and e-Way Bill handlers wait for a gateway between their read and their *)
(* update.                                                                 *)
(*                                                                         *)
(* An insert and what follows it to the commit is one step: no statement   *)
(* of those handlers reads what a concurrent request could change, and     *)
(* whoever needs the new row waits for the commit.  So is a deletion that  *)
(* changes nothing but its own rows.  The deletion of a work order or a    *)
(* job card goes on to count its siblings, holding the row it erased.      *)
(***************************************************************************)
EXTENDS Naturals, FiniteSets

CONSTANTS
  Ids,       \* names of papers
  Requests,  \* requests that can be under way at once
  Kinds,     \* the kinds of paper in use
  NoPaper,   \* a paper that is not there, and the parent of a root
  MaxClashes \* a bound: the papers that may be in "clashed"

(* What a paper may be made from. *)
ParentKind ==
  [Quotation |-> "None", SalesOrder |-> "Quotation", CuttingEntry |-> "Quotation",
   Invoice |-> "SalesOrder", WorkOrder |-> "SalesOrder", CuttingPlan |-> "SalesOrder",
   JobCard |-> "WorkOrder", Waybill |-> "Invoice", Voucher |-> "Invoice",
   Complaint |-> "Invoice"]

(* The kinds whose foreign key may be NULL. *)
Rootable == {"Quotation", "SalesOrder", "Invoice", "WorkOrder", "CuttingPlan", "Voucher", "Complaint"}

(* The statuses the handlers give each kind. *)
Statuses ==
  [Quotation |-> {"Sent", "Converted"}, SalesOrder |-> {"Approved", "InProduction"},
   CuttingEntry |-> {"Booked", "Cancelled"}, Invoice |-> {"Approved", "Cancelled"},
   WorkOrder |-> {"Open", "InProgress"}, CuttingPlan |-> {"Optimized"},
   JobCard |-> {"Pending"}, Waybill |-> {"Generated", "Cancelled"},
   Voucher |-> {"Posted"}, Complaint |-> {"Open"}]
Status == {"Sent", "Converted", "Booked", "Cancelled", "Approved", "InProduction", "Open",
           "InProgress", "Optimized", "Pending", "Generated", "Posted"}

Paper == [kind : Kinds, of : Ids \cup {NoPaper}, status : Status, numbered : BOOLEAN,
          rewritten : BOOLEAN]

ASSUME PaperConstants ==
  /\ NoPaper \notin Ids \cup Paper
  /\ Kinds \subseteq DOMAIN ParentKind
  /\ MaxClashes \in Nat

(* The status a paper is inserted with. *)
FirstStatus ==
  [Quotation |-> "Sent", SalesOrder |-> "Approved", CuttingEntry |-> "Booked",
   Invoice |-> "Approved", WorkOrder |-> "Open", CuttingPlan |-> "Optimized",
   JobCard |-> "Pending", Waybill |-> "Generated", Voucher |-> "Posted", Complaint |-> "Open"]

VARIABLES
  paper,    \* each paper: its kind, the paper it is of, its status, whether it
            \* says it has a number at the gateway ('Generated'; 'Failed',
            \* 'Cancelled' and 'NotGenerated' are treated alike), and whether
            \* its lines were rewritten
  req,      \* each request: what it asks for and the statement it is at
  live,     \* papers, by kind, with an active number at the gateway
  clashed   \* papers about which two requests that can disturb each other were
            \* under way at once, or a gateway's answer was lost

vars == <<paper, req, live, clashed>>

There(d) == d # NoPaper /\ paper[d] # NoPaper
Is(d, k) == There(d) /\ paper[d].kind = k
Children(d) == {c \in Ids : There(c) /\ paper[c].of = d}
Made(d, k) == {c \in Children(d) : Is(c, k)}
Standing(d, k) == {c \in Made(d, k) : paper[c].status # "Cancelled"}

Idle == [op |-> "None", pc |-> "idle"]
Active(r) == req[r].pc # "idle"
End(r) == req' = [req EXCEPT ![r] = Idle]
Go(r, pc) == req' = [req EXCEPT ![r].pc = pc]

(* Rows erased by a transaction still open. *)
Open(q) == q.pc \in {"erased", "last", "others"}
Held(d) == \E r \in Requests : Open(req[r]) /\ req[r].id = d

-----------------------------------------------------------------------------
(* Two requests of which one's write can come between the other's check or *)
(* count and its write, to the effect of changing what was found there:    *)
(* both bill the same order or invoice, one raises a work order (a job     *)
(* card) while a sibling is deleted, one converts a quotation the other    *)
(* rewrites, or both are about one paper's number at the gateway.          *)
Billing(q, d) == q.op = "Create" /\ q.kind \in {"Invoice", "Waybill"} /\ q.of = d
Raising(q, d, k) == q.op = "Create" /\ q.kind = k /\ q.of = d
Erasing(q, d, k) == q.op = "Delete" /\ q.kind = k /\ q.of = d
Numbering(q, d) == q.op \in {"Generate", "Revoke"} /\ q.id = d
Rewriting(q, d) == q.op = "Rewrite" /\ q.id = d

Disturbs(q, s, d) ==
  \/ Billing(q, d) /\ Billing(s, d) /\ q.kind = s.kind
  \/ \E k \in {"WorkOrder", "JobCard"} : Raising(q, d, k) /\ Erasing(s, d, k)
  \/ Raising(q, d, "SalesOrder") /\ Rewriting(s, d)
  \/ Numbering(q, d) /\ (Numbering(s, d) \/ (s.op = "Delete" /\ s.id = d))

Clashes(q) ==
  {d \in Ids : \E r \in Requests :
      Active(r) /\ (Disturbs(q, req[r], d) \/ Disturbs(req[r], q, d))}

-----------------------------------------------------------------------------
(* Mutant of MayCreate: the paper is looked for, what was made from it is *)
(* not.                                                                    *)
MayCreateAgain(q) == q.of = NoPaper \/ There(q.of)

(* What a creation looks for: an order to be there and not billed, an      *)
(* invoice to be approved and without a waybill, a paper to be there.      *)
MayCreate(q) ==
  \/ q.of = NoPaper
  \/ /\ There(q.of)
     /\ q.kind \in {"Invoice", "Waybill"} => Standing(q.of, q.kind) = {}
     /\ q.kind = "Waybill" => paper[q.of].status = "Approved"

(* Mutant of MayDelete: the waybill's number at the gateway is not asked   *)
(* about.                                                                  *)
MayDeleteNumbered(q) == There(q.id) /\ Children(q.id) = {}

(* What a deletion looks for.  A cancelled invoice does not stand in the   *)
(* way of its order's deletion here, only at the foreign key.              *)
MayDelete(q) ==
  /\ There(q.id)
  /\ CASE q.kind = "Quotation"  -> Made(q.id, "SalesOrder") = {}
       [] q.kind = "SalesOrder" -> /\ Standing(q.id, "Invoice") = {}
                                   /\ Made(q.id, "CuttingPlan") = {}
                                   /\ Made(q.id, "WorkOrder") = {}
       [] q.kind = "Invoice"    -> Children(q.id) = {}
       [] q.kind = "WorkOrder"  -> Children(q.id) = {}
       [] q.kind = "Waybill"    -> ~ paper[q.id].numbered
       [] OTHER                 -> TRUE

(* Mutant of MayRewrite: the edit lock is forgotten. *)
MayRewriteAny(q) == There(q.id)

MayRewrite(q) == There(q.id) /\ paper[q.id].status # "Converted"
MayGenerate(q) ==
  There(q.id) /\ paper[q.id].status # "Cancelled" /\ ~ paper[q.id].numbered
MayRevoke(q) == There(q.id) /\ paper[q.id].numbered

MayGoOn(q) ==
  CASE q.op = "Create"   -> MayCreate(q)
    [] q.op = "Delete"   -> MayDelete(q)
    [] q.op = "Rewrite"  -> MayRewrite(q)
    [] q.op = "Generate" -> MayGenerate(q)
    [] q.op = "Revoke"   -> MayRevoke(q)

(* A request waits for a row that an open deletion holds. *)
Waits(q) == Held(q.id) \/ (q.op = "Delete" /\ \E c \in Children(q.id) : Held(c))

(* The SELECTs with which a handler opens, if it has any.  They see        *)
(* committed rows and keep nothing; a request they refuse changes nothing. *)
Begin(r, q) ==
  /\ ~ Active(r)
  /\ ~ Waits(q)
  /\ MayGoOn(q)
  /\ req' = [req EXCEPT ![r] = q]
  /\ clashed' = clashed \cup Clashes(q)
  /\ Cardinality(clashed') <= MaxClashes
  /\ UNCHANGED <<paper, live>>

(* A user makes a paper from one on the screen, or from nothing. *)
Create(r, k, of) ==
  /\ IF of = NoPaper THEN k \in Rootable ELSE Is(of, ParentKind[k])
  /\ Begin(r, [op |-> "Create", pc |-> "write", id |-> NoPaper, kind |-> k, of |-> of])

(* A user asks something of a paper on the screen. *)
About(r, op, pc, d) ==
  /\ There(d)
  /\ Begin(r, [op |-> op, pc |-> pc, id |-> d, kind |-> paper[d].kind, of |-> paper[d].of])

Delete(r, d) == ~ Is(d, "CuttingEntry") /\ About(r, "Delete", "write", d)
Rewrite(r, d) == Is(d, "Quotation") /\ About(r, "Rewrite", "write", d)
Generate(r, d) == (Is(d, "Invoice") \/ Is(d, "Waybill")) /\ About(r, "Generate", "ask", d)
Revoke(r, d) == (Is(d, "Invoice") \/ Is(d, "Waybill")) /\ About(r, "Revoke", "ask", d)

-----------------------------------------------------------------------------
(* Names not in use and not in anybody's mind. *)
Unused == {d \in Ids : /\ ~ There(d)
                       /\ d \notin clashed /\ \A k \in Kinds : <<k, d>> \notin live
                       /\ \A r \in Requests : Active(r) => d \notin {req[r].id, req[r].of}}

(* Mutant of Told: a job card puts its work order in production. *)
ToldAlike(k, of) ==
  CASE k = "SalesOrder" -> [paper EXCEPT ![of].status = "Converted"]
    [] k \in {"WorkOrder", "JobCard"} -> [paper EXCEPT ![of].status = "InProduction"]
    [] OTHER -> paper

(* What the creation of a paper does to the paper it is made from. *)
Told(k, of) ==
  CASE k = "SalesOrder" -> [paper EXCEPT ![of].status = "Converted"]
    [] k = "WorkOrder"  -> [paper EXCEPT ![of].status = "InProduction"]
    [] k = "JobCard"    -> [paper EXCEPT ![of].status = IF @ = "Open" THEN "InProgress" ELSE @]
    [] OTHER -> paper

(* INSERT to COMMIT.  The foreign key finds the parent gone, or not. *)
Insert(r) ==
  LET q == req[r]
  IN  /\ q.op = "Create" /\ q.pc = "write"
      /\ q.of # NoPaper => ~ Held(q.of)
      /\ IF q.of = NoPaper \/ There(q.of)
         THEN \E d \in Unused :
                paper' = [(IF q.of = NoPaper THEN paper ELSE Told(q.kind, q.of))
                            EXCEPT ![d] = [kind |-> q.kind, of |-> q.of, rewritten |-> FALSE,
                                           status |-> FirstStatus[q.kind], numbered |-> FALSE]]
         ELSE UNCHANGED paper
      /\ End(r)
      /\ UNCHANGED <<live, clashed>>

(* A quotation's lines are replaced; the foreign key of a cutting entry's  *)
(* lines forbids it.                                                       *)
Replace(r) ==
  LET d == req[r].id
  IN  /\ req[r].op = "Rewrite" /\ req[r].pc = "write"
      /\ IF There(d) /\ Made(d, "CuttingEntry") = {}
         THEN paper' = [paper EXCEPT ![d].rewritten = ~ @]
         ELSE UNCHANGED paper
      /\ End(r)
      /\ UNCHANGED <<live, clashed>>

(* Mutant of Refers: the foreign keys are not there. *)
RefersNever(d) == FALSE

(* The foreign keys' answer to a DELETE. *)
Refers(d) == Children(d) # {}

(* DELETE.  Work orders (of an order) and job cards are counted next. *)
Counts(q) == q.kind \in {"WorkOrder", "JobCard"} /\ q.of # NoPaper
Erase(r) ==
  LET q == req[r]
      refused == There(q.id) /\ Refers(q.id)
  IN  /\ q.op = "Delete" /\ q.pc = "write"
      /\ ~ Waits(q)
      /\ IF Counts(q) /\ ~ refused THEN Go(r, "erased") ELSE End(r)
      /\ paper' = IF Counts(q) \/ refused THEN paper ELSE [paper EXCEPT ![q.id] = NoPaper]
      /\ UNCHANGED <<live, clashed>>

(* Mutant of SiblingHeld: the count reads past rows others hold, as under  *)
(* row versioning.                                                         *)
SiblingHeldNever(q) == FALSE

Siblings(q) == Made(q.of, q.kind) \ {q.id}
SiblingHeld(q) == \E c \in Siblings(q) : Held(c)

(* The other work orders of the order (job cards of the work order) are    *)
(* counted; a row that another open deletion holds makes the count wait.   *)
Count(r) ==
  LET q == req[r]
  IN  /\ q.pc = "erased"
      /\ ~ SiblingHeld(q)
      /\ Go(r, IF Siblings(q) = {} THEN "last" ELSE "others")
      /\ UNCHANGED <<paper, live, clashed>>

(* After the last one the order (work order) goes back.  The transaction   *)
(* commits, and the erased row is gone for everybody.                      *)
Back == [WorkOrder |-> [from |-> "InProduction", to |-> "Approved"],
         JobCard |-> [from |-> "InProgress", to |-> "Open"]]
PutBack(q) ==
  IF There(q.of) /\ paper[q.of].status = Back[q.kind].from
  THEN [paper EXCEPT ![q.of].status = Back[q.kind].to] ELSE paper
Commit(r) ==
  LET q == req[r]
  IN  /\ q.pc \in {"last", "others"}
      /\ paper' = [(IF q.pc = "last" THEN PutBack(q) ELSE paper) EXCEPT ![q.id] = NoPaper]
      /\ End(r)
      /\ UNCHANGED <<live, clashed>>

(* An exception, a deadlock victim, a restart: the transaction rolls back. *)
(* What the gateway did stays done.                                        *)
Fail(r) ==
  /\ Active(r)
  /\ clashed' = IF req[r].pc \in {"granted", "denied"} THEN clashed \cup {req[r].id} ELSE clashed
  /\ Cardinality(clashed') <= MaxClashes
  /\ End(r)
  /\ UNCHANGED <<paper, live>>

-----------------------------------------------------------------------------
(* The gateway carries a call out or refuses it, after up to three         *)
(* attempts; its answer can be lost on the last.                           *)
Answer(r, done, told) ==
  LET q == req[r]
  IN  /\ q.pc = "ask"
      /\ told => done
      /\ live' = IF ~ done THEN live
                 ELSE IF q.op = "Generate" THEN live \cup {<<q.kind, q.id>>} ELSE live \ {<<q.kind, q.id>>}
      /\ clashed' = IF done /\ ~ told THEN clashed \cup {q.id} ELSE clashed
      /\ Cardinality(clashed') <= MaxClashes
      /\ Go(r, IF told THEN "granted" ELSE "denied")
      /\ UNCHANGED paper

(* What the row says afterwards: a refused request leaves 'Failed', a      *)
(* refused cancellation leaves the row as it is.                           *)
Noted(op, granted, numbered) ==
  IF op = "Generate" THEN granted ELSE numbered /\ ~ granted

Note(r) ==
  LET q == req[r]
  IN  /\ q.pc \in {"granted", "denied"}
      /\ paper' = IF There(q.id)
                  THEN [paper EXCEPT ![q.id].numbered = Noted(q.op, q.pc = "granted", @)]
                  ELSE paper
      /\ End(r)
      /\ UNCHANGED <<live, clashed>>

-----------------------------------------------------------------------------
(* One UPDATE, which looks at the status itself. *)
Cancel(d) ==
  /\ There(d) /\ paper[d].kind \in {"Invoice", "Waybill", "CuttingEntry"}
  /\ paper[d].status # "Cancelled"
  /\ paper' = [paper EXCEPT ![d].status = "Cancelled"]
  /\ UNCHANGED <<req, live, clashed>>

Init ==
  /\ paper = [d \in Ids |-> NoPaper]
  /\ req = [r \in Requests |-> Idle]
  /\ live = {}
  /\ clashed = {}

Next ==
  \/ \E r \in Requests :
       \/ \E k \in Kinds, of \in Ids \cup {NoPaper} : Create(r, k, of)
       \/ \E d \in Ids : Delete(r, d) \/ Rewrite(r, d) \/ Generate(r, d) \/ Revoke(r, d)
       \/ Insert(r) \/ Replace(r) \/ Erase(r) \/ Count(r) \/ Commit(r) \/ Fail(r)
       \/ \E done, told \in BOOLEAN : Answer(r, done, told)
       \/ Note(r)
  \/ \E d \in Ids : Cancel(d)

Spec == Init /\ [][Next]_vars

-----------------------------------------------------------------------------
Ops == {"Create", "Delete", "Rewrite", "Generate", "Revoke"}
Pcs == {"write", "erased", "last", "others", "ask", "granted", "denied"}
Request == [op : Ops, pc : Pcs, id : Ids \cup {NoPaper}, kind : Kinds, of : Ids \cup {NoPaper}]

(* The variables have their types, and each paper a status of its kind. *)
TypeOK ==
  /\ paper \in [Ids -> Paper \cup {NoPaper}]
  /\ \A d \in Ids : There(d) => paper[d].status \in Statuses[paper[d].kind]
  /\ req \in [Requests -> Request \cup {Idle}]
  /\ live \subseteq Kinds \X Ids
  /\ clashed \subseteq Ids

(* A paper's parent is there, and of the right kind, whatever the requests *)
(* that check before they write have found.                                *)
NoStrandedPaper ==
  \A d \in Ids : There(d) /\ paper[d].of # NoPaper => Is(paper[d].of, ParentKind[paper[d].kind])

(* An order has at most one invoice that is not cancelled and an invoice   *)
(* at most one such waybill, unless two requests to make one were under    *)
(* way at once: the check that there is none is a plain SELECT.            *)
BilledOnce ==
  \A d \in Ids \ clashed : \A k \in {"Invoice", "Waybill"} : Cardinality(Standing(d, k)) <= 1

(* An order is in production as long as it has work orders, a work order   *)
(* in progress as long as it has job cards, and a quotation with an order  *)
(* says converted, however deletions of siblings overlap; only a creation  *)
(* between a deletion's count and its update undoes it.                    *)
StatusFollowsPapers ==
  \A d \in Ids \ clashed :
    /\ Is(d, "SalesOrder") =>
         (paper[d].status = "InProduction" <=> Made(d, "WorkOrder") # {})
    /\ Is(d, "WorkOrder") =>
         (paper[d].status = "InProgress" <=> Made(d, "JobCard") # {})
    /\ Is(d, "Quotation") /\ Made(d, "SalesOrder") # {} => paper[d].status = "Converted"

(* A quotation that was converted is not rewritten any more, except by an  *)
(* edit that had read its status before.                                   *)
ConvertedStays ==
  [][\A d \in Ids \ clashed :
       Is(d, "Quotation") /\ paper[d].status = "Converted" =>
         paper'[d] \in {NoPaper, paper[d]}]_vars

(* Every number active at the e-Way Bill gateway is on a waybill that is   *)
(* there and says so, or whose request is about to; and a waybill or       *)
(* invoice says so of active numbers only.  Lost answers and overlapping   *)
(* requests about one paper are set aside.                                 *)
Answered(d) == \E r \in Requests : req[r].pc = "granted" /\ Numbering(req[r], d)
NumbersOnRecord ==
  \A d \in Ids \ clashed :
    ~ Answered(d) =>
      /\ <<"Waybill", d>> \in live => Is(d, "Waybill") /\ paper[d].numbered
      /\ There(d) /\ paper[d].numbered => <<paper[d].kind, d>> \in live
=============================================================================
