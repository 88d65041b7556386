------------------------- MODULE SalesPapersProofs --------------------------
(***************************************************************************)
(* What holds of the papers of a sale for every number of papers and       *)
(* requests.  First: no paper outlives the paper it was made from.         *)
(*                                                                         *)
(* Then what holds of every paper about which no two requests that can     *)
(* disturb each other were under way at once: it is billed once, its status*)
(* follows what was made from it, its number at the gateway is on record,  *)
(* and once converted it stays.  The argument: what a request found when it*)
(* began still holds when it writes, unless another request that can change*)
(* it was under way; and then the paper is in "clashed" from the moment the*)
(* later one began (ClashKnown).  Each conjunct of the second invariant    *)
(* says what a request still knows.                                        *)
(***************************************************************************)
EXTENDS SalesPapers, FiniteSetTheorems, TLAPS

(* A row that an open deletion has erased has no children, and none may be *)
(* inserted until it ends: an insert waits for the row at its foreign key. *)
Leaf(q) == q.op = "Delete" /\ Counts(q) /\ Children(q.id) = {}
ErasedIsLeaf == \A r \in Requests : Open(req[r]) => Leaf(req[r])

(* The parent a request is about to name, if still there, is of the right  *)
(* kind: its name was not given to another paper meanwhile.  A creation is *)
(* one step, and every other request names a paper.                        *)
Fits(q) == /\ q.op = "Create" /\ There(q.of) => paper[q.of].kind = ParentKind[q.kind]
           /\ q.op \in Ops => IF q.op = "Create" THEN q.pc = "write" ELSE q.id \in Ids
ParentFits == \A r \in Requests : Fits(req[r])

IInv == TypeOK /\ NoStrandedPaper /\ ErasedIsLeaf /\ ParentFits

(* What a request is, once it is under way.                                *)
LEMMA RequestTyped ==
  ASSUME TypeOK, NEW r \in Requests, req[r].pc # "idle"
  PROVE  req[r] \in Request
BY DEF TypeOK, Idle

(* Steps that add no paper and remove only papers without children, and    *)
(* whose requests are open on a leaf and name a fitting parent.            *)
Shrinks ==
  \A d \in Ids :
    /\ paper'[d] # NoPaper => /\ paper[d] # NoPaper
                              /\ paper'[d].kind = paper[d].kind
                              /\ paper'[d].of = paper[d].of
    /\ paper[d] # NoPaper /\ paper'[d] = NoPaper => Children(d) = {}
Follows == \A r \in Requests : (Open(req'[r]) => Leaf(req'[r])) /\ Fits(req'[r])

LEMMA ShrinkKeepsParents ==
  ASSUME TypeOK, NoStrandedPaper, Shrinks
  PROVE  NoStrandedPaper'
<1> SUFFICES ASSUME NEW d \in Ids, There(d)', paper'[d].of # NoPaper
             PROVE  Is(paper[d].of, ParentKind[paper[d].kind])'
  BY DEF NoStrandedPaper
<1> USE DEF There
<1> DEFINE p == paper[d].of
<1>1. paper[d] # NoPaper /\ p # NoPaper /\ paper'[d].of = p /\ paper'[d].kind = paper[d].kind
  BY DEF Shrinks
<1>2. paper[d] \in Paper
  BY <1>1 DEF TypeOK
<1>3. p \in Ids /\ Children(p) # {}
  BY <1>1, <1>2 DEF Paper, Children
<1>4. Is(p, ParentKind[paper[d].kind])
  BY <1>1 DEF NoStrandedPaper
<1> HIDE DEF p
<1>5. paper[p] # NoPaper /\ paper[p].kind = ParentKind[paper[d].kind]
  BY <1>4 DEF Is
<1>6. paper'[p] # NoPaper /\ paper'[p].kind = paper[p].kind
  BY <1>3, <1>5 DEF Shrinks
<1> QED
  BY <1>1, <1>5, <1>6 DEF Is

LEMMA ShrinkKeepsInv ==
  ASSUME IInv, TypeOK', Shrinks, Follows
  PROVE  IInv'
<1>1. NoStrandedPaper'
  BY ShrinkKeepsParents DEF IInv
<1>2. \A x : (Children(x) = {}) => (Children(x) = {})'
  BY DEF Children, There, Shrinks
<1>3. ErasedIsLeaf'
  BY <1>2 DEF ErasedIsLeaf, Follows, Leaf, Counts, Open
<1>4. ParentFits'
  <2>0. \A r \in Requests : req'[r].op \in Ops =>
          IF req'[r].op = "Create" THEN req'[r].pc = "write" ELSE req'[r].id \in Ids
    BY DEF Follows, Fits
  <2> SUFFICES ASSUME NEW r \in Requests, req'[r].op = "Create", There(req[r].of)'
               PROVE  paper'[req'[r].of].kind = ParentKind[req'[r].kind]
    BY <2>0 DEF ParentFits, Fits
  <2>1. req'[r] \in Request
    BY DEF TypeOK, Idle
  <2>2. req'[r].of \in Ids
    BY <2>1 DEF Request, There
  <2>3. There(req'[r].of) /\ paper'[req'[r].of].kind = paper[req'[r].of].kind
    BY <2>2 DEF Shrinks, There
  <2> QED
    BY <2>3 DEF Follows, Fits
<1> QED
  BY <1>1, <1>3, <1>4 DEF IInv

(* A request's types, whatever step it takes.                              *)
LEMMA EndTyped ==
  ASSUME TypeOK, NEW r \in Requests, End(r)
  PROVE  req' \in [Requests -> Request \cup {Idle}]
BY DEF TypeOK, End

LEMMA GoTyped ==
  ASSUME TypeOK, NEW r \in Requests, req[r].pc # "idle", NEW pc \in Pcs, Go(r, pc)
  PROVE  req' \in [Requests -> Request \cup {Idle}]
<1>1. req[r] \in Request
  BY RequestTyped
<1>2. [req[r] EXCEPT !.pc = pc] \in Request
  BY <1>1 DEF Request
<1> QED
  BY <1>2 DEF TypeOK, Go

LEMMA StatusesOfKind ==
  ASSUME NEW k \in DOMAIN ParentKind
  PROVE  Statuses[k] \subseteq Status
BY DEF Statuses, ParentKind, Status

(* Setting the status of one paper to one of its kind.                     *)
LEMMA StatusTyped ==
  ASSUME TypeOK, NEW d \in Ids, There(d), NEW v \in Statuses[paper[d].kind],
         NEW new, new = [paper EXCEPT ![d].status = v]
  PROVE  /\ new \in [Ids -> Paper \cup {NoPaper}]
         /\ \A c \in Ids : new[c] # NoPaper => new[c].status \in Statuses[new[c].kind]
         /\ \A c \in Ids : /\ new[c] # NoPaper <=> There(c)
                           /\ There(c) => new[c].kind = paper[c].kind /\ new[c].of = paper[c].of
<1>1. paper[d] \in Paper
  BY DEF TypeOK, There
<1>2. paper[d].kind \in DOMAIN ParentKind
  BY <1>1, PaperConstants DEF Paper
<1>3. v \in Status
  BY <1>2, StatusesOfKind
<1>4. [paper[d] EXCEPT !.status = v] \in Paper
  BY <1>1, <1>3 DEF Paper
<1>5. new[d] = [paper[d] EXCEPT !.status = v] /\ \A c \in Ids \ {d} : new[c] = paper[c]
  BY DEF TypeOK
<1>6. new[d] # NoPaper
  BY <1>4, <1>5, PaperConstants
<1>7. new[d].kind = paper[d].kind /\ new[d].of = paper[d].of /\ new[d].status = v
  BY <1>1, <1>5 DEF Paper
<1>8. new \in [Ids -> Paper \cup {NoPaper}]
  BY <1>4 DEF TypeOK
<1>9. \A c \in Ids : /\ new[c] # NoPaper <=> There(c)
                     /\ There(c) => new[c].kind = paper[c].kind /\ new[c].of = paper[c].of
  BY <1>5, <1>6, <1>7, PaperConstants DEF There
<1>10. \A c \in Ids : new[c] # NoPaper => new[c].status \in Statuses[new[c].kind]
  <2> SUFFICES ASSUME NEW c \in Ids, new[c] # NoPaper
               PROVE  new[c].status \in Statuses[new[c].kind]
    OBVIOUS
  <2>1. CASE c = d
    BY <2>1, <1>7
  <2>2. CASE c # d
    <3>1. new[c] = paper[c] /\ There(c)
      BY <2>2, <1>5, <1>9
    <3> QED BY <3>1 DEF TypeOK
  <2> QED BY <2>1, <2>2
<1> QED
  BY <1>8, <1>9, <1>10

-----------------------------------------------------------------------------
LEMMA EndFollows ==
  ASSUME IInv, NEW r \in Requests, End(r)
  PROVE  Follows
<1>1. \A s \in Requests : req'[s] = IF s = r THEN Idle ELSE req[s]
  BY DEF IInv, TypeOK, End
<1> QED
  BY <1>1 DEF Follows, IInv, ErasedIsLeaf, ParentFits, Fits, Ops, Open, Idle

LEMMA GoFollows ==
  ASSUME IInv, NEW r \in Requests, req[r].pc # "idle", req[r].op # "Create", NEW pc \in Pcs, Go(r, pc),
         pc \in {"erased", "last", "others"} => Leaf(req[r])
  PROVE  Follows
<1>1. req[r] \in Request
  BY RequestTyped DEF IInv
<1>2. \A s \in Requests : req'[s] = IF s = r THEN [req[r] EXCEPT !.pc = pc] ELSE req[s]
  BY DEF IInv, TypeOK, Go
<1>3. /\ req'[r].pc = pc /\ req'[r].op = req[r].op /\ req'[r].id = req[r].id
      /\ req'[r].kind = req[r].kind /\ req'[r].of = req[r].of
  BY <1>1, <1>2 DEF Request
<1>4. \A s \in Requests : Open(req'[s]) => Leaf(req'[s])
  <2> SUFFICES ASSUME NEW s \in Requests, Open(req'[s])
               PROVE  Leaf(req'[s])
    OBVIOUS
  <2>1. CASE s = r
    BY <2>1, <1>3 DEF Open, Leaf, Counts
  <2>2. CASE s # r
    BY <2>2, <1>2 DEF IInv, ErasedIsLeaf
  <2> QED
    BY <2>1, <2>2
<1>5. \A s \in Requests : Fits(req'[s])
  <2> SUFFICES ASSUME NEW s \in Requests
               PROVE  Fits(req'[s])
    OBVIOUS
  <2>1. CASE s = r
    BY <2>1, <1>3 DEF IInv, ParentFits, Fits
  <2>2. CASE s # r
    BY <2>2, <1>2 DEF IInv, ParentFits
  <2> QED
    BY <2>1, <2>2
<1> QED
  BY <1>4, <1>5 DEF Follows

LEMMA SamePaperShrinks ==
  ASSUME paper' = paper
  PROVE  Shrinks
BY DEF Shrinks

LEMMA SamePaperTyped ==
  ASSUME TypeOK, paper' = paper, req' \in [Requests -> Request \cup {Idle}],
         live' \subseteq Kinds \X Ids, clashed' \subseteq Ids
  PROVE  TypeOK'
BY DEF TypeOK, There

(* A new request has a fitting parent: it is on the user's screen.         *)
LEMMA BeginKeepsInv ==
  ASSUME IInv, NEW r \in Requests, NEW q \in Request, Begin(r, q),
         q.pc \in {"write", "ask"}, Fits(q)
  PROVE  IInv'
<1>1. paper' = paper
  BY DEF Begin
<1>2. \A s \in Requests : req'[s] = IF s = r THEN q ELSE req[s]
  BY DEF IInv, TypeOK, Begin
<1>3. TypeOK'
  <2>1. req' \in [Requests -> Request \cup {Idle}]
    BY DEF IInv, TypeOK, Begin
  <2>2. live' \subseteq Kinds \X Ids /\ clashed' \subseteq Ids
    BY DEF IInv, TypeOK, Begin, Clashes
  <2> QED
    BY <1>1, <2>1, <2>2, SamePaperTyped DEF IInv
<1>4. Follows
  BY <1>2 DEF Follows, IInv, ErasedIsLeaf, ParentFits, Open
<1> QED
  BY <1>1, <1>3, <1>4, SamePaperShrinks, ShrinkKeepsInv

LEMMA CreateKeepsInv ==
  ASSUME IInv, NEW r \in Requests, NEW k \in Kinds, NEW of \in Ids \cup {NoPaper},
         Create(r, k, of)
  PROVE  IInv'
<1> DEFINE q == [op |-> "Create", pc |-> "write", id |-> NoPaper, kind |-> k, of |-> of]
<1>1. q \in Request
  BY DEF Request, Ops, Pcs
<1>2. Fits(q)
  BY DEF Fits, Create, Is, There
<1>3. Begin(r, q)
  BY DEF Create
<1>4. q.pc = "write"
  OBVIOUS
<1> HIDE DEF q
<1> QED
  BY <1>1, <1>2, <1>3, <1>4, BeginKeepsInv

LEMMA AboutKeepsInv ==
  ASSUME IInv, NEW r \in Requests, NEW d \in Ids, NEW op \in Ops \ {"Create"},
         NEW pc \in {"write", "ask"}, About(r, op, pc, d)
  PROVE  IInv'
<1> DEFINE q == [op |-> op, pc |-> pc, id |-> d, kind |-> paper[d].kind, of |-> paper[d].of]
<1>1. paper[d] \in Paper
  BY DEF IInv, TypeOK, About, There
<1>2. q \in Request
  BY <1>1 DEF Request, Paper, Pcs
<1>3. Fits(q)
  BY DEF Fits
<1>4. Begin(r, q)
  BY DEF About
<1>5. q.pc = pc
  OBVIOUS
<1> HIDE DEF q
<1> QED
  BY <1>2, <1>3, <1>4, <1>5, BeginKeepsInv

-----------------------------------------------------------------------------
(* Steps that end a request and leave the papers alone.                    *)
LEMMA EndKeepsInv ==
  ASSUME IInv, NEW r \in Requests, End(r), paper' = paper,
         live' \subseteq Kinds \X Ids, clashed' \subseteq Ids
  PROVE  IInv'
<1>1. TypeOK'
  BY EndTyped, SamePaperTyped DEF IInv
<1> QED
  BY <1>1, EndFollows, SamePaperShrinks, ShrinkKeepsInv

(* What a creation does to its parent is a change of status.               *)
LEMMA ToldTyped ==
  ASSUME TypeOK, NEW k \in Kinds, NEW of \in Ids, There(of), paper[of].kind = ParentKind[k]
  PROVE  /\ Told(k, of) \in [Ids -> Paper \cup {NoPaper}]
         /\ \A c \in Ids : Told(k, of)[c] # NoPaper =>
                           Told(k, of)[c].status \in Statuses[Told(k, of)[c].kind]
         /\ \A c \in Ids : /\ Told(k, of)[c] # NoPaper <=> There(c)
                           /\ There(c) => /\ Told(k, of)[c].kind = paper[c].kind
                                          /\ Told(k, of)[c].of = paper[c].of
<1>1. CASE k = "SalesOrder"
  <2>1. "Converted" \in Statuses[paper[of].kind]
    BY <1>1 DEF ParentKind, Statuses
  <2>2. Told(k, of) = [paper EXCEPT ![of].status = "Converted"]
    BY <1>1 DEF Told
  <2> QED
    BY <2>1, <2>2, StatusTyped
<1>2. CASE k = "WorkOrder"
  <2>1. "InProduction" \in Statuses[paper[of].kind]
    BY <1>2 DEF ParentKind, Statuses
  <2>2. Told(k, of) = [paper EXCEPT ![of].status = "InProduction"]
    BY <1>2 DEF Told
  <2> QED
    BY <2>1, <2>2, StatusTyped
<1>3. CASE k = "JobCard"
  <2> DEFINE v == IF paper[of].status = "Open" THEN "InProgress" ELSE paper[of].status
  <2>1. v \in Statuses[paper[of].kind]
    BY <1>3 DEF ParentKind, Statuses, TypeOK
  <2>2. Told(k, of) = [paper EXCEPT ![of].status = v]
    BY <1>3 DEF Told
  <2> HIDE DEF v
  <2> QED
    BY <2>1, <2>2, StatusTyped
<1>4. CASE k \notin {"SalesOrder", "WorkOrder", "JobCard"}
  <2>1. Told(k, of) = paper
    BY <1>4 DEF Told
  <2> QED
    BY <2>1, PaperConstants DEF TypeOK, There
<1> QED
  BY <1>1, <1>2, <1>3, <1>4

LEMMA FirstStatusOfKind ==
  ASSUME NEW k \in DOMAIN ParentKind
  PROVE  FirstStatus[k] \in Statuses[k]
BY DEF FirstStatus, Statuses, ParentKind

(* An insert: the new paper's parent is there, and not erased by a         *)
(* deletion still open.                                                    *)
LEMMA InsertKeepsInv ==
  ASSUME IInv, NEW r \in Requests, Insert(r)
  PROVE  IInv'
<1> DEFINE q == req[r]
<1>1. q \in Request /\ q.op = "Create" /\ End(r)
  BY RequestTyped DEF Insert, IInv
<1>2. UNCHANGED <<live, clashed>> /\ (q.of # NoPaper => ~ Held(q.of))
  BY DEF Insert
<1>3. CASE UNCHANGED paper
  BY <1>1, <1>2, <1>3, EndKeepsInv DEF IInv, TypeOK
<1>4. ASSUME q.of = NoPaper \/ There(q.of), NEW d \in Unused,
             paper' = [(IF q.of = NoPaper THEN paper ELSE Told(q.kind, q.of))
                         EXCEPT ![d] = [kind |-> q.kind, of |-> q.of, rewritten |-> FALSE,
                                        status |-> FirstStatus[q.kind], numbered |-> FALSE]]
      PROVE  IInv'
  <2> DEFINE new  == [kind |-> q.kind, of |-> q.of, rewritten |-> FALSE,
                      status |-> FirstStatus[q.kind], numbered |-> FALSE]
             base == IF q.of = NoPaper THEN paper ELSE Told(q.kind, q.of)
  <2>1. q.kind \in Kinds /\ q.kind \in DOMAIN ParentKind /\ q.of \in Ids \cup {NoPaper}
    BY <1>1, PaperConstants DEF Request
  <2>2. q.of # NoPaper => There(q.of) /\ paper[q.of].kind = ParentKind[q.kind]
    BY <1>1, <1>4 DEF IInv, ParentFits, Fits
  <2>3. /\ base \in [Ids -> Paper \cup {NoPaper}]
        /\ \A c \in Ids : base[c] # NoPaper => base[c].status \in Statuses[base[c].kind]
        /\ \A c \in Ids : /\ base[c] # NoPaper <=> There(c)
                          /\ There(c) => base[c].kind = paper[c].kind /\ base[c].of = paper[c].of
    <3>1. CASE q.of = NoPaper
      BY <3>1, PaperConstants DEF IInv, TypeOK, There
    <3>2. CASE q.of # NoPaper
      <4>1. base = Told(q.kind, q.of)
        BY <3>2
      <4> HIDE DEF base
      <4> QED
        BY <3>2, <4>1, <2>1, <2>2, ToldTyped DEF IInv
    <3> QED
      BY <3>1, <3>2
  <2>4. new \in Paper /\ new.status \in Statuses[new.kind] /\ new.kind = q.kind /\ new.of = q.of
    BY <2>1, FirstStatusOfKind, StatusesOfKind DEF Paper
  <2>5. d \in Ids /\ ~ There(d)
        /\ \A s \in Requests : Active(s) => d \notin {req[s].id, req[s].of}
    BY <1>4 DEF Unused
  <2>6. paper' = [base EXCEPT ![d] = new]
    BY <1>4
  <2> HIDE DEF base, new, q
  <2>7. paper'[d] = new /\ \A c \in Ids \ {d} : paper'[c] = base[c]
    BY <2>3, <2>5, <2>6
  <2>8. new # NoPaper
    BY <2>4, PaperConstants
  <2>9. \A c \in Ids : paper[c] # NoPaper =>
          c # d /\ paper'[c] # NoPaper /\ paper'[c].kind = paper[c].kind /\ paper'[c].of = paper[c].of
    BY <2>3, <2>5, <2>7, PaperConstants DEF There
  <2>10. \A c \in Ids : paper'[c] # NoPaper => c = d \/ paper[c] # NoPaper
    BY <2>3, <2>7 DEF There
  <2>11. TypeOK'
    <3>1. paper' \in [Ids -> Paper \cup {NoPaper}]
      BY <2>3, <2>4, <2>6
    <3>2. \A c \in Ids : There(c)' => paper'[c].status \in Statuses[paper'[c].kind]
      BY <2>3, <2>4, <2>7 DEF There
    <3> QED
      BY <1>1, <1>2, <3>1, <3>2, EndTyped DEF IInv, TypeOK
  <2>12. NoStrandedPaper'
    <3> SUFFICES ASSUME NEW c \in Ids, paper'[c] # NoPaper, paper'[c].of # NoPaper
                 PROVE  /\ paper'[paper'[c].of] # NoPaper
                        /\ paper'[paper'[c].of].kind = ParentKind[paper'[c].kind]
      BY DEF NoStrandedPaper, Is, There
    <3>1. CASE c = d
      BY <3>1, <2>1, <2>2, <2>4, <2>7, <2>9 DEF There
    <3>2. CASE c # d
      <4>1. paper[c] # NoPaper /\ paper'[c].of = paper[c].of /\ paper'[c].kind = paper[c].kind
        BY <3>2, <2>9, <2>10
      <4>2. paper[c].of \in Ids
        BY <4>1 DEF IInv, TypeOK, Paper
      <4>3. paper[paper[c].of] # NoPaper /\ paper[paper[c].of].kind = ParentKind[paper[c].kind]
        BY <4>1, PaperConstants DEF IInv, NoStrandedPaper, Is, There
      <4> QED
        BY <4>1, <4>2, <4>3, <2>9
    <3> QED
      BY <3>1, <3>2
  <2>13. \A s \in Requests : req'[s] = IF s = r THEN Idle ELSE req[s]
    BY <1>1 DEF End, IInv, TypeOK
  <2>14. ErasedIsLeaf'
    <3> SUFFICES ASSUME NEW s \in Requests, Open(req'[s])
                 PROVE  req'[s].op = "Delete" /\ Counts(req'[s]) /\ Children(req[s].id)' = {}
      BY DEF ErasedIsLeaf, Leaf, Counts, Open
    <3>1. s # r /\ req'[s] = req[s] /\ Open(req[s])
      BY <2>13 DEF Open, Idle
    <3>2. Leaf(req[s]) /\ req[s].id \in Ids
      BY <3>1 DEF IInv, ErasedIsLeaf, ParentFits, Fits, Leaf, Ops
    <3>3. q.of # req[s].id
      BY <1>2, <3>1, <3>2, PaperConstants DEF Held, q
    <3>4. Children(req[s].id)' = {}
      BY <2>4, <2>7, <2>9, <2>10, <3>1, <3>2, <3>3 DEF Leaf, Children, There
    <3> QED
      BY <3>1, <3>2, <3>4 DEF Leaf
  <2>15. ParentFits'
    <3> SUFFICES ASSUME NEW s \in Requests
                 PROVE  /\ req'[s].op = "Create" /\ There(req[s].of)' =>
                             paper'[req'[s].of].kind = ParentKind[req'[s].kind]
                        /\ req'[s].op \in Ops =>
                             IF req'[s].op = "Create" THEN req'[s].pc = "write"
                             ELSE req'[s].id \in Ids
      BY DEF ParentFits, Fits
    <3>1. CASE req'[s] = Idle
      BY <3>1 DEF Idle, Ops
    <3>2. CASE req'[s] # Idle
      <4>1. req'[s] = req[s] /\ Active(s) /\ req[s] \in Request
        BY <3>2, <2>13 DEF IInv, TypeOK, Active, Request, Pcs
      <4>2. Fits(req[s]) /\ req[s].of # d
        BY <4>1, <2>5 DEF IInv, ParentFits
      <4>3. req[s].of # NoPaper => req[s].of \in Ids
        BY <4>1 DEF Request
      <4> QED
        BY <4>1, <4>2, <4>3, <2>9, <2>10 DEF Fits, There
    <3> QED
      BY <3>1, <3>2
  <2> QED
    BY <2>11, <2>12, <2>14, <2>15 DEF IInv
<1> QED
  BY <1>3, <1>4 DEF Insert

-----------------------------------------------------------------------------
(* Exchanging one paper's row for another of the same kind and parent.     *)
LEMMA RowChangeKeepsInv ==
  ASSUME IInv, Follows, NEW d \in Ids, There(d), NEW row \in Paper,
         row.kind = paper[d].kind, row.of = paper[d].of, row.status \in Statuses[row.kind],
         paper' = [paper EXCEPT ![d] = row],
         req' \in [Requests -> Request \cup {Idle}], UNCHANGED <<live, clashed>>
  PROVE  IInv'
<1>1. paper'[d] = row /\ row # NoPaper /\ \A c \in Ids \ {d} : paper'[c] = paper[c]
  BY PaperConstants DEF IInv, TypeOK
<1>2. Shrinks
  BY <1>1 DEF Shrinks, There
<1>3. paper' \in [Ids -> Paper \cup {NoPaper}]
  BY DEF IInv, TypeOK
<1>4. \A c \in Ids : There(c)' => paper'[c].status \in Statuses[paper'[c].kind]
  <2> SUFFICES ASSUME NEW c \in Ids, There(c)'
               PROVE  paper'[c].status \in Statuses[paper'[c].kind]
    OBVIOUS
  <2>1. CASE c = d
    BY <1>1, <2>1
  <2>2. CASE c # d
    BY <1>1, <2>2 DEF IInv, TypeOK, There
  <2> QED
    BY <2>1, <2>2
<1>5. TypeOK'
  BY <1>3, <1>4 DEF IInv, TypeOK
<1> QED
  BY <1>2, <1>5, ShrinkKeepsInv

LEMMA ReplaceKeepsInv ==
  ASSUME IInv, NEW r \in Requests, Replace(r)
  PROVE  IInv'
<1> DEFINE d == req[r].id
<1>1. End(r) /\ UNCHANGED <<live, clashed>> /\ req[r] \in Request
  BY RequestTyped DEF Replace, IInv
<1>2. CASE UNCHANGED paper
  BY <1>1, <1>2, EndKeepsInv DEF IInv, TypeOK
<1>3. CASE There(d) /\ paper' = [paper EXCEPT ![d].rewritten = ~ @]
  <2> DEFINE row == [paper[d] EXCEPT !.rewritten = ~ paper[d].rewritten]
  <2>1. d \in Ids
    BY <1>1, <1>3 DEF Request, There
  <2>2. paper[d] \in Paper /\ paper[d].status \in Statuses[paper[d].kind]
    BY <1>3, <2>1 DEF IInv, TypeOK, There
  <2>3. row \in Paper /\ row.kind = paper[d].kind /\ row.of = paper[d].of
        /\ row.status = paper[d].status
    BY <2>2 DEF Paper
  <2>4. paper' = [paper EXCEPT ![d] = row]
    BY <1>3
  <2> HIDE DEF d, row
  <2> QED
    BY <1>1, <1>3, <2>1, <2>2, <2>3, <2>4, EndTyped, EndFollows, RowChangeKeepsInv DEF IInv
<1> QED
  BY <1>2, <1>3 DEF Replace

LEMMA NoteKeepsInv ==
  ASSUME IInv, NEW r \in Requests, Note(r)
  PROVE  IInv'
<1> DEFINE d == req[r].id
<1>1. End(r) /\ UNCHANGED <<live, clashed>> /\ req[r] \in Request
  BY RequestTyped DEF Note, IInv
<1>2. CASE ~ There(d)
  BY <1>1, <1>2, EndKeepsInv DEF IInv, TypeOK, Note
<1>3. CASE There(d)
  <2> DEFINE v == Noted(req[r].op, req[r].pc = "granted", paper[d].numbered)
             row == [paper[d] EXCEPT !.numbered = v]
  <2>1. d \in Ids
    BY <1>1, <1>3 DEF Request, There
  <2>2. paper[d] \in Paper /\ paper[d].status \in Statuses[paper[d].kind]
    BY <1>3, <2>1 DEF IInv, TypeOK, There
  <2>3. v \in BOOLEAN
    BY <2>2, Zenon DEF Noted, Paper
  <2>4. paper' = [paper EXCEPT ![d] = row]
    BY <1>3, Zenon DEF Note
  <2> HIDE DEF v
  <2>5. row \in Paper /\ row.kind = paper[d].kind /\ row.of = paper[d].of
        /\ row.status = paper[d].status
    BY <2>2, <2>3 DEF Paper
  <2> HIDE DEF d, row
  <2> QED
    BY <1>1, <1>3, <2>1, <2>2, <2>4, <2>5, EndTyped, EndFollows, RowChangeKeepsInv DEF IInv
<1> QED
  BY <1>2, <1>3

LEMMA CancelKeepsInv ==
  ASSUME IInv, NEW d \in Ids, Cancel(d)
  PROVE  IInv'
<1> DEFINE row == [paper[d] EXCEPT !.status = "Cancelled"]
<1>1. There(d) /\ UNCHANGED <<req, live, clashed>> /\ paper' = [paper EXCEPT ![d] = row]
  BY DEF Cancel
<1>2. paper[d] \in Paper
  BY <1>1 DEF IInv, TypeOK, There
<1>3. row \in Paper /\ row.kind = paper[d].kind /\ row.of = paper[d].of /\ row.status = "Cancelled"
  BY <1>2 DEF Paper, Status
<1>4. "Cancelled" \in Statuses[paper[d].kind]
  BY DEF Cancel, Statuses
<1>5. Follows
  BY <1>1 DEF Follows, IInv, ErasedIsLeaf, ParentFits
<1>6. req' \in [Requests -> Request \cup {Idle}]
  BY <1>1 DEF IInv, TypeOK
<1> HIDE DEF row
<1> QED
  BY <1>1, <1>3, <1>4, <1>5, <1>6, RowChangeKeepsInv

-----------------------------------------------------------------------------
(* Steps that go on with a request and leave the papers alone.             *)
LEMMA GoKeepsInv ==
  ASSUME IInv, NEW r \in Requests, req[r].pc # "idle", req[r].op # "Create", NEW pc \in Pcs, Go(r, pc),
         pc \in {"erased", "last", "others"} => Leaf(req[r]),
         paper' = paper, live' \subseteq Kinds \X Ids, clashed' \subseteq Ids
  PROVE  IInv'
<1>1. TypeOK'
  BY GoTyped, SamePaperTyped DEF IInv
<1>2. Follows
  BY GoFollows
<1> QED
  BY <1>1, <1>2, SamePaperShrinks, ShrinkKeepsInv

LEMMA CountKeepsInv ==
  ASSUME IInv, NEW r \in Requests, Count(r)
  PROVE  IInv'
<1> DEFINE pc == IF Siblings(req[r]) = {} THEN "last" ELSE "others"
<1>1. pc \in Pcs /\ Go(r, pc) /\ req[r].pc # "idle"
  BY DEF Count, Pcs
<1>2. Leaf(req[r]) /\ req[r].op # "Create"
  BY DEF Count, IInv, ErasedIsLeaf, Open, Leaf
<1>3. UNCHANGED <<paper, live, clashed>>
  BY DEF Count
<1> HIDE DEF pc
<1> QED
  BY <1>1, <1>2, <1>3, GoKeepsInv DEF IInv, TypeOK

LEMMA AnswerKeepsInv ==
  ASSUME IInv, NEW r \in Requests, NEW done \in BOOLEAN, NEW told \in BOOLEAN,
         Answer(r, done, told)
  PROVE  IInv'
<1> DEFINE pc == IF told THEN "granted" ELSE "denied"
<1>1. pc \in Pcs \ {"erased", "last", "others"} /\ Go(r, pc) /\ req[r].pc # "idle"
  BY DEF Answer, Pcs
<1>2. req[r] \in Request
  BY <1>1, RequestTyped DEF IInv
<1>3. req[r].op # "Create" /\ req[r].id \in Ids
  BY <1>2 DEF IInv, ParentFits, Fits, Answer, Request
<1>4. paper' = paper /\ live' \subseteq Kinds \X Ids /\ clashed' \subseteq Ids
  BY <1>2, <1>3 DEF Answer, IInv, TypeOK, Request
<1> HIDE DEF pc
<1> QED
  BY <1>1, <1>3, <1>4, GoKeepsInv

(* A paper without children goes.                                          *)
LEMMA RemovalKeepsInv ==
  ASSUME IInv, NEW r \in Requests, End(r), NEW d \in Ids, Children(d) = {},
         paper' = [paper EXCEPT ![d] = NoPaper], UNCHANGED <<live, clashed>>
  PROVE  IInv'
<1>1. paper'[d] = NoPaper /\ \A c \in Ids \ {d} : paper'[c] = paper[c]
  BY DEF IInv, TypeOK
<1>2. Shrinks
  BY <1>1 DEF Shrinks
<1>3. TypeOK'
  <2>1. paper' \in [Ids -> Paper \cup {NoPaper}]
    BY DEF IInv, TypeOK
  <2>2. \A c \in Ids : There(c)' => paper'[c].status \in Statuses[paper'[c].kind]
    BY <1>1 DEF IInv, TypeOK, There
  <2> QED
    BY <2>1, <2>2, EndTyped DEF IInv, TypeOK
<1> QED
  BY <1>2, <1>3, EndFollows, ShrinkKeepsInv

(* A row is erased: it had no children, by the foreign keys.               *)
LEMMA EraseKeepsInv ==
  ASSUME IInv, NEW r \in Requests, Erase(r)
  PROVE  IInv'
<1> DEFINE q == req[r]
           refused == There(q.id) /\ Refers(q.id)
<1>1. q.op = "Delete" /\ q.pc = "write" /\ UNCHANGED <<live, clashed>>
  BY DEF Erase
<1>2. q \in Request /\ q.id \in Ids
  <2>1. q \in Request
    BY <1>1, RequestTyped DEF IInv
  <2> QED
    BY <1>1, <2>1 DEF IInv, ParentFits, Fits, Request
<1>3. ~ refused => Children(q.id) = {}
  <2> SUFFICES ASSUME ~ There(q.id), NEW c \in Children(q.id)
               PROVE  FALSE
    BY DEF Refers
  <2>1. c \in Ids /\ There(c) /\ paper[c].of = q.id /\ q.id # NoPaper
    BY <1>2, PaperConstants DEF Children
  <2> QED
    BY <2>1 DEF IInv, NoStrandedPaper, Is
<1>4. CASE refused
  <2>1. End(r) /\ paper' = paper
    BY <1>4 DEF Erase
  <2> QED
    BY <1>1, <2>1, EndKeepsInv DEF IInv, TypeOK
<1>5. CASE ~ refused /\ Counts(q)
  <2>1. Go(r, "erased") /\ paper' = paper
    BY <1>5 DEF Erase
  <2>2. Leaf(q)
    BY <1>1, <1>3, <1>5 DEF Leaf
  <2> QED
    BY <1>1, <2>1, <2>2, GoKeepsInv DEF IInv, TypeOK, Pcs
<1>6. CASE ~ refused /\ ~ Counts(q)
  <2>1. End(r) /\ paper' = [paper EXCEPT ![q.id] = NoPaper]
    BY <1>6 DEF Erase
  <2> QED
    BY <1>1, <1>2, <1>3, <1>6, <2>1, RemovalKeepsInv
<1> QED
  BY <1>4, <1>5, <1>6

(* What the last one's deletion does to the parent is a change of status.  *)
LEMMA PutBackTyped ==
  ASSUME TypeOK, NEW q \in Request, q.kind \in {"WorkOrder", "JobCard"}
  PROVE  /\ PutBack(q) \in [Ids -> Paper \cup {NoPaper}]
         /\ \A c \in Ids : PutBack(q)[c] # NoPaper =>
                           PutBack(q)[c].status \in Statuses[PutBack(q)[c].kind]
         /\ \A c \in Ids : /\ PutBack(q)[c] # NoPaper <=> There(c)
                           /\ There(c) => /\ PutBack(q)[c].kind = paper[c].kind
                                          /\ PutBack(q)[c].of = paper[c].of
<1> DEFINE d == q.of
           v == Back[q.kind].to
<1>1. CASE There(d) /\ paper[d].status = Back[q.kind].from
  <2>1. d \in Ids
    BY <1>1 DEF Request, There
  <2>2. paper[d].kind \in DOMAIN ParentKind /\ paper[d].status \in Statuses[paper[d].kind]
    BY <1>1, <2>1, PaperConstants DEF TypeOK, There, Paper
  <2>3. v \in Statuses[paper[d].kind]
    BY <1>1, <2>2 DEF Back, Statuses, ParentKind
  <2>4. PutBack(q) = [paper EXCEPT ![d].status = v]
    BY <1>1 DEF PutBack
  <2> HIDE DEF d, v
  <2> QED
    BY <1>1, <2>1, <2>3, <2>4, StatusTyped
<1>2. CASE ~ (There(d) /\ paper[d].status = Back[q.kind].from)
  <2>1. PutBack(q) = paper
    BY <1>2 DEF PutBack
  <2> QED
    BY <2>1, PaperConstants DEF TypeOK, There
<1> QED
  BY <1>1, <1>2

(* After the count: the parent may be put back, and the leaf goes.         *)
LEMMA CommitKeepsInv ==
  ASSUME IInv, NEW r \in Requests, Commit(r)
  PROVE  IInv'
<1> DEFINE q == req[r]
           base == IF q.pc = "last" THEN PutBack(q) ELSE paper
<1>1. /\ Open(q) /\ q.pc # "idle" /\ End(r) /\ UNCHANGED <<live, clashed>>
      /\ paper' = [base EXCEPT ![q.id] = NoPaper]
  BY DEF Commit, Open
<1>2. Leaf(q) /\ q \in Request
  BY <1>1, RequestTyped DEF IInv, ErasedIsLeaf
<1>3. q.id \in Ids /\ Children(q.id) = {} /\ q.kind \in {"WorkOrder", "JobCard"}
  BY <1>2 DEF Leaf, Counts, IInv, ParentFits, Fits, Request
<1>4. /\ base \in [Ids -> Paper \cup {NoPaper}]
      /\ \A c \in Ids : base[c] # NoPaper => base[c].status \in Statuses[base[c].kind]
      /\ \A c \in Ids : /\ base[c] # NoPaper <=> There(c)
                        /\ There(c) => base[c].kind = paper[c].kind /\ base[c].of = paper[c].of
  <2>1. CASE q.pc = "last"
    <3>1. base = PutBack(q)
      BY <2>1
    <3> HIDE DEF base, q
    <3> QED
      BY <1>2, <1>3, <3>1, PutBackTyped DEF IInv
  <2>2. CASE q.pc # "last"
    BY <2>2, PaperConstants DEF IInv, TypeOK, There
  <2> QED
    BY <2>1, <2>2
<1> HIDE DEF base, q
<1>5. paper'[q.id] = NoPaper /\ \A c \in Ids \ {q.id} : paper'[c] = base[c]
  BY <1>1, <1>3, <1>4
<1>6. Shrinks
  BY <1>3, <1>4, <1>5, PaperConstants DEF Shrinks, There
<1>7. TypeOK'
  <2>1. paper' \in [Ids -> Paper \cup {NoPaper}]
    BY <1>1, <1>4
  <2>2. \A c \in Ids : There(c)' => paper'[c].status \in Statuses[paper'[c].kind]
    BY <1>4, <1>5 DEF There
  <2> QED
    BY <1>1, <2>1, <2>2, EndTyped DEF IInv, TypeOK
<1> QED
  BY <1>1, <1>6, <1>7, EndFollows, ShrinkKeepsInv

LEMMA FailKeepsInv ==
  ASSUME IInv, NEW r \in Requests, Fail(r)
  PROVE  IInv'
<1>1. req[r] \in Request /\ End(r) /\ UNCHANGED <<paper, live>>
  BY RequestTyped DEF IInv, Fail, Active
<1>2. req[r].pc \in {"granted", "denied"} => req[r].id \in Ids
  BY <1>1 DEF IInv, ParentFits, Fits, Request
<1>3. clashed' \subseteq Ids
  BY <1>2 DEF Fail, IInv, TypeOK
<1> QED
  BY <1>1, <1>3, EndKeepsInv DEF IInv, TypeOK

-----------------------------------------------------------------------------
LEMMA InitMeetsInv == Init => IInv
BY PaperConstants DEF Init, IInv, TypeOK, NoStrandedPaper, ErasedIsLeaf, ParentFits, Fits, There,
                      Open, Idle, Ops

LEMMA NextKeepsInv ==
  ASSUME IInv, [Next]_vars
  PROVE  IInv'
<1>1. ASSUME NEW r \in Requests, NEW k \in Kinds, NEW of \in Ids \cup {NoPaper}, Create(r, k, of)
      PROVE  IInv'
  BY <1>1, CreateKeepsInv
<1>2. ASSUME NEW r \in Requests, NEW d \in Ids,
             Delete(r, d) \/ Rewrite(r, d) \/ Generate(r, d) \/ Revoke(r, d)
      PROVE  IInv'
  BY <1>2, AboutKeepsInv DEF Delete, Rewrite, Generate, Revoke, Ops
<1>3. ASSUME NEW r \in Requests, Insert(r) \/ Replace(r) \/ Erase(r) \/ Count(r) \/ Commit(r)
                                 \/ Fail(r) \/ Note(r)
      PROVE  IInv'
  BY <1>3, InsertKeepsInv, ReplaceKeepsInv, EraseKeepsInv, CountKeepsInv, CommitKeepsInv,
     FailKeepsInv, NoteKeepsInv
<1>4. ASSUME NEW r \in Requests, NEW done \in BOOLEAN, NEW told \in BOOLEAN, Answer(r, done, told)
      PROVE  IInv'
  BY <1>4, AnswerKeepsInv
<1>5. ASSUME NEW d \in Ids, Cancel(d)
      PROVE  IInv'
  BY <1>5, CancelKeepsInv
<1>6. CASE UNCHANGED vars
  <2>1. paper' = paper /\ req' = req /\ live' = live /\ clashed' = clashed
    BY <1>6 DEF vars
  <2>2. TypeOK' /\ Follows
    BY <2>1, SamePaperTyped DEF IInv, TypeOK, Follows, ErasedIsLeaf, ParentFits
  <2> QED
    BY <2>1, <2>2, SamePaperShrinks, ShrinkKeepsInv
<1> QED
  BY <1>1, <1>2, <1>3, <1>4, <1>5, <1>6 DEF Next

(* The variables keep their types, and every paper a status of its kind,   *)
(* whatever order the requests' statements run in.                         *)
THEOREM PapersTyped == Spec => []TypeOK
<1>1. IInv /\ [Next]_vars => IInv'
  BY NextKeepsInv
<1>2. IInv => TypeOK
  BY DEF IInv
<1> QED
  BY InitMeetsInv, <1>1, <1>2, PTL DEF Spec

(* No paper is left without the paper it was made from: the foreign keys,  *)
(* and the row an open deletion holds, make up for the plain SELECTs the   *)
(* handlers check with.                                                    *)
THEOREM NoPaperStranded == Spec => []NoStrandedPaper
<1>1. IInv /\ [Next]_vars => IInv'
  BY NextKeepsInv
<1>2. IInv => NoStrandedPaper
  BY DEF IInv
<1> QED
  BY InitMeetsInv, <1>1, <1>2, PTL DEF Spec

-----------------------------------------------------------------------------
(* Which statement a request can be at, by what it asks for; and the paper *)
(* it is about, while there, is the one it was begun for: names are not    *)
(* given again while a request holds them.                                 *)
Shape(q) ==
  /\ q.op = "Rewrite" => q.pc = "write" /\ q.kind = "Quotation"
  /\ q.op = "Delete" => q.pc \in {"write", "erased", "last", "others"}
  /\ q.op \in {"Generate", "Revoke"} =>
       q.pc \in {"ask", "granted", "denied"} /\ q.kind \in {"Invoice", "Waybill"}
Knows(q) ==
  q.op \in Ops \ {"Create"} /\ There(q.id) =>
    paper[q.id].kind = q.kind /\ paper[q.id].of = q.of
RequestsFit == \A r \in Requests : Shape(req[r]) /\ Knows(req[r])

(* Two requests under way that can disturb each other are on record.       *)
ClashKnown ==
  \A r, s \in Requests : \A d \in Ids :
    r # s /\ Disturbs(req[r], req[s], d) => d \in clashed

(* A paper is billed once, and while a request is about to bill it, never. *)
Bills == {"Invoice", "Waybill"}
BillAlone ==
  \A d \in Ids \ clashed : \A k \in Bills : \A a, b \in Standing(d, k) : a = b
BillDue ==
  \A r \in Requests : \A d \in Ids \ clashed : \A k \in Bills :
    Billing(req[r], d) /\ req[r].kind = k => Standing(d, k) = {}

(* Two deletions do not hold one row; of the siblings whose deletion has   *)
(* counted, one at most is there; the last one has no siblings, and the    *)
(* others have.                                                            *)
OpenApart ==
  \A r, s \in Requests : r # s /\ Open(req[r]) /\ Open(req[s]) => req[r].id # req[s].id
Counted(q) == q.pc \in {"last", "others"} /\ There(q.id)
CountedAlone ==
  \A r, s \in Requests :
    Counted(req[r]) /\ Counted(req[s]) /\ req[r].of = req[s].of /\ req[r].kind = req[s].kind
      => r = s
LastAlone ==
  \A r \in Requests : \A d \in Ids \ clashed : \A k \in Kinds :
    req[r].pc = "last" /\ req[r].of = d /\ req[r].kind = k =>
      \A c \in Made(d, k) : c = req[r].id
OthersStand ==
  \A r \in Requests : \A d \in Ids : \A k \in Kinds :
    req[r].pc = "others" /\ There(req[r].id) /\ req[r].of = d /\ req[r].kind = k =>
      \E c \in Made(d, k) : c # req[r].id

(* Numbers at the gateway: what was granted is live (revoked is not) and   *)
(* about to be written down.                                               *)
Granted(op, d) == \E r \in Requests : req[r].op = op /\ req[r].pc = "granted" /\ req[r].id = d
LiveOnRecord ==
  \A d \in Ids \ clashed :
    <<"Waybill", d>> \in live => Is(d, "Waybill") /\ (paper[d].numbered \/ Granted("Generate", d))
RecordLive ==
  \A d \in Ids \ clashed :
    There(d) /\ paper[d].numbered => <<paper[d].kind, d>> \in live \/ Granted("Revoke", d)
NumberingKept ==
  \A r \in Requests : \A d \in Ids \ clashed :
    Numbering(req[r], d) =>
      /\ There(d)
      /\ req[r].op = "Generate" =>
           ~ paper[d].numbered /\ (req[r].pc = "granted" => <<req[r].kind, d>> \in live)
      /\ req[r].op = "Revoke" =>
           paper[d].numbered /\ (req[r].pc = "granted" => <<req[r].kind, d>> \notin live)
NoNumberDeleted ==
  \A r \in Requests : \A d \in Ids \ clashed :
    req[r].op = "Delete" /\ req[r].id = d /\ Is(d, "Waybill") => ~ paper[d].numbered

(* A quotation about to be rewritten is not converted.                     *)
RewriteOpen ==
  \A r \in Requests : \A d \in Ids \ clashed :
    Rewriting(req[r], d) /\ There(d) => paper[d].status # "Converted"

ReqInv  == RequestsFit /\ ClashKnown
BillInv == BillAlone /\ BillDue
CountInv == OpenApart /\ CountedAlone /\ LastAlone /\ OthersStand
NumberInv == LiveOnRecord /\ RecordLive /\ NumberingKept /\ NoNumberDeleted
CInv == /\ IInv /\ ReqInv /\ BillInv /\ CountInv /\ NumberInv /\ RewriteOpen
        /\ StatusFollowsPapers
-----------------------------------------------------------------------------
(* How the requests and the papers may change in a step.                   *)
SameAsk(q, p) == q.op = p.op /\ q.id = p.id /\ q.kind = p.kind /\ q.of = p.of
ReqsOn ==
  /\ \A s \in Requests : req'[s] = Idle \/ (SameAsk(req'[s], req[s]) /\ Shape(req'[s]))
  /\ clashed \subseteq clashed'
Ended(r) == req'[r] = Idle /\ \A s \in Requests \ {r} : req'[s] = req[s]
Gone(r, pc) ==
  /\ SameAsk(req'[r], req[r]) /\ req'[r].pc = pc
  /\ \A s \in Requests \ {r} : req'[s] = req[s]

LEMMA IdleShape == Shape(Idle) /\ Idle.op = "None" /\ Idle.pc = "idle" /\ ~ Open(Idle)
BY DEF Shape, Idle, Open

LEMMA EndEnds ==
  ASSUME IInv, NEW r \in Requests, End(r)
  PROVE  Ended(r)
BY DEF IInv, TypeOK, End, Ended

LEMMA EndedOn ==
  ASSUME RequestsFit, NEW r \in Requests, Ended(r), clashed \subseteq clashed'
  PROVE  ReqsOn
BY DEF Ended, ReqsOn, SameAsk, RequestsFit

LEMMA GoGoes ==
  ASSUME IInv, NEW r \in Requests, req[r].pc # "idle", NEW pc \in Pcs, Go(r, pc)
  PROVE  Gone(r, pc)
<1>1. req[r] \in Request
  BY RequestTyped DEF IInv
<1>2. \A s \in Requests : req'[s] = IF s = r THEN [req[r] EXCEPT !.pc = pc] ELSE req[s]
  BY DEF IInv, TypeOK, Go
<1> QED
  BY <1>1, <1>2 DEF Request, Gone, SameAsk

LEMMA GoneOn ==
  ASSUME RequestsFit, NEW r \in Requests, NEW pc, Gone(r, pc), clashed \subseteq clashed',
         req[r].op = "Delete" => pc \in {"erased", "last", "others"},
         req[r].op \in {"Generate", "Revoke"} => pc \in {"granted", "denied"},
         req[r].op \notin {"Create", "Rewrite"}
  PROVE  ReqsOn
<1>1. Shape(req'[r])
  BY DEF RequestsFit, Shape, Gone, SameAsk
<1>2. \A s \in Requests \ {r} : SameAsk(req'[s], req[s]) /\ Shape(req'[s])
  BY DEF RequestsFit, Gone, SameAsk
<1> QED
  BY <1>1, <1>2 DEF ReqsOn, Gone

(* What a paper's children are, without the helpers.                       *)
LEMMA Rows ==
  /\ \A c \in Ids : There(c) <=> paper[c] # NoPaper
  /\ \A c \in Ids : (There(c))' <=> paper'[c] # NoPaper
  /\ \A d, k, c : c \in Made(d, k) <=>
        c \in Ids /\ paper[c] # NoPaper /\ paper[c].of = d /\ paper[c].kind = k
  /\ \A d, k, c : c \in Made(d, k)' <=>
        c \in Ids /\ paper'[c] # NoPaper /\ paper'[c].of = d /\ paper'[c].kind = k
  /\ \A d, k, c : c \in Standing(d, k) <=> c \in Made(d, k) /\ paper[c].status # "Cancelled"
  /\ \A d, k, c : c \in Standing(d, k)' <=> c \in Made(d, k)' /\ paper'[c].status # "Cancelled"
<1> USE PaperConstants
<1>1. \A c \in Ids : (There(c) <=> paper[c] # NoPaper) /\ ((There(c))' <=> paper'[c] # NoPaper)
  BY DEF There
<1>2. \A d, k, c : c \in Made(d, k) <=>
        c \in Ids /\ paper[c] # NoPaper /\ paper[c].of = d /\ paper[c].kind = k
  BY DEF Made, Children, Is, There
<1>3. \A d, k, c : c \in Made(d, k)' <=>
        c \in Ids /\ paper'[c] # NoPaper /\ paper'[c].of = d /\ paper'[c].kind = k
  BY DEF Made, Children, Is, There
<1>4. /\ \A d, k, c : c \in Standing(d, k) <=> c \in Made(d, k) /\ paper[c].status # "Cancelled"
      /\ \A d, k, c : c \in Standing(d, k)' <=> c \in Made(d, k)' /\ paper'[c].status # "Cancelled"
  BY DEF Standing
<1> QED
  BY <1>1, <1>2, <1>3, <1>4

-----------------------------------------------------------------------------
(* Steps by which the requests go on or end and no paper is added.         *)
LEMMA AsksKept ==
  ASSUME IInv, ReqInv, ReqsOn, Shrinks
  PROVE  ReqInv'
<1>1. RequestsFit'
  <2> SUFFICES ASSUME NEW r \in Requests
               PROVE  Shape(req'[r]) /\ (Knows(req[r]))'
    BY DEF RequestsFit
  <2>1. CASE req'[r] = Idle
    BY <2>1, IdleShape DEF Knows, Ops
  <2>2. CASE SameAsk(req'[r], req[r]) /\ Shape(req'[r])
    <3>1. ASSUME req[r].op \in Ops \ {"Create"} PROVE req[r].id \in Ids
      BY <3>1 DEF IInv, ParentFits, Fits
    <3> QED
      BY <2>2, <3>1, Rows DEF SameAsk, Knows, ReqInv, RequestsFit, Shrinks
  <2> QED
    BY <2>1, <2>2 DEF ReqsOn
<1>2. ClashKnown'
  <2> SUFFICES ASSUME NEW r \in Requests, NEW s \in Requests, NEW d \in Ids,
                      r # s, Disturbs(req'[r], req'[s], d)
               PROVE  d \in clashed'
    BY DEF ClashKnown, Disturbs, Billing, Raising, Erasing, Numbering, Rewriting
  <2>1. req'[r].op # "None" /\ req'[s].op # "None"
    BY DEF Disturbs, Billing, Raising, Erasing, Numbering, Rewriting
  <2>2. SameAsk(req'[r], req[r]) /\ SameAsk(req'[s], req[s])
    BY <2>1, IdleShape DEF ReqsOn
  <2>3. Disturbs(req[r], req[s], d)
    BY <2>2 DEF SameAsk, Disturbs, Billing, Raising, Erasing, Numbering, Rewriting
  <2> QED
    BY <2>3 DEF ReqInv, ClashKnown, ReqsOn
<1> QED
  BY <1>1, <1>2 DEF ReqInv

(* Bills that were cancelled stay so, and no bill is added.                *)
CancelledStays ==
  \A c \in Ids :
    paper'[c] # NoPaper /\ paper'[c].kind \in Bills /\ paper[c].status = "Cancelled"
      => paper'[c].status = "Cancelled"

LEMMA BillsKept ==
  ASSUME BillInv, ReqsOn, Shrinks, CancelledStays
  PROVE  BillInv'
<1>1. ASSUME NEW d, NEW k \in Bills, NEW c \in Standing(d, k)' PROVE c \in Standing(d, k)
  <2>1. c \in Ids /\ paper'[c] # NoPaper /\ paper'[c].of = d /\ paper'[c].kind = k
        /\ paper'[c].status # "Cancelled"
    BY <1>1, Rows
  <2>2. paper[c] # NoPaper /\ paper[c].of = d /\ paper[c].kind = k
    BY <2>1 DEF Shrinks
  <2>3. paper[c].status # "Cancelled"
    BY <1>1, <2>1 DEF CancelledStays
  <2> QED
    BY <2>1, <2>2, <2>3, Rows
<1>2. BillAlone'
  BY <1>1 DEF BillInv, BillAlone, ReqsOn
<1>3. BillDue'
  <2> SUFFICES ASSUME NEW r \in Requests, NEW d \in Ids \ clashed', NEW k \in Bills,
                      Billing(req'[r], d), req'[r].kind = k, NEW c \in Standing(d, k)'
               PROVE  FALSE
    BY DEF BillDue, Billing
  <2>1. SameAsk(req'[r], req[r])
    BY IdleShape DEF ReqsOn, Billing
  <2>2. Billing(req[r], d) /\ req[r].kind = k /\ d \notin clashed
    BY <2>1 DEF SameAsk, Billing, ReqsOn
  <2> QED
    BY <1>1, <2>2 DEF BillInv, BillDue
<1> QED
  BY <1>2, <1>3 DEF BillInv
(* Work orders and job cards with a parent stay, and no deletion goes on.  *)
Siblinged(c) == paper[c].kind \in {"WorkOrder", "JobCard"} /\ paper[c].of # NoPaper
CountsStay ==
  /\ \A s \in Requests : Open(req'[s]) => req'[s] = req[s]
  /\ \A c \in Ids : paper[c] # NoPaper /\ Siblinged(c) => paper'[c] # NoPaper

LEMMA ShrunkMade ==
  ASSUME Shrinks, NEW d, NEW k, NEW c \in Made(d, k)'
  PROVE  c \in Made(d, k)
BY Rows DEF Shrinks

LEMMA SiblingsStay ==
  ASSUME Shrinks, CountsStay, NEW d, d # NoPaper, NEW k \in {"WorkOrder", "JobCard"}, NEW c \in Made(d, k)
  PROVE  c \in Made(d, k)'
<1>1. c \in Ids /\ paper[c] # NoPaper /\ paper[c].of = d /\ paper[c].kind = k
  BY Rows
<1>2. paper'[c] # NoPaper
  BY <1>1 DEF CountsStay, Siblinged
<1>3. paper'[c].of = d /\ paper'[c].kind = k
  BY <1>1, <1>2 DEF Shrinks
<1> QED
  BY <1>1, <1>2, <1>3, Rows

(* An open request is a deletion of a work order or job card with a parent. *)
LEMMA OpenIs ==
  ASSUME IInv, ReqInv, NEW r \in Requests, Open(req[r])
  PROVE  /\ req[r] \in Request /\ req[r].op = "Delete"
         /\ req[r].id \in Ids /\ req[r].of \in Ids
         /\ req[r].kind \in {"WorkOrder", "JobCard"} /\ req[r].kind \in Kinds
         /\ There(req[r].id) => req[r].id \in Made(req[r].of, req[r].kind)
<1>1. req[r] \in Request
  BY RequestTyped DEF IInv, Open
<1>2. /\ req[r].op = "Delete" /\ req[r].kind \in {"WorkOrder", "JobCard"} /\ req[r].of # NoPaper
  BY DEF IInv, ErasedIsLeaf, Leaf, Counts
<1>3. req[r].id \in Ids /\ req[r].of \in Ids /\ req[r].kind \in Kinds
  BY <1>1, <1>2 DEF IInv, ParentFits, Fits, Request
<1>4. There(req[r].id) => paper[req[r].id].kind = req[r].kind /\ paper[req[r].id].of = req[r].of
  BY <1>2 DEF ReqInv, RequestsFit, Knows, Ops
<1> QED
  BY <1>1, <1>2, <1>3, <1>4, Rows

LEMMA CountsKept ==
  ASSUME IInv, ReqInv, CountInv, clashed \subseteq clashed', Shrinks, CountsStay
  PROVE  CountInv'
<1>1. OpenApart'
  BY DEF CountInv, OpenApart, CountsStay, Open
<1>2. ASSUME NEW r \in Requests, Open(req'[r])
      PROVE  req'[r] = req[r] /\ Open(req[r])
  BY <1>2 DEF CountsStay
<1>3. ASSUME NEW r \in Requests, Open(req'[r]), There(req[r].id)'
      PROVE  There(req[r].id)
  BY <1>2, <1>3, OpenIs, Rows DEF Shrinks
<1>4. CountedAlone'
  <2> SUFFICES ASSUME NEW r \in Requests, NEW s \in Requests, Counted(req[r])', Counted(req[s])',
                      req'[r].of = req'[s].of, req'[r].kind = req'[s].kind
               PROVE  r = s
    BY DEF CountedAlone
  <2>1. Open(req'[r]) /\ Open(req'[s]) /\ There(req[r].id)' /\ There(req[s].id)'
    BY DEF Counted, Open
  <2>2. req'[r] = req[r] /\ req'[s] = req[s] /\ There(req[r].id) /\ There(req[s].id)
    BY <2>1, <1>2, <1>3
  <2>3. Counted(req[r]) /\ Counted(req[s])
    BY <2>2 DEF Counted
  <2> QED
    BY <2>2, <2>3 DEF CountInv, CountedAlone
<1>5. LastAlone'
  <2> SUFFICES ASSUME NEW r \in Requests, NEW d \in Ids \ clashed', NEW k \in Kinds,
                      req'[r].pc = "last", req'[r].of = d, req'[r].kind = k, NEW c \in Made(d, k)'
               PROVE  c = req'[r].id
    BY DEF LastAlone
  <2>1. req'[r] = req[r]
    BY DEF CountsStay, Open
  <2>2. c \in Made(d, k) /\ d \in Ids \ clashed
    BY ShrunkMade
  <2> QED
    BY <2>1, <2>2 DEF CountInv, LastAlone
<1>6. OthersStand'
  <2> SUFFICES ASSUME NEW r \in Requests, NEW d \in Ids, NEW k \in Kinds,
                      req'[r].pc = "others", There(req[r].id)', req'[r].of = d, req'[r].kind = k
               PROVE  \E c \in Made(d, k)' : c # req'[r].id
    BY DEF OthersStand
  <2>1. Open(req'[r])
    BY DEF Open
  <2>2. req'[r] = req[r] /\ Open(req[r]) /\ There(req[r].id)
    BY <2>1, <1>2, <1>3
  <2>3. k \in {"WorkOrder", "JobCard"}
    BY <2>2, OpenIs
  <2>4. PICK c \in Made(d, k) : c # req[r].id
    BY <2>2 DEF CountInv, OthersStand
  <2>5. c \in Made(d, k)'
    BY <2>3, <2>4, SiblingsStay, PaperConstants
  <2> QED
    BY <2>2, <2>4, <2>5
<1> QED
  BY <1>1, <1>4, <1>5, <1>6 DEF CountInv

(* Quotations, sales orders and work orders keep their status.             *)
StatusStays ==
  \A c \in Ids :
    paper'[c] # NoPaper /\ paper'[c].kind \in {"Quotation", "SalesOrder", "WorkOrder"}
      => paper'[c].status = paper[c].status

LEMMA StatusKept ==
  ASSUME StatusFollowsPapers, Shrinks, CountsStay, StatusStays, clashed \subseteq clashed'
  PROVE  StatusFollowsPapers'
<1> SUFFICES ASSUME NEW d \in Ids \ clashed', There(d)'
             PROVE  (/\ Is(d, "SalesOrder") =>
                          (paper[d].status = "InProduction" <=> Made(d, "WorkOrder") # {})
                     /\ Is(d, "WorkOrder") =>
                          (paper[d].status = "InProgress" <=> Made(d, "JobCard") # {})
                     /\ Is(d, "Quotation") /\ Made(d, "SalesOrder") # {} =>
                          paper[d].status = "Converted")'
  BY DEF StatusFollowsPapers, Is
<1>1. There(d) /\ paper'[d].kind = paper[d].kind /\ d \in Ids \ clashed /\ d # NoPaper
  BY Rows, PaperConstants DEF Shrinks
<1>2. paper[d].kind \in {"Quotation", "SalesOrder", "WorkOrder"} =>
        paper'[d].status = paper[d].status
  BY <1>1, Rows DEF StatusStays
<1>3. ASSUME NEW k \in {"WorkOrder", "JobCard"} PROVE (Made(d, k) = {})' <=> Made(d, k) = {}
  BY <1>1, ShrunkMade, SiblingsStay
<1>4. (Made(d, "SalesOrder") # {})' => Made(d, "SalesOrder") # {}
  BY ShrunkMade
<1>5. /\ Is(d, "SalesOrder") => (paper[d].status = "InProduction" <=> Made(d, "WorkOrder") # {})
      /\ Is(d, "WorkOrder") => (paper[d].status = "InProgress" <=> Made(d, "JobCard") # {})
      /\ Is(d, "Quotation") /\ Made(d, "SalesOrder") # {} => paper[d].status = "Converted"
  BY <1>1 DEF StatusFollowsPapers
<1> QED
  BY <1>1, <1>2, <1>3, <1>4, <1>5 DEF Is

QuotationsStay ==
  \A c \in Ids : paper'[c] # NoPaper /\ paper'[c].kind = "Quotation" =>
    paper'[c].status = paper[c].status

LEMMA RewritesKept ==
  ASSUME IInv, ReqInv, RewriteOpen, ReqsOn, Shrinks, QuotationsStay
  PROVE  RewriteOpen'
<1> SUFFICES ASSUME NEW r \in Requests, NEW d \in Ids \ clashed', Rewriting(req'[r], d), There(d)'
             PROVE  paper'[d].status # "Converted"
  BY DEF RewriteOpen, Rewriting
<1>1. SameAsk(req'[r], req[r])
  BY IdleShape DEF ReqsOn, Rewriting
<1>2. Rewriting(req[r], d) /\ There(d) /\ d \notin clashed /\ paper'[d].kind = paper[d].kind
  BY <1>1, Rows DEF SameAsk, Rewriting, Shrinks, ReqsOn
<1>3. paper[d].kind = "Quotation"
  BY <1>2 DEF ReqInv, RequestsFit, Shape, Knows, Rewriting, Ops
<1> QED
  BY <1>2, <1>3, Rows DEF RewriteOpen, QuotationsStay
(* Nothing about a number changes: a paper that goes has none, and no      *)
(* request is about its number.                                            *)
NumbersStay ==
  /\ live' = live
  /\ \A c \in Ids : paper'[c] # NoPaper => paper'[c].numbered = paper[c].numbered
  /\ \A s \in Requests :
       /\ req[s].pc = "granted" /\ req[s].id \notin clashed' => req'[s] = req[s]
       /\ req'[s].pc = "granted" => req'[s] = req[s]
  /\ \A c \in Ids \ clashed' : paper[c] # NoPaper /\ paper'[c] = NoPaper =>
       <<"Waybill", c>> \notin live /\ \A s \in Requests : ~ Numbering(req[s], c)

LEMMA NumbersKept ==
  ASSUME NumberInv, ReqsOn, Shrinks, NumbersStay
  PROVE  NumberInv'
<1>1. clashed \subseteq clashed'
  BY DEF ReqsOn
<1>2. ASSUME NEW d \in Ids \ clashed', NEW op, Granted(op, d)
      PROVE  Granted(op, d)'
  BY <1>2 DEF Granted, NumbersStay
<1>3. LiveOnRecord'
  <2> SUFFICES ASSUME NEW d \in Ids \ clashed', <<"Waybill", d>> \in live'
               PROVE  Is(d, "Waybill")' /\ (paper'[d].numbered \/ Granted("Generate", d)')
    BY DEF LiveOnRecord
  <2>1. Is(d, "Waybill") /\ (paper[d].numbered \/ Granted("Generate", d)) /\ paper'[d] # NoPaper
    BY <1>1, Rows DEF NumberInv, LiveOnRecord, NumbersStay, Is
  <2>2. Is(d, "Waybill")' /\ paper'[d].numbered = paper[d].numbered
    BY <2>1, Rows DEF Is, Shrinks, NumbersStay
  <2> QED
    BY <1>2, <2>1, <2>2
<1>4. RecordLive'
  <2> SUFFICES ASSUME NEW d \in Ids \ clashed', There(d)', paper'[d].numbered
               PROVE  <<paper'[d].kind, d>> \in live' \/ Granted("Revoke", d)'
    BY DEF RecordLive
  <2>1. There(d) /\ paper[d].numbered /\ paper'[d].kind = paper[d].kind
    BY Rows DEF Shrinks, NumbersStay
  <2>2. <<paper[d].kind, d>> \in live \/ Granted("Revoke", d)
    BY <1>1, <2>1 DEF NumberInv, RecordLive
  <2> QED
    BY <1>2, <2>1, <2>2 DEF NumbersStay
<1>5. NumberingKept'
  <2> SUFFICES ASSUME NEW r \in Requests, NEW d \in Ids \ clashed', Numbering(req'[r], d)
               PROVE  (/\ There(d)
                       /\ req[r].op = "Generate" =>
                            ~ paper[d].numbered /\ (req[r].pc = "granted" => <<req[r].kind, d>> \in live)
                       /\ req[r].op = "Revoke" =>
                            paper[d].numbered /\ (req[r].pc = "granted" => <<req[r].kind, d>> \notin live))'
    BY DEF NumberingKept, Numbering
  <2>1. SameAsk(req'[r], req[r])
    BY IdleShape DEF ReqsOn, Numbering
  <2>2. Numbering(req[r], d) /\ d \in Ids \ clashed
    BY <1>1, <2>1 DEF Numbering, SameAsk
  <2>3. /\ There(d)
        /\ req[r].op = "Generate" =>
             ~ paper[d].numbered /\ (req[r].pc = "granted" => <<req[r].kind, d>> \in live)
        /\ req[r].op = "Revoke" =>
             paper[d].numbered /\ (req[r].pc = "granted" => <<req[r].kind, d>> \notin live)
    BY <2>2 DEF NumberInv, NumberingKept
  <2>4. There(d)' /\ paper'[d].numbered = paper[d].numbered
    BY <2>2, <2>3, Rows DEF NumbersStay
  <2>5. live' = live /\ (req'[r].pc = "granted" => req[r].pc = "granted")
    BY DEF NumbersStay
  <2> QED
    BY <2>1, <2>3, <2>4, <2>5 DEF SameAsk
<1>6. NoNumberDeleted'
  <2> SUFFICES ASSUME NEW r \in Requests, NEW d \in Ids \ clashed',
                      req'[r].op = "Delete", req'[r].id = d, Is(d, "Waybill")'
               PROVE  ~ paper'[d].numbered
    BY DEF NoNumberDeleted
  <2>1. SameAsk(req'[r], req[r])
    BY IdleShape DEF ReqsOn
  <2>2. Is(d, "Waybill") /\ paper'[d].numbered = paper[d].numbered
    BY Rows DEF Is, Shrinks, NumbersStay
  <2> QED
    BY <1>1, <2>1, <2>2 DEF NumberInv, NoNumberDeleted, SameAsk
<1> QED
  BY <1>3, <1>4, <1>5, <1>6 DEF NumberInv

(* All of the frame at once, the counts and the statuses apart.            *)
LEMMA FrameKeepsRest ==
  ASSUME CInv, IInv', CountInv', StatusFollowsPapers', ReqsOn, Shrinks, CancelledStays,
         QuotationsStay, NumbersStay
  PROVE  CInv'
<1>1. IInv /\ ReqInv /\ BillInv /\ NumberInv /\ RewriteOpen
  BY DEF CInv
<1>2. ReqInv' /\ BillInv' /\ NumberInv' /\ RewriteOpen'
  BY <1>1, AsksKept, BillsKept, NumbersKept, RewritesKept
<1> QED
  BY <1>2 DEF CInv

LEMMA FrameKeepsCInv ==
  ASSUME CInv, IInv', ReqsOn, Shrinks, CancelledStays, CountsStay, StatusStays, NumbersStay
  PROVE  CInv'
<1>1. IInv /\ ReqInv /\ CountInv /\ StatusFollowsPapers /\ clashed \subseteq clashed'
  BY DEF CInv, ReqsOn
<1>2. CountInv' /\ StatusFollowsPapers'
  BY <1>1, CountsKept, StatusKept
<1>3. QuotationsStay
  BY DEF StatusStays, QuotationsStay
<1> QED
  BY <1>2, <1>3, FrameKeepsRest

LEMMA SamePaperStays ==
  ASSUME paper' = paper
  PROVE  /\ Shrinks /\ CancelledStays /\ StatusStays /\ QuotationsStay
         /\ \A c \in Ids : paper[c] # NoPaper /\ Siblinged(c) => paper'[c] # NoPaper
         /\ \A c \in Ids : paper'[c] # NoPaper => paper'[c].numbered = paper[c].numbered
BY DEF Shrinks, CancelledStays, StatusStays, QuotationsStay

(* A request ends; papers and numbers stay.                                *)
EndedQuietly(r) ==
  /\ Ended(r) /\ live' = live /\ clashed \subseteq clashed'
  /\ req[r].pc = "granted" => req[r].id \in clashed'

LEMMA SamePaperEnd ==
  ASSUME CInv, IInv', NEW r \in Requests, EndedQuietly(r), paper' = paper
  PROVE  CInv'
<1>1. ReqsOn
  BY EndedOn DEF CInv, ReqInv, EndedQuietly
<1>2. CountsStay
  BY IdleShape, SamePaperStays DEF CountsStay, EndedQuietly, Ended
<1>3. NumbersStay
  BY IdleShape, SamePaperStays DEF NumbersStay, EndedQuietly, Ended
<1> QED
  BY <1>1, <1>2, <1>3, SamePaperStays, FrameKeepsCInv

(* One paper's row changes in what no conjunct asks about, or is cancelled. *)
LEMMA RowEnd ==
  ASSUME CInv, IInv', ReqsOn, NEW d \in Ids, paper[d] # NoPaper, paper'[d] # NoPaper,
         \A c \in Ids \ {d} : paper'[c] = paper[c],
         paper'[d].kind = paper[d].kind, paper'[d].of = paper[d].of,
         paper'[d].numbered = paper[d].numbered,
         paper'[d].status = paper[d].status
           \/ (paper'[d].status = "Cancelled" /\ paper[d].kind \notin {"Quotation", "SalesOrder", "WorkOrder"}),
         live' = live,
         \A s \in Requests : /\ Open(req'[s]) => req'[s] = req[s]
                             /\ req[s].pc = "granted" /\ req[s].id \notin clashed' => req'[s] = req[s]
                             /\ req'[s].pc = "granted" => req'[s] = req[s]
  PROVE  CInv'
<1>1. Shrinks
  BY DEF Shrinks
<1>2. CancelledStays
  BY DEF CancelledStays, Bills
<1>3. CountsStay
  BY DEF CountsStay
<1>4. StatusStays
  BY DEF StatusStays
<1>5. NumbersStay
  BY DEF NumbersStay
<1> QED
  BY <1>1, <1>2, <1>3, <1>4, <1>5, FrameKeepsCInv

LEMMA ReplaceKeepsCInv ==
  ASSUME CInv, IInv', NEW r \in Requests, Replace(r)
  PROVE  CInv'
<1>1. IInv /\ RequestsFit
  BY DEF CInv, ReqInv
<1>2. Ended(r) /\ live' = live /\ clashed' = clashed /\ req[r].pc = "write"
  BY <1>1, EndEnds DEF Replace
<1>3. CASE paper' = paper
  BY <1>2, <1>3, SamePaperEnd DEF EndedQuietly
<1>4. CASE There(req[r].id) /\ paper' = [paper EXCEPT ![req[r].id].rewritten = ~ @]
  <2> DEFINE d == req[r].id
  <2>1. d \in Ids
    BY <1>1, <1>4 DEF Replace, IInv, ParentFits, Fits, Ops
  <2>2. paper[d] \in Paper /\ paper[d] # NoPaper
    BY <1>1, <1>4, <2>1 DEF IInv, TypeOK, There
  <2>3. paper'[d] = [paper[d] EXCEPT !.rewritten = ~ paper[d].rewritten]
        /\ \A c \in Ids \ {d} : paper'[c] = paper[c]
    BY <1>1, <1>4, <2>1 DEF IInv, TypeOK
  <2>4. /\ paper'[d].kind = paper[d].kind /\ paper'[d].of = paper[d].of
        /\ paper'[d].numbered = paper[d].numbered /\ paper'[d].status = paper[d].status
        /\ paper'[d] \in Paper
    BY <2>2, <2>3 DEF Paper
  <2>5. paper'[d] # NoPaper
    BY <2>4, PaperConstants
  <2>6. ReqsOn
    BY <1>1, <1>2, EndedOn
  <2>7. \A s \in Requests : /\ Open(req'[s]) => req'[s] = req[s]
                            /\ req[s].pc = "granted" /\ req[s].id \notin clashed' => req'[s] = req[s]
                            /\ req'[s].pc = "granted" => req'[s] = req[s]
    BY <1>2, IdleShape DEF Ended
  <2> HIDE DEF d
  <2> QED
    BY <1>2, <2>1, <2>2, <2>3, <2>4, <2>5, <2>6, <2>7, RowEnd
<1> QED
  BY <1>3, <1>4 DEF Replace

LEMMA CancelKeepsCInv ==
  ASSUME CInv, IInv', NEW d \in Ids, Cancel(d)
  PROVE  CInv'
<1>1. IInv /\ RequestsFit
  BY DEF CInv, ReqInv
<1>2. req' = req /\ live' = live /\ clashed' = clashed /\ There(d)
      /\ paper[d].kind \in {"Invoice", "Waybill", "CuttingEntry"}
      /\ paper' = [paper EXCEPT ![d].status = "Cancelled"]
  BY DEF Cancel
<1>3. paper[d] \in Paper /\ paper[d] # NoPaper
  BY <1>1, <1>2 DEF IInv, TypeOK, There
<1>4. paper'[d] = [paper[d] EXCEPT !.status = "Cancelled"] /\ \A c \in Ids \ {d} : paper'[c] = paper[c]
  BY <1>1, <1>2 DEF IInv, TypeOK
<1>5. /\ paper'[d].kind = paper[d].kind /\ paper'[d].of = paper[d].of
      /\ paper'[d].numbered = paper[d].numbered /\ paper'[d].status = "Cancelled"
      /\ paper'[d] \in Paper
  BY <1>3, <1>4 DEF Paper, Status
<1>6. paper'[d] # NoPaper
  BY <1>5, PaperConstants
<1>7. ReqsOn
  BY <1>1, <1>2 DEF ReqsOn, RequestsFit, SameAsk
<1> QED
  BY <1>2, <1>3, <1>4, <1>5, <1>6, <1>7, RowEnd

LEMMA FailKeepsCInv ==
  ASSUME CInv, IInv', NEW r \in Requests, Fail(r)
  PROVE  CInv'
<1>1. Ended(r)
  BY EndEnds DEF CInv, Fail
<1>2. EndedQuietly(r) /\ paper' = paper
  BY <1>1 DEF Fail, EndedQuietly
<1> QED
  BY <1>2, SamePaperEnd
-----------------------------------------------------------------------------
(* Deletions.                                                              *)
LEMMA StatusSame ==
  ASSUME StatusFollowsPapers, paper' = paper, clashed \subseteq clashed'
  PROVE  StatusFollowsPapers'
BY StatusKept, SamePaperStays DEF StatusFollowsPapers, Is, There, Made, Children

(* A request about a paper while another deletes it: the paper is clashed. *)
LEMMA DeletedUnnumbered ==
  ASSUME CInv, NEW r \in Requests, req[r].op = "Delete", NEW d \in Ids \ clashed, req[r].id = d
  PROVE  /\ \A s \in Requests : ~ Numbering(req[s], d)
         /\ <<"Waybill", d>> \notin live
<1>1. ASSUME NEW s \in Requests, Numbering(req[s], d) PROVE FALSE
  <2>1. s # r
    BY <1>1 DEF Numbering
  <2>2. Disturbs(req[s], req[r], d)
    BY <1>1 DEF Disturbs
  <2> QED
    BY <2>1, <2>2 DEF CInv, ReqInv, ClashKnown
<1>2. ASSUME <<"Waybill", d>> \in live PROVE FALSE
  <2>1. Is(d, "Waybill") /\ (paper[d].numbered \/ Granted("Generate", d))
    BY <1>2 DEF CInv, NumberInv, LiveOnRecord
  <2>2. ~ paper[d].numbered
    BY <2>1 DEF CInv, NumberInv, NoNumberDeleted
  <2>3. ~ Granted("Generate", d)
    BY <1>1 DEF Granted, Numbering
  <2> QED
    BY <2>1, <2>2, <2>3
<1> QED
  BY <1>1, <1>2

LEMMA EraseKeepsCInv ==
  ASSUME CInv, IInv', NEW r \in Requests, Erase(r)
  PROVE  CInv'
<1> DEFINE q == req[r]
           refused == There(q.id) /\ Refers(q.id)
<1>1. /\ q.op = "Delete" /\ q.pc = "write" /\ ~ Waits(q) /\ live' = live /\ clashed' = clashed
  BY DEF Erase
<1>2. IInv /\ ReqInv /\ RequestsFit /\ CountInv /\ StatusFollowsPapers
  BY DEF CInv, ReqInv
<1>3. q.id \in Ids
  BY <1>1, <1>2 DEF IInv, ParentFits, Fits, Ops
<1>4. CASE refused
  <2>1. End(r) /\ paper' = paper
    BY <1>4 DEF Erase
  <2> QED
    BY <1>1, <1>2, <2>1, EndEnds, SamePaperEnd DEF EndedQuietly
<1>5. CASE ~ refused /\ Counts(q)
  <2>1. Go(r, "erased") /\ paper' = paper
    BY <1>5 DEF Erase
  <2>2. Gone(r, "erased")
    BY <1>1, <1>2, <2>1, GoGoes DEF Pcs
  <2>3. ReqsOn
    BY <1>1, <1>2, <2>2, GoneOn
  <2>4. \A s \in Requests : Open(req[s]) => s # r /\ req[s].id # q.id
    BY <1>1 DEF Waits, Held, Open
  <2>5. /\ \A s \in Requests : s # r => req'[s] = req[s]
        /\ req'[r].pc = "erased" /\ req'[r].id = q.id
    BY <2>2 DEF Gone, SameAsk
  <2> HIDE DEF q, refused
  <2>6. OpenApart'
    BY <1>2, <2>4, <2>5 DEF CountInv, OpenApart
  <2>7. CountedAlone' /\ LastAlone' /\ OthersStand'
    <3>1. \A s \in Requests : req'[s].pc \in {"last", "others"} => req'[s] = req[s]
      BY <2>5
    <3>2. CountedAlone'
      <4> SUFFICES ASSUME NEW s \in Requests, NEW t \in Requests, Counted(req[s])', Counted(req[t])',
                          req'[s].of = req'[t].of, req'[s].kind = req'[t].kind
                   PROVE  s = t
        BY DEF CountedAlone
      <4>1. req'[s] = req[s] /\ req'[t] = req[t]
        BY <3>1 DEF Counted
      <4>2. Counted(req[s]) /\ Counted(req[t])
        BY <2>1, <4>1 DEF Counted, There
      <4> QED
        BY <1>2, <4>1, <4>2 DEF CountInv, CountedAlone
    <3>3. \A d, k : Made(d, k)' = Made(d, k)
      BY <2>1 DEF Made, Children, Is, There
    <3>4. LastAlone'
      BY <1>1, <1>2, <3>1, <3>3 DEF CountInv, LastAlone
    <3>5. OthersStand'
      <4> SUFFICES ASSUME NEW s \in Requests, NEW d \in Ids, NEW k \in Kinds, req'[s].pc = "others",
                          There(req[s].id)', req'[s].of = d, req'[s].kind = k
                   PROVE  \E c \in Made(d, k)' : c # req'[s].id
        BY DEF OthersStand
      <4>1. req'[s] = req[s] /\ There(req[s].id)
        BY <2>1, <3>1 DEF There
      <4> QED
        BY <1>2, <3>3, <4>1 DEF CountInv, OthersStand
    <3> QED
      BY <3>2, <3>4, <3>5
  <2>8. CountInv'
    BY <2>6, <2>7 DEF CountInv
  <2>9. NumbersStay
    BY <1>1, <2>1, <2>5, SamePaperStays DEF NumbersStay, q
  <2>10. StatusFollowsPapers'
    BY <1>1, <1>2, <2>1, StatusSame
  <2> QED
    BY <2>1, <2>3, <2>8, <2>9, <2>10, SamePaperStays, FrameKeepsRest
<1>6. CASE ~ refused /\ ~ Counts(q)
  <2>1. End(r) /\ paper' = [paper EXCEPT ![q.id] = NoPaper]
    BY <1>6 DEF Erase
  <2>2. Ended(r)
    BY <1>2, <2>1, EndEnds
  <2>3. paper'[q.id] = NoPaper /\ \A c \in Ids \ {q.id} : paper'[c] = paper[c]
    BY <1>2, <1>3, <2>1 DEF IInv, TypeOK
  <2>4. Children(q.id) = {}
    <3> SUFFICES ASSUME ~ There(q.id), NEW c \in Children(q.id)
                 PROVE  FALSE
      BY <1>6 DEF Refers
    <3>1. c \in Ids /\ There(c) /\ paper[c].of = q.id /\ q.id # NoPaper
      BY <1>3, PaperConstants DEF Children
    <3> QED
      BY <1>2, <3>1 DEF IInv, NoStrandedPaper, Is
  <2>5. Shrinks
    BY <2>3, <2>4 DEF Shrinks
  <2>6. paper[q.id] # NoPaper => ~ Siblinged(q.id)
    BY <1>1, <1>2, <1>3, <1>6, Rows DEF RequestsFit, Knows, Ops, Siblinged, Counts
  <2>7. \A s \in Requests : s # r => req'[s] = req[s]
    BY <2>2 DEF Ended
  <2>8. req'[r] = Idle
    BY <2>2 DEF Ended
  <2>9. CountsStay
    BY <2>3, <2>6, <2>7, <2>8, IdleShape DEF CountsStay
  <2>10. NumbersStay
    <3>1. \A c \in Ids \ clashed' : paper[c] # NoPaper /\ paper'[c] = NoPaper =>
            <<"Waybill", c>> \notin live /\ \A s \in Requests : ~ Numbering(req[s], c)
      BY <1>1, <2>3, DeletedUnnumbered
    <3> QED
      BY <1>1, <2>3, <2>7, <2>8, <3>1, IdleShape DEF NumbersStay
  <2>11. ReqsOn
    BY <1>1, <1>2, <2>2, EndedOn
  <2>12. CancelledStays /\ StatusStays
    BY <2>3 DEF CancelledStays, StatusStays
  <2> QED
    BY <2>5, <2>9, <2>10, <2>11, <2>12, FrameKeepsCInv
<1> QED
  BY <1>4, <1>5, <1>6
LEMMA CountKeepsCInv ==
  ASSUME CInv, IInv', NEW r \in Requests, Count(r)
  PROVE  CInv'
<1> DEFINE pc == IF Siblings(req[r]) = {} THEN "last" ELSE "others"
<1>1. /\ req[r].pc = "erased" /\ ~ SiblingHeld(req[r]) /\ Go(r, pc)
      /\ paper' = paper /\ live' = live /\ clashed' = clashed
  BY DEF Count
<1>2. IInv /\ ReqInv /\ RequestsFit /\ CountInv /\ StatusFollowsPapers
  BY DEF CInv, ReqInv
<1>3. /\ req[r].op = "Delete" /\ req[r].id \in Ids /\ req[r].of \in Ids /\ req[r].kind \in Kinds
  BY <1>1, <1>2, OpenIs DEF Open
<1>4. pc \in {"last", "others"}
  OBVIOUS
<1>5. pc = "last" <=> Siblings(req[r]) = {}
  OBVIOUS
<1> HIDE DEF pc
<1>6. Gone(r, pc)
  BY <1>1, <1>2, <1>4, GoGoes DEF Pcs
<1>7. ReqsOn
  BY <1>1, <1>2, <1>3, <1>4, <1>6, GoneOn
<1>8. /\ \A s \in Requests : s # r => req'[s] = req[s]
      /\ req'[r].id = req[r].id /\ req'[r].of = req[r].of /\ req'[r].kind = req[r].kind
      /\ req'[r].pc = pc
  BY <1>6 DEF Gone, SameAsk
<1>9. \A d, k : Made(d, k)' = Made(d, k)
  BY <1>1 DEF Made, Children, Is, There
<1>10. ASSUME NEW s \in Requests, s # r, Counted(req[s]), There(req[r].id),
              req[s].of = req[r].of, req[s].kind = req[r].kind
       PROVE  FALSE
  <2>1. Open(req[s]) /\ Open(req[r]) /\ There(req[s].id)
    BY <1>1, <1>10 DEF Counted, Open
  <2>2. req[s].id \in Made(req[r].of, req[r].kind) /\ req[s].id # req[r].id
    BY <1>2, <1>10, <2>1, OpenIs DEF CountInv, OpenApart
  <2>3. Held(req[s].id)
    BY <2>1 DEF Held
  <2> QED
    BY <1>1, <2>2, <2>3 DEF SiblingHeld, Siblings
<1>11. OpenApart'
  BY <1>1, <1>2, <1>8 DEF CountInv, OpenApart, Open
<1>12. CountedAlone'
  <2> SUFFICES ASSUME NEW s \in Requests, NEW t \in Requests, Counted(req[s])', Counted(req[t])',
                      req'[s].of = req'[t].of, req'[s].kind = req'[t].kind, s # t
               PROVE  FALSE
    BY DEF CountedAlone
  <2>1. \A u \in Requests : Counted(req[u])' => There(req[u].id) /\ (u # r => Counted(req[u]))
    BY <1>1, <1>8 DEF Counted, There
  <2>2. CASE s = r
    BY <1>8, <1>10, <2>1, <2>2
  <2>3. CASE t = r
    BY <1>8, <1>10, <2>1, <2>3
  <2>4. CASE s # r /\ t # r
    BY <1>2, <1>8, <2>1, <2>4 DEF CountInv, CountedAlone
  <2> QED
    BY <2>2, <2>3, <2>4
<1>13. LastAlone'
  <2> SUFFICES ASSUME NEW s \in Requests, NEW d \in Ids \ clashed, NEW k \in Kinds,
                      req'[s].pc = "last", req'[s].of = d, req'[s].kind = k, NEW c \in Made(d, k)
               PROVE  c = req'[s].id
    BY <1>1, <1>9 DEF LastAlone
  <2>1. CASE s = r
    BY <1>5, <1>8, <2>1 DEF Siblings
  <2>2. CASE s # r
    BY <1>2, <1>8, <2>2 DEF CountInv, LastAlone
  <2> QED
    BY <2>1, <2>2
<1>14. OthersStand'
  <2> SUFFICES ASSUME NEW s \in Requests, NEW d \in Ids, NEW k \in Kinds, req'[s].pc = "others",
                      There(req[s].id)', req'[s].of = d, req'[s].kind = k
               PROVE  \E c \in Made(d, k) : c # req'[s].id
    BY <1>9 DEF OthersStand
  <2>1. CASE s = r
    BY <1>4, <1>5, <1>8, <2>1 DEF Siblings
  <2>2. CASE s # r
    <3>1. req'[s] = req[s] /\ There(req[s].id)
      BY <1>1, <1>8, <2>2 DEF There
    <3> QED
      BY <1>2, <3>1 DEF CountInv, OthersStand
  <2> QED
    BY <2>1, <2>2
<1>15. CountInv'
  BY <1>11, <1>12, <1>13, <1>14 DEF CountInv
<1>16. NumbersStay
  BY <1>1, <1>4, <1>8, SamePaperStays DEF NumbersStay
<1>17. StatusFollowsPapers'
  BY <1>1, <1>2, StatusSame
<1> QED
  BY <1>1, <1>7, <1>15, <1>16, <1>17, SamePaperStays, FrameKeepsRest

(* The end of a deletion that counted: the paper goes, and after the last  *)
(* one its parent is put back.                                             *)
LEMMA CommitRows ==
  ASSUME IInv, ReqInv, NEW r \in Requests, Commit(r)
  PROVE  LET q == req[r]
         IN  /\ Ended(r) /\ live' = live /\ clashed' = clashed
             /\ Open(q) /\ q.pc \in {"last", "others"} /\ q.op = "Delete"
             /\ q.id \in Ids /\ q.of \in Ids /\ q.kind \in {"WorkOrder", "JobCard"} /\ q.kind \in Kinds
             /\ There(q.id) => q.id \in Made(q.of, q.kind)
             /\ Children(q.id) = {}
             /\ paper'[q.id] = NoPaper
             /\ \A c \in Ids \ {q.id} :
                  \/ paper'[c] = paper[c]
                     /\ ~ (q.pc = "last" /\ c = q.of /\ paper[c] # NoPaper
                             /\ paper[c].status = Back[q.kind].from)
                  \/ /\ q.pc = "last" /\ c = q.of /\ paper[c] # NoPaper
                     /\ paper[c].status = Back[q.kind].from
                     /\ paper'[c] # NoPaper /\ paper'[c].kind = paper[c].kind
                     /\ paper'[c].of = paper[c].of /\ paper'[c].numbered = paper[c].numbered
                     /\ paper'[c].status = Back[q.kind].to
<1> DEFINE q == req[r]
           base == IF q.pc = "last" THEN PutBack(q) ELSE paper
<1>1. /\ Open(q) /\ q.pc \in {"last", "others"} /\ End(r) /\ live' = live /\ clashed' = clashed
      /\ paper' = [base EXCEPT ![q.id] = NoPaper]
  BY DEF Commit, Open
<1>2. Ended(r)
  BY <1>1, EndEnds
<1>3. /\ q.op = "Delete" /\ q.id \in Ids /\ q.of \in Ids /\ q.kind \in {"WorkOrder", "JobCard"}
      /\ q.kind \in Kinds /\ (There(q.id) => q.id \in Made(q.of, q.kind))
  BY <1>1, OpenIs
<1>4. Children(q.id) = {}
  BY <1>1 DEF IInv, ErasedIsLeaf, Leaf
<1>5. CASE q.pc = "last" /\ There(q.of) /\ paper[q.of].status = Back[q.kind].from
  <2> DEFINE d == q.of
             v == Back[q.kind].to
  <2>1. base = [paper EXCEPT ![d].status = v]
    BY <1>5 DEF PutBack
  <2>2. paper[d] \in Paper /\ v \in Status
    BY <1>3, <1>5 DEF IInv, TypeOK, There, Back, Status
  <2>3. base[d] = [paper[d] EXCEPT !.status = v] /\ \A c \in Ids \ {d} : base[c] = paper[c]
    BY <1>3, <2>1 DEF IInv, TypeOK
  <2>4. base[d] \in Paper /\ base[d].kind = paper[d].kind /\ base[d].of = paper[d].of
        /\ base[d].numbered = paper[d].numbered /\ base[d].status = v
    BY <2>2, <2>3 DEF Paper
  <2>5. base \in [Ids -> Paper \cup {NoPaper}]
    BY <1>3, <2>1, <2>3, <2>4 DEF IInv, TypeOK
  <2> HIDE DEF base, q
  <2>6. paper'[q.id] = NoPaper /\ \A c \in Ids \ {q.id} : paper'[c] = base[c]
    BY <1>1, <1>3, <2>5
  <2>7. paper[d] # NoPaper /\ base[d] # NoPaper
    BY <1>3, <1>5, <2>4, Rows, PaperConstants DEF There
  <2>8. \A c \in Ids \ {q.id} :
          \/ paper'[c] = paper[c]
             /\ ~ (q.pc = "last" /\ c = q.of /\ paper[c] # NoPaper
                     /\ paper[c].status = Back[q.kind].from)
          \/ /\ q.pc = "last" /\ c = q.of /\ paper[c] # NoPaper
             /\ paper[c].status = Back[q.kind].from
             /\ paper'[c] # NoPaper /\ paper'[c].kind = paper[c].kind
             /\ paper'[c].of = paper[c].of /\ paper'[c].numbered = paper[c].numbered
             /\ paper'[c].status = Back[q.kind].to
    BY <1>5, <2>3, <2>4, <2>6, <2>7
  <2> QED
    BY <1>1, <1>2, <1>3, <1>4, <2>6, <2>8 DEF q
<1>6. CASE ~ (q.pc = "last" /\ There(q.of) /\ paper[q.of].status = Back[q.kind].from)
  <2>1. base = paper
    BY <1>6 DEF PutBack
  <2>2. paper'[q.id] = NoPaper /\ \A c \in Ids \ {q.id} : paper'[c] = paper[c]
    BY <1>1, <1>3, <2>1 DEF IInv, TypeOK
  <2>3. \A c \in Ids \ {q.id} :
          ~ (q.pc = "last" /\ c = q.of /\ paper[c] # NoPaper /\ paper[c].status = Back[q.kind].from)
    BY <1>6, Rows
  <2> QED
    BY <1>1, <1>2, <1>3, <1>4, <2>2, <2>3
<1> QED
  BY <1>5, <1>6
LEMMA CommitKeepsCInv ==
  ASSUME CInv, IInv', NEW r \in Requests, Commit(r)
  PROVE  CInv'
<1> DEFINE q == req[r]
<1>1. IInv /\ ReqInv /\ RequestsFit /\ CountInv /\ StatusFollowsPapers /\ TypeOK
  BY DEF CInv, ReqInv, IInv
<1>2. /\ Ended(r) /\ live' = live /\ clashed' = clashed
      /\ Open(q) /\ q.pc \in {"last", "others"} /\ q.op = "Delete"
      /\ q.id \in Ids /\ q.of \in Ids /\ q.kind \in {"WorkOrder", "JobCard"} /\ q.kind \in Kinds
      /\ There(q.id) => q.id \in Made(q.of, q.kind)
  BY <1>1, CommitRows
<1>3. Children(q.id) = {} /\ paper'[q.id] = NoPaper
  BY <1>1, CommitRows
<1>4. \A c \in Ids \ {q.id} :
        \/ paper'[c] = paper[c]
           /\ ~ (q.pc = "last" /\ c = q.of /\ paper[c] # NoPaper
                   /\ paper[c].status = Back[q.kind].from)
        \/ /\ q.pc = "last" /\ c = q.of /\ paper[c] # NoPaper
           /\ paper[c].status = Back[q.kind].from
           /\ paper'[c] # NoPaper /\ paper'[c].kind = paper[c].kind
           /\ paper'[c].of = paper[c].of /\ paper'[c].numbered = paper[c].numbered
           /\ paper'[c].status = Back[q.kind].to
  BY <1>1, CommitRows
<1>5. /\ \A s \in Requests : s # r => req'[s] = req[s]
      /\ req'[r] = Idle
  BY <1>2 DEF Ended
<1>6. \A c \in Ids : paper'[c] # NoPaper =>
        /\ c # q.id /\ paper[c] # NoPaper /\ paper'[c].kind = paper[c].kind
        /\ paper'[c].of = paper[c].of /\ paper'[c].numbered = paper[c].numbered
  BY <1>3, <1>4
<1>7. Shrinks
  BY <1>3, <1>4, <1>6 DEF Shrinks
<1>8. \A k \in {"WorkOrder", "JobCard"} :
        Back[k].from \in {"InProduction", "InProgress"} /\ Back[k].to \in {"Approved", "Open"}
  BY DEF Back
<1>9. CancelledStays
  BY <1>2, <1>4, <1>6, <1>8 DEF CancelledStays
<1>10. QuotationsStay
  <2> SUFFICES ASSUME NEW c \in Ids, paper'[c] # NoPaper, paper'[c].kind = "Quotation"
               PROVE  paper'[c].status = paper[c].status
    BY DEF QuotationsStay
  <2>1. paper[c] # NoPaper /\ paper[c].kind = "Quotation"
    BY <1>6
  <2>2. paper[c].status \in {"Sent", "Converted"}
    BY <1>1, <2>1, Rows DEF TypeOK, Statuses
  <2> QED
    BY <1>2, <1>4, <1>6, <1>8, <2>2
<1>11. ReqsOn
  BY <1>1, <1>2, EndedOn
<1>12. NumbersStay
  <2>1. \A c \in Ids \ clashed' : paper[c] # NoPaper /\ paper'[c] = NoPaper =>
          <<"Waybill", c>> \notin live /\ \A s \in Requests : ~ Numbering(req[s], c)
    BY <1>2, <1>4, DeletedUnnumbered
  <2>2. req[r].pc # "granted"
    BY <1>2
  <2> HIDE DEF q
  <2> QED
    BY <1>2, <1>5, <1>6, <2>1, <2>2, IdleShape DEF NumbersStay
<1> HIDE DEF q
<1>13. \A s \in Requests : Open(req'[s]) => s # r /\ req'[s] = req[s]
  BY <1>5, IdleShape
<1>14. OpenApart'
  BY <1>1, <1>13 DEF CountInv, OpenApart
<1>15. ASSUME NEW s \in Requests, Counted(req[s])'
       PROVE  Counted(req[s]) /\ s # r /\ req'[s] = req[s]
  <2>1. Open(req'[s]) /\ There(req[s].id)' /\ req'[s].pc \in {"last", "others"}
    BY <1>15 DEF Counted, Open
  <2>2. s # r /\ req'[s] = req[s] /\ Open(req[s])
    BY <1>13, <2>1
  <2>3. req[s].id \in Ids
    BY <1>1, <2>2, OpenIs
  <2> QED
    BY <1>6, <2>1, <2>2, <2>3, Rows DEF Counted
<1>16. CountedAlone'
  BY <1>1, <1>15 DEF CountInv, CountedAlone
<1>17. LastAlone'
  <2> SUFFICES ASSUME NEW s \in Requests, NEW d \in Ids \ clashed, NEW k \in Kinds,
                      req'[s].pc = "last", req'[s].of = d, req'[s].kind = k, NEW c \in Made(d, k)'
               PROVE  c = req'[s].id
    BY <1>2 DEF LastAlone
  <2>1. req'[s] = req[s] /\ c \in Made(d, k)
    BY <1>7, <1>13, ShrunkMade DEF Open
  <2> QED
    BY <1>1, <2>1 DEF CountInv, LastAlone
<1>18. ASSUME NEW d \in Ids, NEW k \in Kinds, NEW c \in Made(d, k), c # q.id
       PROVE  c \in Made(d, k)'
  BY <1>4, <1>18, Rows
<1>19. OthersStand'
  <2> SUFFICES ASSUME NEW s \in Requests, NEW d \in Ids, NEW k \in Kinds, req'[s].pc = "others",
                      There(req[s].id)', req'[s].of = d, req'[s].kind = k
               PROVE  \E c \in Made(d, k)' : c # req'[s].id
    BY DEF OthersStand
  <2>1. Counted(req[s]) /\ s # r /\ req'[s] = req[s]
    BY <1>15 DEF Counted
  <2>2. PICK c \in Made(d, k) : c # req[s].id
    BY <1>1, <2>1 DEF CountInv, OthersStand, Counted
  <2>3. ASSUME c = q.id PROVE FALSE
    <3>1. paper[q.id] # NoPaper /\ paper[q.id].of = d /\ paper[q.id].kind = k
      BY <2>2, <2>3, Rows
    <3>2. q.of = d /\ q.kind = k /\ There(q.id)
      BY <1>2, <3>1, Rows
    <3>3. Counted(req[r]) /\ req[r].of = d /\ req[r].kind = k
      BY <1>2, <3>2 DEF Counted, q
    <3> QED
      BY <1>1, <2>1, <3>3 DEF CountInv, CountedAlone
  <2> QED
    BY <1>18, <2>1, <2>2, <2>3
<1>20. CountInv'
  BY <1>14, <1>16, <1>17, <1>19 DEF CountInv
(* The parent has its siblings' status: the last one's commit puts it back *)
(* when nothing is left, the others' leave something.                      *)
<1>21. ASSUME NEW k \in {"WorkOrder", "JobCard"}, NEW d \in Ids \ clashed, paper'[d] # NoPaper,
              paper[d].status = Back[k].from <=> Made(d, k) # {},
              paper[d].kind = ParentKind[k]
       PROVE  paper'[d].status = Back[k].from <=> Made(d, k)' # {}
  <2>1. paper[d] # NoPaper /\ d # q.id
    BY <1>6, <1>21
  <2>2. CASE ~ (d = q.of /\ k = q.kind)
    <3>1. Made(d, k)' = Made(d, k)
      <4>1. \A c \in Made(d, k) : c # q.id
        BY <1>2, <2>2, Rows
      <4>2. \A c \in Made(d, k) : c \in Made(d, k)'
        BY <1>4, <4>1, Rows
      <4> QED
        BY <1>7, <4>2, ShrunkMade
    <3>2. paper'[d].status = paper[d].status
      <4>1. paper[d].status \in Statuses[paper[d].kind]
        BY <1>1, <2>1, Rows DEF TypeOK
      <4>2. d = q.of => paper[d].status # Back[q.kind].from
        BY <1>2, <1>21, <2>2, <4>1 DEF Back, Statuses, ParentKind
      <4> QED
        BY <1>4, <2>1, <4>2
    <3> QED
      BY <1>21, <3>1, <3>2
  <2>3. CASE d = q.of /\ k = q.kind /\ q.pc = "last"
    <3>1. \A c \in Made(d, k) : c = q.id
      BY <1>1, <1>2, <2>3 DEF CountInv, LastAlone, q
    <3>2. Made(d, k)' = {}
      BY <1>3, <1>7, <3>1, ShrunkMade, Rows
    <3>3. paper'[d].status # Back[k].from
      BY <1>4, <2>1, <2>3 DEF Back
    <3> QED
      BY <3>2, <3>3
  <2>4. CASE d = q.of /\ k = q.kind /\ q.pc = "others"
    <3>1. paper'[d] = paper[d]
      BY <1>4, <2>1, <2>4
    <3>2. CASE ~ There(q.id)
      <4>1. \A c \in Made(d, k) : c # q.id
        BY <1>2, <3>2, Rows
      <4>2. Made(d, k)' = Made(d, k)
        BY <1>2, <1>7, <1>18, <2>4, <4>1, ShrunkMade
      <4> QED
        BY <1>21, <3>1, <4>2
    <3>3. CASE There(q.id)
      <4>1. PICK c \in Made(d, k) : c # q.id
        BY <1>1, <1>2, <2>4, <3>3 DEF CountInv, OthersStand, q
      <4>2. c \in Made(d, k)'
        BY <1>2, <1>18, <2>4, <4>1
      <4> QED
        BY <1>21, <3>1, <4>1, <4>2
    <3> QED
      BY <3>2, <3>3
  <2> QED
    BY <1>2, <2>2, <2>3, <2>4
<1>22. StatusFollowsPapers'
  <2> SUFFICES ASSUME NEW d \in Ids \ clashed, paper'[d] # NoPaper
               PROVE  (/\ Is(d, "SalesOrder") =>
                            (paper[d].status = "InProduction" <=> Made(d, "WorkOrder") # {})
                       /\ Is(d, "WorkOrder") =>
                            (paper[d].status = "InProgress" <=> Made(d, "JobCard") # {})
                       /\ Is(d, "Quotation") /\ Made(d, "SalesOrder") # {} =>
                            paper[d].status = "Converted")'
    BY <1>2, Rows DEF StatusFollowsPapers, Is
  <2>1. paper[d] # NoPaper /\ paper'[d].kind = paper[d].kind
    BY <1>6
  <2>2. /\ Is(d, "SalesOrder") => (paper[d].status = "InProduction" <=> Made(d, "WorkOrder") # {})
        /\ Is(d, "WorkOrder") => (paper[d].status = "InProgress" <=> Made(d, "JobCard") # {})
        /\ Is(d, "Quotation") /\ Made(d, "SalesOrder") # {} => paper[d].status = "Converted"
    BY <1>1 DEF StatusFollowsPapers
  <2>3. \A k : Is(d, k)' <=> (Is(d, k) /\ paper[d].kind = k)
    BY <2>1, Rows DEF Is
  <2>4. ASSUME Is(d, "SalesOrder")'
        PROVE  (paper[d].status = "InProduction" <=> Made(d, "WorkOrder") # {})'
    BY <1>21, <2>2, <2>3, <2>4 DEF Back, ParentKind
  <2>5. ASSUME Is(d, "WorkOrder")'
        PROVE  (paper[d].status = "InProgress" <=> Made(d, "JobCard") # {})'
    BY <1>21, <2>2, <2>3, <2>5 DEF Back, ParentKind
  <2>6. ASSUME Is(d, "Quotation")', (Made(d, "SalesOrder") # {})'
        PROVE  paper'[d].status = "Converted"
    <3>1. Made(d, "SalesOrder") # {} /\ Is(d, "Quotation")
      BY <1>7, <2>3, <2>6, ShrunkMade
    <3> QED
      BY <1>10, <2>1, <2>2, <2>3, <2>6, <3>1 DEF QuotationsStay
  <2> QED
    BY <2>4, <2>5, <2>6
<1> QED
  BY <1>7, <1>9, <1>10, <1>11, <1>12, <1>20, <1>22, FrameKeepsRest
-----------------------------------------------------------------------------
(* The gateway's answer, and what is written down of it.                   *)
LEMMA FrameButNumbers ==
  ASSUME CInv, IInv', NumberInv', ReqsOn, Shrinks, CancelledStays, CountsStay, StatusStays
  PROVE  CInv'
<1>1. IInv /\ ReqInv /\ BillInv /\ CountInv /\ RewriteOpen /\ StatusFollowsPapers
      /\ clashed \subseteq clashed'
  BY DEF CInv, ReqsOn
<1>2. QuotationsStay
  BY DEF StatusStays, QuotationsStay
<1>3. ReqInv' /\ BillInv' /\ CountInv' /\ RewriteOpen' /\ StatusFollowsPapers'
  BY <1>1, <1>2, AsksKept, BillsKept, CountsKept, RewritesKept, StatusKept
<1> QED
  BY <1>3 DEF CInv

(* While a request about a paper's number is under way and the paper is    *)
(* not clashed, no other request is about its number or deletes it.        *)
LEMMA NumberingAlone ==
  ASSUME CInv, NEW r \in Requests, NEW d \in Ids \ clashed, Numbering(req[r], d)
  PROVE  \A s \in Requests \ {r} : ~ Numbering(req[s], d) /\ ~ (req[s].op = "Delete" /\ req[s].id = d)
<1> SUFFICES ASSUME NEW s \in Requests \ {r},
                    Numbering(req[s], d) \/ (req[s].op = "Delete" /\ req[s].id = d)
             PROVE  FALSE
  OBVIOUS
<1>1. Disturbs(req[r], req[s], d)
  BY DEF Disturbs
<1> QED
  BY <1>1 DEF CInv, ReqInv, ClashKnown

LEMMA GatewayRequest ==
  ASSUME CInv, NEW r \in Requests, req[r].pc \in {"ask", "granted", "denied"}
  PROVE  /\ req[r].op \in {"Generate", "Revoke"} /\ req[r].id \in Ids
         /\ req[r].kind \in Bills /\ Numbering(req[r], req[r].id)
         /\ There(req[r].id) => paper[req[r].id].kind = req[r].kind
<1>1. req[r] \in Request
  BY RequestTyped DEF CInv, IInv
<1>2. Shape(req[r]) /\ Knows(req[r]) /\ Fits(req[r])
  BY DEF CInv, ReqInv, RequestsFit, IInv, ParentFits
<1>3. req[r].op \in {"Generate", "Revoke"}
  BY <1>1, <1>2 DEF Request, Shape, Fits, Ops
<1> QED
  BY <1>2, <1>3 DEF Shape, Knows, Fits, Ops, Numbering, Bills

LEMMA AnswerKeepsCInv ==
  ASSUME CInv, IInv', NEW r \in Requests, NEW done \in BOOLEAN, NEW told \in BOOLEAN,
         Answer(r, done, told)
  PROVE  CInv'
<1> DEFINE q == req[r]
           d == q.id
           pc == IF told THEN "granted" ELSE "denied"
<1>1. /\ q.pc = "ask" /\ (told => done) /\ Go(r, pc) /\ paper' = paper
  BY DEF Answer
<1>2. /\ ~ done => live' = live
      /\ done /\ q.op = "Generate" => live' = live \cup {<<q.kind, d>>}
      /\ done /\ q.op # "Generate" => live' = live \ {<<q.kind, d>>}
  BY DEF Answer
<1>3. clashed \subseteq clashed' /\ (done /\ ~ told => d \in clashed')
  BY DEF Answer
<1>4. IInv /\ ReqInv /\ RequestsFit /\ NumberInv
  BY DEF CInv, ReqInv
<1>5. q.op \in {"Generate", "Revoke"} /\ d \in Ids /\ Numbering(q, d)
      /\ (There(d) => paper[d].kind = q.kind)
  BY <1>1, GatewayRequest
<1>6. pc \in {"granted", "denied"} /\ (pc = "granted" <=> told)
  OBVIOUS
<1> HIDE DEF pc
<1>7. Gone(r, pc)
  BY <1>1, <1>4, <1>6, GoGoes DEF Pcs
<1>8. ReqsOn
  BY <1>3, <1>4, <1>5, <1>6, <1>7, GoneOn
<1>9. /\ \A s \in Requests : s # r => req'[s] = req[s]
      /\ req'[r].op = q.op /\ req'[r].id = d /\ req'[r].kind = q.kind /\ req'[r].pc = pc
  BY <1>7 DEF Gone, SameAsk
<1>10. CountsStay
  BY <1>1, <1>6, <1>9, SamePaperStays DEF CountsStay, Open
<1>11. ASSUME d \notin clashed
       PROVE  /\ There(d) /\ paper[d].kind = q.kind
              /\ q.op = "Generate" => ~ paper[d].numbered
              /\ q.op = "Revoke" => paper[d].numbered
              /\ \A s \in Requests \ {r} : ~ Numbering(req[s], d)
              /\ ~ Granted("Generate", d) /\ ~ Granted("Revoke", d)
  <2>1. There(d) /\ (q.op = "Generate" => ~ paper[d].numbered) /\ (q.op = "Revoke" => paper[d].numbered)
    BY <1>4, <1>5, <1>11 DEF NumberInv, NumberingKept
  <2>2. \A s \in Requests \ {r} : ~ Numbering(req[s], d)
    BY <1>5, <1>11, NumberingAlone
  <2>3. ~ Granted("Generate", d) /\ ~ Granted("Revoke", d)
    BY <1>1, <2>2 DEF Granted, Numbering
  <2> QED
    BY <1>5, <2>1, <2>2, <2>3
<1> HIDE DEF q, d
<1>12. \A c \in Ids, k \in Kinds \cup {"Waybill"} : c # d => (<<k, c>> \in live' <=> <<k, c>> \in live)
  BY <1>2
<1>13. \A c \in Ids : c # d =>
         /\ Granted("Generate", c)' <=> Granted("Generate", c)
         /\ Granted("Revoke", c)' <=> Granted("Revoke", c)
  BY <1>9 DEF Granted, q, d
<1>14. ASSUME d \notin clashed'
       PROVE  /\ done <=> told
              /\ d \notin clashed
              /\ \A op, c : told /\ op = q.op /\ c = d => Granted(op, c)'
  <2>1. \A op, c : told /\ op = q.op /\ c = d => Granted(op, c)'
    BY <1>6, <1>9 DEF Granted
  <2> QED
    BY <1>1, <1>3, <1>14, <2>1
<1>15. LiveOnRecord'
  <2> SUFFICES ASSUME NEW c \in Ids \ clashed', <<"Waybill", c>> \in live'
               PROVE  Is(c, "Waybill") /\ (paper[c].numbered \/ Granted("Generate", c)')
    BY <1>1 DEF LiveOnRecord, Is, There
  <2>1. CASE c # d
    BY <1>3, <1>4, <1>12, <1>13, <2>1 DEF NumberInv, LiveOnRecord
  <2>2. CASE c = d /\ <<"Waybill", c>> \in live
    BY <1>3, <1>4, <1>11, <2>2 DEF NumberInv, LiveOnRecord
  <2>3. CASE c = d /\ <<"Waybill", c>> \notin live
    <3>1. done /\ q.op = "Generate" /\ q.kind = "Waybill"
      BY <1>2, <1>5, <2>3
    <3> QED
      BY <1>11, <1>14, <2>3, <3>1 DEF Is
  <2> QED
    BY <2>1, <2>2, <2>3
<1>16. RecordLive'
  <2> SUFFICES ASSUME NEW c \in Ids \ clashed', There(c), paper[c].numbered
               PROVE  <<paper[c].kind, c>> \in live' \/ Granted("Revoke", c)'
    BY <1>1 DEF RecordLive, There
  <2>1. paper[c].kind \in Kinds
    BY <1>4, Rows DEF IInv, TypeOK, Paper
  <2>2. <<paper[c].kind, c>> \in live \/ Granted("Revoke", c)
    BY <1>3, <1>4 DEF NumberInv, RecordLive
  <2>3. CASE c # d
    BY <1>12, <1>13, <2>1, <2>2, <2>3
  <2>4. CASE c = d
    BY <1>2, <1>5, <1>11, <1>14, <2>2, <2>4
  <2> QED
    BY <2>3, <2>4
<1>17. NumberingKept'
  <2> SUFFICES ASSUME NEW s \in Requests, NEW c \in Ids \ clashed', Numbering(req'[s], c)
               PROVE  /\ There(c)
                      /\ req'[s].op = "Generate" =>
                           ~ paper[c].numbered /\ (req'[s].pc = "granted" => <<req'[s].kind, c>> \in live')
                      /\ req'[s].op = "Revoke" =>
                           paper[c].numbered /\ (req'[s].pc = "granted" => <<req'[s].kind, c>> \notin live')
    BY <1>1 DEF NumberingKept, Numbering, There
  <2>1. CASE s = r
    <3>1. c = d
      BY <1>9, <2>1 DEF Numbering
    <3>2. /\ There(d) /\ (q.op = "Generate" => ~ paper[d].numbered)
          /\ (q.op = "Revoke" => paper[d].numbered)
      BY <1>11, <1>14, <3>1
    <3>3. told => done
      BY <1>1
    <3>4. told /\ q.op = "Generate" => <<q.kind, d>> \in live'
      BY <1>2, <3>3
    <3>5. told /\ q.op = "Revoke" => <<q.kind, d>> \notin live'
      BY <1>2, <3>3
    <3> QED
      BY <1>6, <1>9, <2>1, <3>1, <3>2, <3>4, <3>5
  <2>2. CASE s # r
    <3>1. req'[s] = req[s] /\ Numbering(req[s], c) /\ c \in Ids \ clashed
      BY <1>3, <1>9, <2>2
    <3>2. c # d
      BY <1>11, <2>2, <3>1
    <3>3. <<req[s].kind, c>> \in live' <=> <<req[s].kind, c>> \in live
      BY <1>2, <3>2
    <3> QED
      BY <1>4, <3>1, <3>3 DEF NumberInv, NumberingKept
  <2> QED
    BY <2>1, <2>2
<1>18. NoNumberDeleted'
  <2> SUFFICES ASSUME NEW s \in Requests, NEW c \in Ids \ clashed', req'[s].op = "Delete",
                      req'[s].id = c, Is(c, "Waybill")
               PROVE  ~ paper[c].numbered
    BY <1>1 DEF NoNumberDeleted, Is, There
  <2>1. s # r
    BY <1>5, <1>9
  <2> QED
    BY <1>3, <1>4, <1>9, <2>1 DEF NumberInv, NoNumberDeleted
<1>19. NumberInv'
  BY <1>15, <1>16, <1>17, <1>18 DEF NumberInv
<1> QED
  BY <1>1, <1>8, <1>10, <1>19, SamePaperStays, FrameButNumbers
LEMMA NoteRows ==
  ASSUME IInv, NEW r \in Requests, Note(r), There(req[r].id), req[r].id \in Ids,
         req[r].op \in {"Generate", "Revoke"}
  PROVE  LET d == req[r].id
         IN  /\ \A c \in Ids \ {d} : paper'[c] = paper[c]
             /\ paper'[d] # NoPaper /\ paper[d] # NoPaper
             /\ paper'[d].kind = paper[d].kind /\ paper'[d].of = paper[d].of
             /\ paper'[d].status = paper[d].status
             /\ req[r].op = "Generate" => (paper'[d].numbered <=> req[r].pc = "granted")
             /\ req[r].op = "Revoke" =>
                  (paper'[d].numbered <=> paper[d].numbered /\ req[r].pc # "granted")
<1> DEFINE d == req[r].id
           v == Noted(req[r].op, req[r].pc = "granted", paper[d].numbered)
<1>1. paper[d] \in Paper /\ paper[d] # NoPaper
  BY DEF IInv, TypeOK, There
<1>2. /\ req[r].op = "Generate" => (v <=> req[r].pc = "granted")
      /\ req[r].op = "Revoke" => (v <=> paper[d].numbered /\ req[r].pc # "granted")
      /\ v \in BOOLEAN
  <2>1. paper[d].numbered \in BOOLEAN
    BY <1>1 DEF Paper
  <2> QED
    BY <2>1, Zenon DEF Noted
<1>3. paper' = [paper EXCEPT ![d] = [paper[d] EXCEPT !.numbered = v]]
  BY Zenon DEF Note
<1> HIDE DEF v
<1>4. paper'[d] = [paper[d] EXCEPT !.numbered = v] /\ \A c \in Ids \ {d} : paper'[c] = paper[c]
  BY <1>3 DEF IInv, TypeOK
<1>5. paper'[d] \in Paper
  BY <1>1, <1>2, <1>4 DEF Paper
<1>6. /\ paper'[d].kind = paper[d].kind /\ paper'[d].of = paper[d].of
      /\ paper'[d].status = paper[d].status /\ paper'[d].numbered = v
  BY <1>1, <1>4 DEF Paper
<1>7. paper'[d] # NoPaper
  BY <1>5, PaperConstants
<1> QED
  BY <1>1, <1>2, <1>4, <1>6, <1>7

LEMMA NoteKeepsCInv ==
  ASSUME CInv, IInv', NEW r \in Requests, Note(r)
  PROVE  CInv'
<1> DEFINE q == req[r]
           d == q.id
<1>1. q.pc \in {"granted", "denied"} /\ live' = live /\ clashed' = clashed
  BY DEF Note
<1>2. IInv /\ ReqInv /\ RequestsFit /\ NumberInv
  BY DEF CInv, ReqInv
<1>3. q.op \in {"Generate", "Revoke"} /\ d \in Ids /\ Numbering(q, d)
      /\ (There(d) => paper[d].kind = q.kind)
  BY <1>1, GatewayRequest
<1>4. Ended(r)
  BY <1>2, EndEnds DEF Note
<1>5. CASE ~ There(d)
  <2>1. paper' = paper
    BY <1>5 DEF Note
  <2>2. d \in clashed
    BY <1>2, <1>3, <1>5 DEF NumberInv, NumberingKept
  <2> QED
    BY <1>1, <1>4, <2>1, <2>2, SamePaperEnd DEF EndedQuietly
<1>6. CASE There(d)
  <2>1. /\ \A c \in Ids \ {d} : paper'[c] = paper[c]
        /\ paper'[d] # NoPaper /\ paper[d] # NoPaper
        /\ paper'[d].kind = paper[d].kind /\ paper'[d].of = paper[d].of
        /\ paper'[d].status = paper[d].status
    BY <1>2, <1>3, <1>6, NoteRows
  <2>2. /\ q.op = "Generate" => (paper'[d].numbered <=> q.pc = "granted")
        /\ q.op = "Revoke" => (paper'[d].numbered <=> paper[d].numbered /\ q.pc # "granted")
    BY <1>2, <1>3, <1>6, NoteRows
  <2>3. /\ \A s \in Requests : s # r => req'[s] = req[s]
        /\ req'[r] = Idle
    BY <1>4 DEF Ended
  <2>4. ReqsOn
    BY <1>1, <1>2, <1>4, EndedOn
  <2>5. Shrinks /\ CancelledStays /\ StatusStays
    BY <2>1 DEF Shrinks, CancelledStays, StatusStays
  <2>6. CountsStay
    BY <2>1, <2>3, IdleShape DEF CountsStay
  <2>7. ASSUME d \notin clashed
        PROVE  /\ q.op = "Generate" =>
                    ~ paper[d].numbered /\ (q.pc = "granted" => <<q.kind, d>> \in live)
               /\ q.op = "Revoke" =>
                    paper[d].numbered /\ (q.pc = "granted" => <<q.kind, d>> \notin live)
               /\ \A s \in Requests \ {r} :
                    ~ Numbering(req[s], d) /\ ~ (req[s].op = "Delete" /\ req[s].id = d)
    <3>1. \A s \in Requests \ {r} : ~ Numbering(req[s], d) /\ ~ (req[s].op = "Delete" /\ req[s].id = d)
      BY <1>3, <2>7, NumberingAlone
    <3>2. /\ q.op = "Generate" =>
               ~ paper[d].numbered /\ (q.pc = "granted" => <<q.kind, d>> \in live)
          /\ q.op = "Revoke" =>
               paper[d].numbered /\ (q.pc = "granted" => <<q.kind, d>> \notin live)
      BY <1>2, <1>3, <2>7 DEF NumberInv, NumberingKept
    <3> QED
      BY <3>1, <3>2
  <2>8. ASSUME NEW op \in {"Generate", "Revoke"}, d \notin clashed, Granted(op, d)
        PROVE  q.op = op /\ q.pc = "granted"
    BY <2>7, <2>8 DEF Granted, Numbering
  <2>9. ASSUME NEW op, NEW c \in Ids, c # d
        PROVE  Granted(op, c)' <=> Granted(op, c)
    BY <2>3, <2>9, IdleShape DEF Granted, q, d
  <2> HIDE DEF q, d
  <2>10. LiveOnRecord'
    <3> SUFFICES ASSUME NEW c \in Ids \ clashed, <<"Waybill", c>> \in live
                 PROVE  Is(c, "Waybill")' /\ (paper'[c].numbered \/ Granted("Generate", c)')
      BY <1>1 DEF LiveOnRecord
    <3>1. Is(c, "Waybill") /\ (paper[c].numbered \/ Granted("Generate", c))
      BY <1>2 DEF NumberInv, LiveOnRecord
    <3>2. Is(c, "Waybill")'
      BY <2>1, <3>1, Rows DEF Is
    <3>3. CASE c # d
      BY <2>1, <2>9, <3>1, <3>2, <3>3
    <3>4. CASE c = d
      <4>1. q.kind = "Waybill"
        BY <1>3, <3>1, <3>4 DEF Is
      <4>2. q.op = "Generate" => q.pc = "granted"
        BY <2>7, <2>8, <3>1, <3>4
      <4> QED
        BY <1>3, <2>2, <2>7, <3>2, <3>4, <4>1, <4>2
    <3> QED
      BY <3>3, <3>4
  <2>11. RecordLive'
    <3> SUFFICES ASSUME NEW c \in Ids \ clashed, paper'[c] # NoPaper, paper'[c].numbered
                 PROVE  <<paper'[c].kind, c>> \in live \/ Granted("Revoke", c)'
      BY <1>1, Rows DEF RecordLive
    <3>1. paper[c] # NoPaper /\ paper'[c].kind = paper[c].kind
      BY <2>1
    <3>2. paper[c].numbered => <<paper[c].kind, c>> \in live \/ Granted("Revoke", c)
      BY <1>2, <3>1, Rows DEF NumberInv, RecordLive
    <3>3. CASE c # d
      BY <2>1, <2>9, <3>1, <3>2, <3>3
    <3>4. CASE c = d
      <4>1. paper[c].kind = q.kind
        BY <1>3, <1>6, <3>4
      <4> QED
        BY <1>3, <2>2, <2>7, <2>8, <3>1, <3>2, <3>4, <4>1
    <3> QED
      BY <3>3, <3>4
  <2>12. NumberingKept'
    <3> SUFFICES ASSUME NEW s \in Requests, NEW c \in Ids \ clashed, Numbering(req'[s], c)
                 PROVE  (/\ There(c)
                         /\ req[s].op = "Generate" =>
                              ~ paper[c].numbered /\ (req[s].pc = "granted" => <<req[s].kind, c>> \in live)
                         /\ req[s].op = "Revoke" =>
                              paper[c].numbered /\ (req[s].pc = "granted" => <<req[s].kind, c>> \notin live))'
      BY <1>1 DEF NumberingKept, Numbering
    <3>1. s # r /\ req'[s] = req[s]
      BY <2>3, IdleShape DEF Numbering
    <3>2. Numbering(req[s], c) /\ c # d
      BY <2>7, <3>1
    <3>3. paper'[c] = paper[c]
      BY <2>1, <3>2
    <3> QED
      BY <1>1, <1>2, <3>1, <3>2, <3>3 DEF NumberInv, NumberingKept, There
  <2>13. NoNumberDeleted'
    <3> SUFFICES ASSUME NEW s \in Requests, NEW c \in Ids \ clashed, req'[s].op = "Delete",
                        req'[s].id = c, Is(c, "Waybill")'
                 PROVE  ~ paper'[c].numbered
      BY <1>1 DEF NoNumberDeleted
    <3>1. s # r /\ req'[s] = req[s]
      BY <2>3, IdleShape
    <3>2. c # d
      BY <2>7, <3>1
    <3>3. paper'[c] = paper[c]
      BY <2>1, <3>2
    <3> QED
      BY <1>2, <3>1, <3>3 DEF NumberInv, NoNumberDeleted, Is, There
  <2>14. NumberInv'
    BY <2>10, <2>11, <2>12, <2>13 DEF NumberInv
  <2> QED
    BY <2>4, <2>5, <2>6, <2>14, FrameButNumbers
<1> QED
  BY <1>5, <1>6
-----------------------------------------------------------------------------
(* A request begins, and has just found what the invariant says it knows.  *)
LEMMA BeginKeepsCInv ==
  ASSUME CInv, IInv', NEW r \in Requests, NEW q \in Request, Begin(r, q),
         Shape(q), Knows(q), q.pc \in {"write", "ask"}
  PROVE  CInv'
<1>1. /\ paper' = paper /\ live' = live /\ clashed' = clashed \cup Clashes(q)
      /\ req[r].pc = "idle" /\ MayGoOn(q)
  BY DEF Begin, Active
<1>2. IInv /\ ReqInv /\ BillInv /\ CountInv /\ NumberInv /\ RewriteOpen /\ StatusFollowsPapers /\ TypeOK
  BY DEF CInv, IInv
<1>3. clashed \subseteq clashed'
  BY <1>1
<1>4. req'[r] = q /\ \A s \in Requests : s # r => req'[s] = req[s]
  BY <1>2 DEF Begin, TypeOK
<1>5. req[r].op \notin Ops
  BY <1>1, <1>2 DEF TypeOK, Request, Pcs, Idle, Ops
<1>6. RequestsFit'
  <2> SUFFICES ASSUME NEW s \in Requests
               PROVE  Shape(req'[s]) /\ (Knows(req[s]))'
    BY DEF RequestsFit
  <2>1. CASE s = r
    BY <1>1, <1>4, <2>1 DEF Knows, There
  <2>2. CASE s # r
    BY <1>1, <1>2, <1>4, <2>2 DEF ReqInv, RequestsFit, Knows, There
  <2> QED
    BY <2>1, <2>2
<1>7. ClashKnown'
  <2>1. ASSUME NEW s \in Requests, NEW d \in Ids, s # r,
               Disturbs(q, req[s], d) \/ Disturbs(req[s], q, d)
        PROVE  d \in clashed'
    <3>1. req[s].op # "None"
      BY <2>1 DEF Disturbs, Billing, Raising, Erasing, Numbering, Rewriting
    <3>2. Active(s)
      BY <1>2, <3>1 DEF TypeOK, Request, Pcs, Idle, Active
    <3> QED
      BY <1>1, <2>1, <3>2 DEF Clashes
  <2> SUFFICES ASSUME NEW s \in Requests, NEW t \in Requests, NEW d \in Ids, s # t,
                      Disturbs(req'[s], req'[t], d)
               PROVE  d \in clashed'
    BY DEF ClashKnown, Disturbs, Billing, Raising, Erasing, Numbering, Rewriting
  <2>2. CASE s = r \/ t = r
    BY <1>4, <2>1, <2>2
  <2>3. CASE s # r /\ t # r
    BY <1>2, <1>3, <1>4, <2>3 DEF ReqInv, ClashKnown
  <2> QED
    BY <2>2, <2>3
<1>8. \A d, k : Made(d, k)' = Made(d, k) /\ Standing(d, k)' = Standing(d, k)
  BY <1>1 DEF Made, Standing, Children, Is, There
<1>9. BillInv'
  <2>1. BillAlone'
    BY <1>2, <1>3, <1>8 DEF BillInv, BillAlone
  <2>2. BillDue'
    <3> SUFFICES ASSUME NEW s \in Requests, NEW d \in Ids \ clashed', NEW k \in Bills,
                        Billing(req'[s], d), req'[s].kind = k
                 PROVE  Standing(d, k) = {}
      BY <1>8 DEF BillDue, Billing
    <3>1. CASE s = r
      <4>1. q.op = "Create" /\ q.kind = k /\ q.of = d /\ d # NoPaper
        BY <1>4, <3>1, PaperConstants DEF Billing
      <4>2. MayCreate(q)
        BY <1>1, <4>1 DEF MayGoOn
      <4> QED
        BY <4>1, <4>2 DEF MayCreate, Bills
    <3>2. CASE s # r
      BY <1>2, <1>3, <1>4, <3>2 DEF BillInv, BillDue
    <3> QED
      BY <3>1, <3>2
  <2> QED
    BY <2>1, <2>2 DEF BillInv
<1>10. CountInv'
  <2>1. CountsStay
    BY <1>1, <1>4 DEF CountsStay, Open
  <2> QED
    BY <1>1, <1>2, <1>3, <2>1, SamePaperStays, CountsKept
<1>11. NumberInv'
  <2>1. \A op, d : op \in Ops => (Granted(op, d)' <=> Granted(op, d))
    BY <1>1, <1>4 DEF Granted
  <2>2. LiveOnRecord' /\ RecordLive'
    <3>1. \A d : Granted("Generate", d)' <=> Granted("Generate", d)
      BY <2>1 DEF Ops
    <3>2. \A d : Granted("Revoke", d)' <=> Granted("Revoke", d)
      BY <2>1 DEF Ops
    <3>3. LiveOnRecord'
      BY <1>1, <1>2, <1>3, <3>1 DEF NumberInv, LiveOnRecord, Is, There
    <3>4. RecordLive'
      BY <1>1, <1>2, <1>3, <3>2 DEF NumberInv, RecordLive, There
    <3> QED
      BY <3>3, <3>4
  <2>3. NumberingKept'
    <3> SUFFICES ASSUME NEW s \in Requests, NEW d \in Ids \ clashed', Numbering(req'[s], d)
                 PROVE  (/\ There(d)
                         /\ req[s].op = "Generate" =>
                              ~ paper[d].numbered /\ (req[s].pc = "granted" => <<req[s].kind, d>> \in live)
                         /\ req[s].op = "Revoke" =>
                              paper[d].numbered /\ (req[s].pc = "granted" => <<req[s].kind, d>> \notin live))'
      BY DEF NumberingKept, Numbering
    <3>1. CASE s = r
      <4>1. q.id = d /\ q.op \in {"Generate", "Revoke"}
        BY <1>4, <3>1 DEF Numbering
      <4>2. q.op = "Generate" => MayGenerate(q)
        BY <1>1 DEF MayGoOn
      <4>3. q.op = "Revoke" => MayRevoke(q)
        BY <1>1, <4>1 DEF MayGoOn
      <4>4. There(d) /\ (q.op = "Generate" => ~ paper[d].numbered)
            /\ (q.op = "Revoke" => paper[d].numbered)
        BY <4>1, <4>2, <4>3 DEF MayGenerate, MayRevoke
      <4> QED
        BY <1>1, <1>4, <3>1, <4>4 DEF There
    <3>2. CASE s # r
      BY <1>1, <1>2, <1>3, <1>4, <3>2 DEF NumberInv, NumberingKept, There
    <3> QED
      BY <3>1, <3>2
  <2>4. NoNumberDeleted'
    <3> SUFFICES ASSUME NEW s \in Requests, NEW d \in Ids \ clashed', req'[s].op = "Delete",
                        req'[s].id = d, Is(d, "Waybill")
                 PROVE  ~ paper[d].numbered
      BY <1>1 DEF NoNumberDeleted, Is, There
    <3>1. CASE s = r
      <4>1. q.op = "Delete" /\ q.id = d /\ q.kind = "Waybill"
        BY <1>4, <3>1 DEF Knows, Is, Ops
      <4>2. MayDelete(q)
        BY <1>1, <4>1 DEF MayGoOn
      <4> QED
        BY <4>1, <4>2 DEF MayDelete
    <3>2. CASE s # r
      BY <1>2, <1>3, <1>4, <3>2 DEF NumberInv, NoNumberDeleted
    <3> QED
      BY <3>1, <3>2
  <2> QED
    BY <2>2, <2>3, <2>4 DEF NumberInv
<1>12. RewriteOpen'
  <2> SUFFICES ASSUME NEW s \in Requests, NEW d \in Ids \ clashed', Rewriting(req'[s], d), There(d)
               PROVE  paper[d].status # "Converted"
    BY <1>1 DEF RewriteOpen, Rewriting, There
  <2>1. CASE s = r
    <3>1. q.op = "Rewrite" /\ q.id = d
      BY <1>4, <2>1 DEF Rewriting
    <3>2. MayRewrite(q)
      BY <1>1, <3>1 DEF MayGoOn
    <3> QED
      BY <3>1, <3>2 DEF MayRewrite
  <2>2. CASE s # r
    BY <1>2, <1>3, <1>4, <2>2 DEF RewriteOpen
  <2> QED
    BY <2>1, <2>2
<1>13. StatusFollowsPapers'
  BY <1>1, <1>2, <1>3, StatusSame
<1> QED
  BY <1>6, <1>7, <1>9, <1>10, <1>11, <1>12, <1>13 DEF CInv, ReqInv

LEMMA CreateKeepsCInv ==
  ASSUME CInv, IInv', NEW r \in Requests, NEW k \in Kinds, NEW of \in Ids \cup {NoPaper},
         Create(r, k, of)
  PROVE  CInv'
<1> DEFINE q == [op |-> "Create", pc |-> "write", id |-> NoPaper, kind |-> k, of |-> of]
<1>1. q \in Request
  BY DEF Request, Ops, Pcs
<1>2. Shape(q) /\ Knows(q) /\ q.pc = "write"
  BY DEF Shape, Knows
<1>3. Begin(r, q)
  BY DEF Create
<1> HIDE DEF q
<1> QED
  BY <1>1, <1>2, <1>3, BeginKeepsCInv

LEMMA AboutKeepsCInv ==
  ASSUME CInv, IInv', NEW r \in Requests, NEW d \in Ids,
         Delete(r, d) \/ Rewrite(r, d) \/ Generate(r, d) \/ Revoke(r, d)
  PROVE  CInv'
<1>1. ASSUME NEW op \in Ops \ {"Create"}, NEW pc \in {"write", "ask"}, About(r, op, pc, d),
             op = "Rewrite" => pc = "write" /\ Is(d, "Quotation"),
             op = "Delete" => pc = "write",
             op \in {"Generate", "Revoke"} => pc = "ask" /\ (Is(d, "Invoice") \/ Is(d, "Waybill"))
      PROVE  CInv'
  <2> DEFINE q == [op |-> op, pc |-> pc, id |-> d, kind |-> paper[d].kind, of |-> paper[d].of]
  <2>1. paper[d] \in Paper
    BY <1>1 DEF CInv, IInv, TypeOK, About, There
  <2>2. q \in Request
    BY <2>1 DEF Request, Paper, Pcs
  <2>3. Shape(q)
    BY <1>1 DEF Shape, Is
  <2>4. Knows(q) /\ q.pc \in {"write", "ask"}
    BY DEF Knows
  <2>5. Begin(r, q)
    BY <1>1 DEF About
  <2> HIDE DEF q
  <2> QED
    BY <2>2, <2>3, <2>4, <2>5, BeginKeepsCInv
<1>2. CASE Delete(r, d)
  BY <1>1, <1>2 DEF Delete, Ops
<1>3. CASE Rewrite(r, d)
  BY <1>1, <1>3 DEF Rewrite, Ops
<1>4. CASE Generate(r, d)
  BY <1>1, <1>4 DEF Generate, Ops
<1>5. CASE Revoke(r, d)
  BY <1>1, <1>5 DEF Revoke, Ops
<1> QED
  BY <1>2, <1>3, <1>4, <1>5
-----------------------------------------------------------------------------
(* An insert: the new paper, and its parent told of it.                    *)
After == [SalesOrder |-> "Converted", WorkOrder |-> "InProduction", JobCard |-> "InProgress"]
Adds(q, n) ==
  /\ paper'[n] # NoPaper /\ paper'[n].kind = q.kind /\ paper'[n].of = q.of
  /\ paper'[n].status = FirstStatus[q.kind] /\ ~ paper'[n].numbered
  /\ \A c \in Ids \ {n} :
       ~ (c = q.of /\ q.kind \in DOMAIN After) => paper'[c] = paper[c]
  /\ \A c \in Ids \ {n} : c = q.of /\ q.kind \in DOMAIN After =>
       /\ paper[c] # NoPaper /\ paper'[c] # NoPaper
       /\ paper'[c].kind = paper[c].kind /\ paper'[c].of = paper[c].of
       /\ paper'[c].numbered = paper[c].numbered
       /\ paper[c].kind = ParentKind[q.kind] /\ paper'[c].status = After[q.kind]
       /\ paper[c].status = After[q.kind] => paper'[c] = paper[c]

LEMMA InsertRows ==
  ASSUME IInv, NEW r \in Requests, req[r] \in Request, req[r].op = "Create",
         req[r].of = NoPaper \/ There(req[r].of), NEW n \in Unused,
         paper' = [(IF req[r].of = NoPaper THEN paper ELSE Told(req[r].kind, req[r].of))
                     EXCEPT ![n] = [kind |-> req[r].kind, of |-> req[r].of, rewritten |-> FALSE,
                                    status |-> FirstStatus[req[r].kind], numbered |-> FALSE]]
  PROVE  Adds(req[r], n)
<1> DEFINE q == req[r]
           base == IF q.of = NoPaper THEN paper ELSE Told(q.kind, q.of)
           row == [kind |-> q.kind, of |-> q.of, rewritten |-> FALSE,
                   status |-> FirstStatus[q.kind], numbered |-> FALSE]
           d == q.of
<1>1. n \in Ids /\ ~ There(n) /\ TypeOK
  BY DEF Unused, IInv
<1>2. q.kind \in Kinds /\ d \in Ids \cup {NoPaper} /\ q.kind \in DOMAIN ParentKind
  BY PaperConstants DEF Request
<1>3. d # NoPaper => /\ There(d) /\ paper[d] # NoPaper /\ d \in Ids /\ paper[d] \in Paper
                     /\ paper[d].kind = ParentKind[q.kind]
                     /\ paper[d].status \in Statuses[paper[d].kind]
  BY <1>2, Rows DEF IInv, ParentFits, Fits, TypeOK
<1>4. row \in Paper /\ row # NoPaper
  <2>1. FirstStatus[q.kind] \in Status
    BY <1>2, FirstStatusOfKind, StatusesOfKind
  <2>2. row \in Paper
    BY <1>2, <2>1 DEF Paper
  <2> QED
    BY <2>2, PaperConstants
<1>5. /\ row.kind = q.kind /\ row.of = q.of /\ row.status = FirstStatus[q.kind] /\ row.numbered = FALSE
  OBVIOUS
<1>6. paper' = [base EXCEPT ![n] = row]
  OBVIOUS
<1>7. CASE ~ (d # NoPaper /\ q.kind \in DOMAIN After)
  <2>1. base = paper
    BY <1>7 DEF Told, After
  <2>2. paper'[n] = row /\ \A c \in Ids \ {n} : paper'[c] = paper[c]
    BY <1>1, <1>6, <2>1 DEF TypeOK
  <2>3. \A c \in Ids \ {n} : ~ (c = q.of /\ q.kind \in DOMAIN After)
    BY <1>7, PaperConstants
  <2> HIDE DEF row, base, q
  <2> QED
    BY <1>4, <1>5, <2>2, <2>3 DEF Adds, q
<1>8. CASE d # NoPaper /\ q.kind \in DOMAIN After
  <2> DEFINE v == After[q.kind]
  <2>1. base = [paper EXCEPT ![d].status = v]
    <3>1. base = Told(q.kind, d)
      BY <1>8
    <3>2. CASE q.kind = "SalesOrder"
      BY <3>1, <3>2 DEF Told, After
    <3>3. CASE q.kind = "WorkOrder"
      BY <3>1, <3>3 DEF Told, After
    <3>4. CASE q.kind = "JobCard"
      <4>1. Told(q.kind, d) = [paper EXCEPT ![d].status = IF @ = "Open" THEN "InProgress" ELSE @]
        BY <3>4 DEF Told
      <4>2. (IF paper[d].status = "Open" THEN "InProgress" ELSE paper[d].status) = v
        BY <1>3, <1>8, <3>4 DEF Statuses, ParentKind, After
      <4> QED
        BY <3>1, <4>1, <4>2
    <3> QED
      BY <1>8, <3>2, <3>3, <3>4 DEF After
  <2>2. v \in Status
    BY <1>8 DEF After, Status
  <2> HIDE DEF v, base, row, d, q
  <2>3. base[d] = [paper[d] EXCEPT !.status = v] /\ \A c \in Ids \ {d} : base[c] = paper[c]
    BY <1>1, <1>3, <1>8, <2>1 DEF TypeOK
  <2>4. /\ base[d] \in Paper /\ base[d].kind = paper[d].kind /\ base[d].of = paper[d].of
        /\ base[d].numbered = paper[d].numbered /\ base[d].status = v
    BY <1>3, <1>8, <2>2, <2>3 DEF Paper
  <2>5. paper[d].status = v => base[d] = paper[d]
    BY <1>3, <1>8, <2>3 DEF Paper
  <2>6. base \in [Ids -> Paper \cup {NoPaper}]
    BY <1>1, <1>3, <1>8, <2>1, <2>3, <2>4 DEF TypeOK
  <2>7. paper'[n] = row /\ \A c \in Ids \ {n} : paper'[c] = base[c]
    BY <1>1, <1>6, <2>6
  <2>8. base[d] # NoPaper
    BY <2>4, PaperConstants
  <2>9. v = After[q.kind]
    BY DEF v
  <2>10. \A c \in Ids \ {n} : c = d =>
           /\ paper[c] # NoPaper /\ paper'[c] # NoPaper
           /\ paper'[c].kind = paper[c].kind /\ paper'[c].of = paper[c].of
           /\ paper'[c].numbered = paper[c].numbered
           /\ paper[c].kind = ParentKind[q.kind] /\ paper'[c].status = After[q.kind]
           /\ paper[c].status = After[q.kind] => paper'[c] = paper[c]
    BY <1>3, <1>8, <2>4, <2>5, <2>7, <2>8, <2>9
  <2>11. \A c \in Ids \ {n} : c # d => paper'[c] = paper[c]
    BY <2>3, <2>7
  <2> QED
    BY <1>4, <1>5, <1>8, <2>7, <2>10, <2>11 DEF Adds, q, d
<1> QED
  BY <1>7, <1>8
LEMMA AddKeepsCInv ==
  ASSUME CInv, IInv', NEW r \in Requests, req[r] \in Request, req[r].op = "Create",
         NEW n \in Unused, Adds(req[r], n), Ended(r), live' = live, clashed' = clashed,
         req[r].pc = "write"
  PROVE  CInv'
<1> DEFINE q == req[r]
<1>1. IInv /\ ReqInv /\ BillInv /\ CountInv /\ NumberInv /\ RewriteOpen /\ StatusFollowsPapers /\ TypeOK
  BY DEF CInv, IInv
<1>2. /\ n \in Ids /\ paper[n] = NoPaper /\ n \notin clashed
      /\ \A k \in Kinds : <<k, n>> \notin live
      /\ \A s \in Requests : req[s].pc # "idle" => n # req[s].id /\ n # req[s].of
  BY Rows DEF Unused, Active
<1>3. /\ paper'[n] # NoPaper /\ paper'[n].kind = q.kind /\ paper'[n].of = q.of
      /\ paper'[n].status = FirstStatus[q.kind] /\ ~ paper'[n].numbered
  BY DEF Adds
<1>4. /\ \A c \in Ids \ {n} : ~ (c = q.of /\ q.kind \in DOMAIN After) => paper'[c] = paper[c]
      /\ \A c \in Ids \ {n} : c = q.of /\ q.kind \in DOMAIN After =>
           /\ paper[c] # NoPaper /\ paper'[c] # NoPaper
           /\ paper'[c].kind = paper[c].kind /\ paper'[c].of = paper[c].of
           /\ paper'[c].numbered = paper[c].numbered
           /\ paper[c].kind = ParentKind[q.kind] /\ paper'[c].status = After[q.kind]
           /\ paper[c].status = After[q.kind] => paper'[c] = paper[c]
  BY DEF Adds
<1>5. \A c \in Ids \ {n} :
        /\ paper'[c] # NoPaper <=> paper[c] # NoPaper
        /\ paper[c] # NoPaper => /\ paper'[c].kind = paper[c].kind /\ paper'[c].of = paper[c].of
                                 /\ paper'[c].numbered = paper[c].numbered
  BY <1>4
<1>6. \A d, k : \A c : c \in Made(d, k)' <=> (c \in Made(d, k) \/ (c = n /\ q.of = d /\ q.kind = k))
  <2> SUFFICES ASSUME NEW d, NEW k, NEW c
               PROVE  c \in Made(d, k)' <=> (c \in Made(d, k) \/ (c = n /\ q.of = d /\ q.kind = k))
    OBVIOUS
  <2>1. CASE c = n
    BY <1>2, <1>3, <2>1, Rows
  <2>2. CASE c # n
    BY <1>5, <2>2, Rows
  <2> QED
    BY <2>1, <2>2
<1>7. /\ \A s \in Requests : s # r => req'[s] = req[s]
      /\ req'[r] = Idle
  BY DEF Ended
<1>8. \A s \in Requests : req'[s].op # "None" => s # r /\ req'[s] = req[s] /\ req[s].pc # "idle"
                                                 /\ n # req[s].id /\ n # req[s].of
  BY <1>1, <1>2, <1>7, IdleShape DEF TypeOK, Request, Pcs, Idle
<1>9. q.of # n /\ q.kind \in Kinds /\ q.kind \in DOMAIN ParentKind /\ q.of \in Ids \cup {NoPaper}
  BY <1>2, PaperConstants DEF Request
<1>10. \A k, c : c \notin Made(n, k) /\ c \notin Made(n, k)'
  <2> SUFFICES ASSUME NEW k, NEW c \in Made(n, k)
               PROVE  FALSE
    BY <1>6, <1>9
  <2>1. c \in Ids /\ There(c) /\ paper[c].of = n /\ n # NoPaper
    BY <1>2, Rows, PaperConstants
  <2>2. There(n)
    BY <1>1, <2>1 DEF IInv, NoStrandedPaper, Is
  <2> QED
    BY <1>2, <2>2, Rows
<1> HIDE DEF q
<1>11. ReqInv'
  <2>1. RequestsFit'
    <3> SUFFICES ASSUME NEW s \in Requests
                 PROVE  Shape(req'[s]) /\ (Knows(req[s]))'
      BY DEF RequestsFit
    <3>1. CASE s = r
      BY <1>7, <3>1, IdleShape DEF Knows, Ops
    <3>2. CASE s # r
      <4>1. req'[s] = req[s] /\ Shape(req[s]) /\ Knows(req[s])
        BY <1>1, <1>7, <3>2 DEF ReqInv, RequestsFit
      <4>2. req[s].op \in Ops \ {"Create"} => req[s].id \in Ids /\ req[s].id # n
        BY <1>1, <1>8, <4>1 DEF IInv, ParentFits, Fits, Ops
      <4>3. (Knows(req[s]))'
        BY <1>5, <4>1, <4>2, Rows DEF Knows
      <4> QED
        BY <4>1, <4>3
    <3> QED
      BY <3>1, <3>2
  <2>2. ClashKnown'
    <3> SUFFICES ASSUME NEW s \in Requests, NEW t \in Requests, NEW d \in Ids, s # t,
                        Disturbs(req'[s], req'[t], d)
                 PROVE  d \in clashed
      BY DEF ClashKnown, Disturbs, Billing, Raising, Erasing, Numbering, Rewriting
    <3>1. req'[s].op # "None" /\ req'[t].op # "None"
      BY DEF Disturbs, Billing, Raising, Erasing, Numbering, Rewriting
    <3>2. req'[s] = req[s] /\ req'[t] = req[t]
      BY <1>8, <3>1
    <3> QED
      BY <1>1, <3>2 DEF ReqInv, ClashKnown
  <2> QED
    BY <2>1, <2>2 DEF ReqInv
(* No other request that the new paper disturbs is under way.              *)
<1>12. ASSUME NEW s \in Requests, s # r, NEW d \in Ids \ clashed
       PROVE  ~ Disturbs(req[s], q, d) /\ ~ Disturbs(q, req[s], d)
  BY <1>1, <1>12 DEF ReqInv, ClashKnown, q
<1>13. \A k : ParentKind[q.kind] = k /\ q.kind \in DOMAIN After => k \in {"Quotation", "SalesOrder", "WorkOrder"}
  BY DEF After, ParentKind
<1>14. BillInv'
  <2>1. \A d, k : \A c : k \in Bills /\ c \in Standing(d, k)' =>
          c \in Standing(d, k) \/ (c = n /\ q.of = d /\ q.kind = k)
    <3> SUFFICES ASSUME NEW d, NEW k \in Bills, NEW c \in Standing(d, k)', ~ (c = n /\ q.of = d /\ q.kind = k)
                 PROVE  c \in Standing(d, k)
      OBVIOUS
    <3>1. c \in Made(d, k) /\ paper'[c].status # "Cancelled" /\ c \in Ids /\ paper[c] # NoPaper
          /\ paper[c].kind = k
      BY <1>6, Rows
    <3>2. c # n
      BY <1>2, <3>1
    <3>3. ~ (c = q.of /\ q.kind \in DOMAIN After)
      BY <1>4, <1>13, <3>1, <3>2 DEF Bills
    <3>4. paper'[c] = paper[c]
      BY <1>4, <3>1, <3>2, <3>3
    <3> QED
      BY <3>1, <3>4, Rows
  <2>2. BillAlone'
    <3> SUFFICES ASSUME NEW d \in Ids \ clashed, NEW k \in Bills,
                        NEW a \in Standing(d, k)', NEW b \in Standing(d, k)'
                 PROVE  a = b
      BY DEF BillAlone
    <3>1. CASE q.of = d /\ q.kind = k
      <4>1. Billing(q, d)
        BY <3>1 DEF Billing, Bills, q
      <4>2. Standing(d, k) = {}
        BY <1>1, <3>1, <4>1 DEF BillInv, BillDue, q
      <4> QED
        BY <2>1, <4>2
    <3>2. CASE ~ (q.of = d /\ q.kind = k)
      BY <1>1, <2>1, <3>2 DEF BillInv, BillAlone
    <3> QED
      BY <3>1, <3>2
  <2>3. BillDue'
    <3> SUFFICES ASSUME NEW s \in Requests, NEW d \in Ids \ clashed, NEW k \in Bills,
                        Billing(req'[s], d), req'[s].kind = k, NEW c \in Standing(d, k)'
                 PROVE  FALSE
      BY DEF BillDue, Billing
    <3>1. s # r /\ req'[s] = req[s]
      BY <1>8 DEF Billing
    <3>2. Standing(d, k) = {}
      BY <1>1, <3>1 DEF BillInv, BillDue
    <3>3. q.of = d /\ q.kind = k
      BY <2>1, <3>2
    <3>4. Disturbs(q, req[s], d)
      BY <3>1, <3>3 DEF Disturbs, Billing, q
    <3> QED
      BY <1>12, <3>1, <3>4
  <2> QED
    BY <2>2, <2>3 DEF BillInv
<1>15. \A s \in Requests : Open(req'[s]) => s # r /\ req'[s] = req[s]
  BY <1>7, IdleShape
<1>16. ASSUME NEW s \in Requests, Open(req'[s])
       PROVE  /\ s # r /\ req'[s] = req[s] /\ Open(req[s])
              /\ There(req[s].id)' => There(req[s].id)
  <2>1. s # r /\ req'[s] = req[s] /\ Open(req[s])
    BY <1>15, <1>16
  <2>2. req[s].op = "Delete" /\ req[s].id \in Ids
    BY <1>1, <2>1, OpenIs
  <2>3. req[s].id # n
    BY <1>8, <2>1, <2>2
  <2>4. There(req[s].id)' => There(req[s].id)
    BY <1>5, <2>1, <2>2, <2>3, Rows
  <2> QED
    BY <2>1, <2>4
<1>17. CountInv'
  <2>1. OpenApart'
    BY <1>1, <1>15 DEF CountInv, OpenApart
  <2>2. CountedAlone'
    <3> SUFFICES ASSUME NEW s \in Requests, NEW t \in Requests, Counted(req[s])', Counted(req[t])',
                        req'[s].of = req'[t].of, req'[s].kind = req'[t].kind
                 PROVE  s = t
      BY DEF CountedAlone
    <3>1. Open(req'[s]) /\ Open(req'[t]) /\ There(req[s].id)' /\ There(req[t].id)'
      BY DEF Counted, Open
    <3>2. req'[s] = req[s] /\ req'[t] = req[t] /\ There(req[s].id) /\ There(req[t].id)
      BY <1>16, <3>1
    <3>3. Counted(req[s]) /\ Counted(req[t])
      BY <3>2 DEF Counted
    <3> QED
      BY <1>1, <3>2, <3>3 DEF CountInv, CountedAlone
  <2>3. LastAlone'
    <3> SUFFICES ASSUME NEW s \in Requests, NEW d \in Ids \ clashed, NEW k \in Kinds,
                        req'[s].pc = "last", req'[s].of = d, req'[s].kind = k, NEW c \in Made(d, k)'
                 PROVE  c = req'[s].id
      BY DEF LastAlone
    <3>1. s # r /\ req'[s] = req[s] /\ Open(req[s])
      BY <1>16 DEF Open
    <3>2. req[s].op = "Delete" /\ k \in {"WorkOrder", "JobCard"}
      BY <1>1, <3>1, OpenIs
    <3>3. CASE c \in Made(d, k)
      BY <1>1, <3>1, <3>3 DEF CountInv, LastAlone
    <3>4. CASE q.of = d /\ q.kind = k
      <4>1. Raising(q, d, k) /\ Erasing(req[s], d, k)
        BY <3>1, <3>2, <3>4 DEF Raising, Erasing, q
      <4>2. Disturbs(q, req[s], d)
        BY <3>2, <4>1 DEF Disturbs
      <4> QED
        BY <1>12, <3>1, <4>2
    <3> QED
      BY <1>6, <3>3, <3>4
  <2>4. OthersStand'
    <3> SUFFICES ASSUME NEW s \in Requests, NEW d \in Ids, NEW k \in Kinds, req'[s].pc = "others",
                        There(req[s].id)', req'[s].of = d, req'[s].kind = k
                 PROVE  \E c \in Made(d, k)' : c # req'[s].id
      BY DEF OthersStand
    <3>1. req'[s] = req[s] /\ There(req[s].id)
      BY <1>16 DEF Open
    <3>2. PICK c \in Made(d, k) : c # req[s].id
      BY <1>1, <3>1 DEF CountInv, OthersStand
    <3> QED
      BY <1>6, <3>1, <3>2
  <2> QED
    BY <2>1, <2>2, <2>3, <2>4 DEF CountInv
<1>18. \A op, d : op \in {"Generate", "Revoke"} => (Granted(op, d)' <=> Granted(op, d))
  <2>1. \A s \in Requests : req[s].pc = "granted" => s # r /\ req'[s] = req[s]
    BY <1>7
  <2>2. \A s \in Requests : req'[s].pc = "granted" => s # r /\ req'[s] = req[s]
    BY <1>7, IdleShape
  <2> QED
    BY <2>1, <2>2 DEF Granted
<1>19. NumberInv'
  <2>1. LiveOnRecord'
    <3> SUFFICES ASSUME NEW c \in Ids \ clashed, <<"Waybill", c>> \in live
                 PROVE  Is(c, "Waybill")' /\ (paper'[c].numbered \/ Granted("Generate", c)')
      BY DEF LiveOnRecord
    <3>1. Is(c, "Waybill") /\ (paper[c].numbered \/ Granted("Generate", c))
      BY <1>1 DEF NumberInv, LiveOnRecord
    <3>2. c # n
      BY <1>2, <3>1, Rows DEF Is
    <3> QED
      BY <1>5, <1>18, <3>1, <3>2, Rows DEF Is
  <2>2. RecordLive'
    <3> SUFFICES ASSUME NEW c \in Ids \ clashed, paper'[c] # NoPaper, paper'[c].numbered
                 PROVE  <<paper'[c].kind, c>> \in live \/ Granted("Revoke", c)'
      BY Rows DEF RecordLive
    <3>1. c # n
      BY <1>3
    <3>2. paper[c] # NoPaper /\ paper[c].numbered /\ paper'[c].kind = paper[c].kind
      BY <1>5, <3>1
    <3> QED
      BY <1>1, <1>18, <3>2, Rows DEF NumberInv, RecordLive
  <2>3. NumberingKept'
    <3> SUFFICES ASSUME NEW s \in Requests, NEW c \in Ids \ clashed, Numbering(req'[s], c)
                 PROVE  (/\ There(c)
                         /\ req[s].op = "Generate" =>
                              ~ paper[c].numbered /\ (req[s].pc = "granted" => <<req[s].kind, c>> \in live)
                         /\ req[s].op = "Revoke" =>
                              paper[c].numbered /\ (req[s].pc = "granted" => <<req[s].kind, c>> \notin live))'
      BY DEF NumberingKept, Numbering
    <3>1. req'[s] = req[s] /\ n # c
      BY <1>8 DEF Numbering
    <3>2. /\ There(c)
          /\ req[s].op = "Generate" =>
               ~ paper[c].numbered /\ (req[s].pc = "granted" => <<req[s].kind, c>> \in live)
          /\ req[s].op = "Revoke" =>
               paper[c].numbered /\ (req[s].pc = "granted" => <<req[s].kind, c>> \notin live)
      BY <1>1, <3>1 DEF NumberInv, NumberingKept
    <3>3. There(c)' /\ paper'[c].numbered = paper[c].numbered
      BY <1>5, <3>1, <3>2, Rows
    <3> QED
      BY <3>1, <3>2, <3>3
  <2>4. NoNumberDeleted'
    <3> SUFFICES ASSUME NEW s \in Requests, NEW c \in Ids \ clashed, req'[s].op = "Delete",
                        req'[s].id = c, Is(c, "Waybill")'
                 PROVE  ~ paper'[c].numbered
      BY DEF NoNumberDeleted
    <3>1. req'[s] = req[s] /\ n # c
      BY <1>8
    <3>2. Is(c, "Waybill") /\ paper'[c].numbered = paper[c].numbered
      BY <1>5, <3>1, Rows DEF Is
    <3> QED
      BY <1>1, <3>1, <3>2 DEF NumberInv, NoNumberDeleted
  <2> QED
    BY <2>1, <2>2, <2>3, <2>4 DEF NumberInv
<1>20. RewriteOpen'
  <2> SUFFICES ASSUME NEW s \in Requests, NEW d \in Ids \ clashed, Rewriting(req'[s], d), There(d)'
               PROVE  paper'[d].status # "Converted"
    BY DEF RewriteOpen, Rewriting
  <2>1. s # r /\ req'[s] = req[s] /\ n # d
    BY <1>8 DEF Rewriting
  <2>2. There(d) /\ paper[d].status # "Converted"
    BY <1>1, <1>5, <2>1, Rows DEF RewriteOpen
  <2>3. ASSUME d = q.of, q.kind \in DOMAIN After, After[q.kind] = "Converted" PROVE FALSE
    <3>1. q.kind = "SalesOrder"
      BY <2>3 DEF After
    <3>2. Disturbs(q, req[s], d)
      BY <2>1, <2>3, <3>1 DEF Disturbs, Raising, q
    <3> QED
      BY <1>12, <2>1, <3>2
  <2> QED
    BY <1>4, <2>1, <2>2, <2>3
(* The statuses: of the new paper, of its parent, and of any other.        *)
<1>21. ASSUME NEW d \in Ids \ clashed, paper'[d] # NoPaper, d # n
       PROVE  /\ paper[d] # NoPaper /\ paper'[d].kind = paper[d].kind
              /\ \A k : Is(d, k)' <=> Is(d, k)
              /\ Is(d, "SalesOrder") => (paper[d].status = "InProduction" <=> Made(d, "WorkOrder") # {})
              /\ Is(d, "WorkOrder") => (paper[d].status = "InProgress" <=> Made(d, "JobCard") # {})
              /\ Is(d, "Quotation") /\ Made(d, "SalesOrder") # {} => paper[d].status = "Converted"
  BY <1>1, <1>5, <1>21, Rows DEF StatusFollowsPapers, Is
<1>22. ASSUME NEW d \in Ids \ clashed, paper'[d] # NoPaper
       PROVE  (/\ Is(d, "SalesOrder") => (paper[d].status = "InProduction" <=> Made(d, "WorkOrder") # {})
               /\ Is(d, "WorkOrder") => (paper[d].status = "InProgress" <=> Made(d, "JobCard") # {})
               /\ Is(d, "Quotation") /\ Made(d, "SalesOrder") # {} => paper[d].status = "Converted")'
  <2>1. CASE d = n
    <3>1. \A k : Made(d, k)' = {}
      BY <1>10, <2>1
    <3>2. /\ q.kind = "SalesOrder" => paper'[d].status # "InProduction"
          /\ q.kind = "WorkOrder" => paper'[d].status # "InProgress"
      BY <1>3, <2>1 DEF FirstStatus
    <3> QED
      BY <1>3, <2>1, <3>1, <3>2 DEF Is
  <2>2. CASE d # n /\ ~ (d = q.of /\ q.kind \in DOMAIN After)
    <3>1. paper'[d] = paper[d]
      BY <1>4, <2>2
    <3>2. ASSUME NEW k \in {"WorkOrder", "JobCard", "SalesOrder"}
          PROVE  Made(d, k)' = Made(d, k)
      <4>1. k \in DOMAIN After
        BY DEF After
      <4>2. \A c : c \in Made(d, k)' <=> c \in Made(d, k)
        BY <1>6, <2>2, <4>1
      <4> QED
        BY <4>2
    <3> QED
      BY <1>21, <1>22, <2>2, <3>1, <3>2
  <2>3. CASE d # n /\ d = q.of /\ q.kind \in DOMAIN After
    <3>1. paper[d].kind = ParentKind[q.kind] /\ paper'[d].status = After[q.kind]
          /\ paper'[d].kind = paper[d].kind
      BY <1>4, <2>3
    <3>2. \A k : k = q.kind => Made(d, k)' # {}
      BY <1>6, <2>3
    <3>3. CASE q.kind = "SalesOrder"
      BY <3>1, <3>3 DEF ParentKind, After, Is
    <3>4. CASE q.kind = "WorkOrder"
      BY <3>1, <3>2, <3>4 DEF ParentKind, After, Is
    <3>5. CASE q.kind = "JobCard"
      BY <3>1, <3>2, <3>5 DEF ParentKind, After, Is
    <3> QED
      BY <2>3, <3>3, <3>4, <3>5 DEF After
  <2> QED
    BY <2>1, <2>2, <2>3
<1>23. StatusFollowsPapers'
  BY <1>22, Rows DEF StatusFollowsPapers, Is
<1> QED
  BY <1>11, <1>14, <1>17, <1>19, <1>20, <1>23 DEF CInv
LEMMA InsertKeepsCInv ==
  ASSUME CInv, IInv', NEW r \in Requests, Insert(r)
  PROVE  CInv'
<1>1. /\ req[r] \in Request /\ req[r].op = "Create" /\ req[r].pc = "write"
      /\ live' = live /\ clashed' = clashed
  BY RequestTyped DEF Insert, CInv, IInv
<1>2. Ended(r)
  BY EndEnds DEF Insert, CInv
<1>3. CASE paper' = paper
  BY <1>1, <1>2, <1>3, SamePaperEnd DEF EndedQuietly
<1>4. ASSUME req[r].of = NoPaper \/ There(req[r].of), NEW n \in Unused,
             paper' = [(IF req[r].of = NoPaper THEN paper ELSE Told(req[r].kind, req[r].of))
                         EXCEPT ![n] = [kind |-> req[r].kind, of |-> req[r].of, rewritten |-> FALSE,
                                        status |-> FirstStatus[req[r].kind], numbered |-> FALSE]]
      PROVE  CInv'
  <2>1. Adds(req[r], n)
    BY <1>1, <1>4, InsertRows DEF CInv
  <2> QED
    BY <1>1, <1>2, <2>1, AddKeepsCInv
<1> QED
  BY <1>3, <1>4 DEF Insert

LEMMA InitMeetsCInv == Init => CInv
<1> SUFFICES ASSUME Init PROVE CInv
  OBVIOUS
<1>1. /\ \A d \in Ids : ~ There(d)
      /\ \A r \in Requests : req[r] = Idle
      /\ live = {}
  BY DEF Init, There
<1>2. \A d, k : Made(d, k) = {} /\ Standing(d, k) = {}
  BY <1>1 DEF Made, Standing, Children
<1>3. ReqInv
  BY <1>1, IdleShape DEF ReqInv, RequestsFit, ClashKnown, Knows, Ops, Disturbs, Billing, Raising,
                         Erasing, Numbering, Rewriting
<1>4. BillInv
  BY <1>2 DEF BillInv, BillAlone, BillDue
<1>5. CountInv
  BY <1>1, IdleShape DEF CountInv, OpenApart, CountedAlone, Counted, LastAlone, OthersStand, Open
<1>6. NumberInv
  BY <1>1, IdleShape DEF NumberInv, LiveOnRecord, RecordLive, NumberingKept, NoNumberDeleted, Numbering
<1>7. RewriteOpen /\ StatusFollowsPapers
  BY <1>1 DEF RewriteOpen, StatusFollowsPapers, Is
<1> QED
  BY <1>3, <1>4, <1>5, <1>6, <1>7, InitMeetsInv DEF CInv

LEMMA NextKeepsCInv ==
  ASSUME CInv, [Next]_vars
  PROVE  CInv'
<1>0. IInv'
  BY NextKeepsInv DEF CInv
<1>1. ASSUME NEW r \in Requests, NEW k \in Kinds, NEW of \in Ids \cup {NoPaper}, Create(r, k, of)
      PROVE  CInv'
  BY <1>0, <1>1, CreateKeepsCInv
<1>2. ASSUME NEW r \in Requests, NEW d \in Ids,
             Delete(r, d) \/ Rewrite(r, d) \/ Generate(r, d) \/ Revoke(r, d)
      PROVE  CInv'
  BY <1>0, <1>2, AboutKeepsCInv
<1>3. ASSUME NEW r \in Requests, Insert(r) \/ Replace(r) \/ Erase(r) \/ Count(r) \/ Commit(r)
                                 \/ Fail(r) \/ Note(r)
      PROVE  CInv'
  BY <1>0, <1>3, InsertKeepsCInv, ReplaceKeepsCInv, EraseKeepsCInv, CountKeepsCInv,
     CommitKeepsCInv, FailKeepsCInv, NoteKeepsCInv
<1>4. ASSUME NEW r \in Requests, NEW done \in BOOLEAN, NEW told \in BOOLEAN, Answer(r, done, told)
      PROVE  CInv'
  BY <1>0, <1>4, AnswerKeepsCInv
<1>5. ASSUME NEW d \in Ids, Cancel(d)
      PROVE  CInv'
  BY <1>0, <1>5, CancelKeepsCInv
<1>6. CASE UNCHANGED vars
  <2>1. paper' = paper /\ req' = req /\ live' = live /\ clashed' = clashed
    BY <1>6 DEF vars
  <2>2. ReqsOn
    BY <2>1 DEF CInv, ReqInv, RequestsFit, ReqsOn, SameAsk
  <2>3. CountsStay /\ NumbersStay
    BY <2>1, SamePaperStays DEF CountsStay, NumbersStay
  <2> QED
    BY <1>0, <2>1, <2>2, <2>3, SamePaperStays, FrameKeepsCInv
<1> QED
  BY <1>1, <1>2, <1>3, <1>4, <1>5, <1>6 DEF Next

(* An order is billed once and an invoice has one waybill, unless two      *)
(* requests to make one were under way at once: until a paper is clashed,  *)
(* whoever is about to bill it still finds no bill.                        *)
THEOREM OneBill == Spec => []BilledOnce
<1>1. ASSUME CInv PROVE BilledOnce
  <2> SUFFICES ASSUME NEW d \in Ids \ clashed, NEW k \in Bills
               PROVE  Cardinality(Standing(d, k)) <= 1
    BY DEF BilledOnce, Bills
  <2>1. \A a, b \in Standing(d, k) : a = b
    BY <1>1 DEF CInv, BillInv, BillAlone
  <2>2. CASE Standing(d, k) = {}
    BY <2>2, FS_EmptySet
  <2>3. CASE Standing(d, k) # {}
    <3>1. PICK a : a \in Standing(d, k)
      BY <2>3
    <3>2. Standing(d, k) = {a}
      BY <2>1, <3>1
    <3>3. Cardinality({a}) = 1
      BY FS_Singleton
    <3> QED
      BY <3>2, <3>3
  <2> QED
    BY <2>2, <2>3
<1>2. CInv /\ [Next]_vars => CInv'
  BY NextKeepsCInv
<1> QED
  BY InitMeetsCInv, <1>1, <1>2, PTL DEF Spec

(* The status of an order, a work order and a quotation follows what was   *)
(* made from it, however deletions of siblings overlap: of those that have *)
(* counted one at most is there (CountedAlone), because the count waits    *)
(* for rows that others hold.                                              *)
THEOREM StatusFollows == Spec => []StatusFollowsPapers
<1>1. CInv /\ [Next]_vars => CInv'
  BY NextKeepsCInv
<1>2. CInv => StatusFollowsPapers
  BY DEF CInv
<1> QED
  BY InitMeetsCInv, <1>1, <1>2, PTL DEF Spec

(* Numbers active at the gateway are on record and the record claims no    *)
(* others, but for lost answers and overlapping requests.                  *)
THEOREM NumbersRecorded == Spec => []NumbersOnRecord
<1>1. CInv => NumbersOnRecord
  <2> SUFFICES ASSUME CInv, NEW d \in Ids \ clashed, ~ Answered(d)
               PROVE  /\ <<"Waybill", d>> \in live => Is(d, "Waybill") /\ paper[d].numbered
                      /\ There(d) /\ paper[d].numbered => <<paper[d].kind, d>> \in live
    BY DEF NumbersOnRecord
  <2>1. ~ Granted("Generate", d) /\ ~ Granted("Revoke", d)
    BY DEF Granted, Answered, Numbering
  <2> QED
    BY <2>1 DEF CInv, NumberInv, LiveOnRecord, RecordLive
<1>2. CInv /\ [Next]_vars => CInv'
  BY NextKeepsCInv
<1> QED
  BY InitMeetsCInv, <1>1, <1>2, PTL DEF Spec
(* A step leaves the row of a converted quotation as it is, or removes it. *)
LEMMA ConvertedRow ==
  ASSUME CInv, [Next]_vars, NEW d \in Ids \ clashed, Is(d, "Quotation"), paper[d].status = "Converted"
  PROVE  paper'[d] \in {NoPaper, paper[d]}
<1>1. IInv /\ ReqInv /\ TypeOK /\ paper[d] # NoPaper /\ paper[d].kind = "Quotation"
  BY Rows DEF CInv, IInv, Is
<1> SUFFICES ASSUME paper' # paper PROVE paper'[d] \in {NoPaper, paper[d]}
  OBVIOUS
<1>2. ASSUME NEW r \in Requests, Insert(r)
      PROVE  paper'[d] \in {NoPaper, paper[d]}
  <2>1. req[r] \in Request /\ req[r].op = "Create"
    BY <1>1, <1>2, RequestTyped DEF Insert
  <2>2. PICK n \in Unused : Adds(req[r], n)
    BY <1>1, <1>2, <2>1, InsertRows DEF Insert
  <2>3. d # n
    BY <1>1, Rows DEF Unused
  <2>4. paper[d].kind = ParentKind[req[r].kind] /\ req[r].kind \in DOMAIN After =>
          After[req[r].kind] = "Converted"
    BY <1>1 DEF ParentKind, After
  <2> QED
    BY <2>2, <2>3, <2>4 DEF Adds
<1>3. ASSUME NEW r \in Requests, Replace(r)
      PROVE  paper'[d] \in {NoPaper, paper[d]}
  <2>1. req[r].op = "Rewrite" /\ paper' = [paper EXCEPT ![req[r].id].rewritten = ~ @]
        /\ There(req[r].id)
    BY <1>3 DEF Replace
  <2>2. req[r].id # d
    BY <1>1, <2>1 DEF CInv, RewriteOpen, Rewriting
  <2> QED
    BY <1>1, <2>1, <2>2 DEF TypeOK
<1>4. ASSUME NEW r \in Requests, Erase(r)
      PROVE  paper'[d] \in {NoPaper, paper[d]}
  <2>1. paper' = [paper EXCEPT ![req[r].id] = NoPaper]
    BY <1>4 DEF Erase
  <2> QED
    BY <1>1, <2>1 DEF TypeOK
<1>5. ASSUME NEW r \in Requests, Commit(r)
      PROVE  paper'[d] \in {NoPaper, paper[d]}
  <2>1. d # req[r].id /\ paper'[d] # paper[d] => paper[d].status = Back[req[r].kind].from
    BY <1>1, <1>5, CommitRows
  <2>2. req[r].kind \in {"WorkOrder", "JobCard"} /\ paper'[req[r].id] = NoPaper
    BY <1>1, <1>5, CommitRows
  <2> QED
    BY <2>1, <2>2 DEF Back
<1>6. ASSUME NEW r \in Requests, Note(r)
      PROVE  paper'[d] \in {NoPaper, paper[d]}
  <2>1. req[r].op \in {"Generate", "Revoke"} /\ req[r].id \in Ids /\ req[r].kind \in Bills
        /\ (There(req[r].id) => paper[req[r].id].kind = req[r].kind)
    BY <1>6, GatewayRequest DEF Note
  <2>2. There(req[r].id)
    BY <1>6 DEF Note
  <2>3. d # req[r].id
    BY <1>1, <2>1, <2>2 DEF Bills
  <2> QED
    BY <1>1, <1>6, <2>1, <2>2, <2>3, NoteRows
<1>7. ASSUME NEW c \in Ids, Cancel(c)
      PROVE  paper'[d] \in {NoPaper, paper[d]}
  <2>1. c # d /\ paper' = [paper EXCEPT ![c].status = "Cancelled"]
    BY <1>1, <1>7 DEF Cancel
  <2> QED
    BY <1>1, <2>1 DEF TypeOK
<1>8. ~ (UNCHANGED vars) /\ \A r \in Requests :
        /\ \A k \in Kinds, of \in Ids \cup {NoPaper} : ~ Create(r, k, of)
        /\ \A c \in Ids : ~ Delete(r, c) /\ ~ Rewrite(r, c) /\ ~ Generate(r, c) /\ ~ Revoke(r, c)
        /\ ~ Count(r) /\ ~ Fail(r)
        /\ \A done, told \in BOOLEAN : ~ Answer(r, done, told)
  BY DEF vars, Create, Delete, Rewrite, Generate, Revoke, About, Begin, Count, Fail, Answer
<1> QED
  BY <1>2, <1>3, <1>4, <1>5, <1>6, <1>7, <1>8 DEF Next

(* A converted quotation is not rewritten any more, except by an edit that *)
(* had read its status before: such an edit and the raising of the order   *)
(* clash.                                                                  *)
THEOREM ConvertedUntouched == Spec => ConvertedStays
<1>1. CInv /\ [Next]_vars => CInv'
  BY NextKeepsCInv
<1>2. CInv /\ [Next]_vars =>
        [\A d \in Ids \ clashed :
           Is(d, "Quotation") /\ paper[d].status = "Converted" => paper'[d] \in {NoPaper, paper[d]}]_vars
  BY ConvertedRow
<1> QED
  BY InitMeetsCInv, <1>1, <1>2, PTL DEF Spec, ConvertedStays
=============================================================================
