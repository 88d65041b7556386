----------------------------- MODULE PageForms -----------------------------
(***************************************************************************)
(* One page of the client with its form, the calls it has under way and    *)
(* two records of the server its list shows.  A call and its answer take   *)
(* time: the user goes on typing, cancels, opens another row, leaves the   *)
(* page and comes back to it; answers to lookups arrive late; answers to   *)
(* saves are lost.  A page that is left is unmounted: the one mounted later*)
(* knows nothing of its calls.                                             *)
(***************************************************************************)
EXTENDS Pages

CONSTANTS
  Mounted,     \* the pages of an instance
  Slots        \* bound: saves under way at one time

ASSUME FormConstants == Mounted \subseteq AllPages

VARIABLES
  page,    \* the page that is mounted
  form,    \* its form
  offer,   \* what the choices on show are for; in a panel, the row on show
  lookups, \* the values and rows whose lookup has not been answered
  save,    \* the saves under way
  row      \* for each record of the list, those its content was taken from

vars == <<page, form, offer, lookups, save, row>>

F == PageOf[page].form
FieldsOf(f) == f.needs \cup f.newOnly \cup f.extra
Children(f) == {d[1] : d \in f.of}
Parents(f) == {d[2] : d \in f.of}
Parent(f, c) == (CHOOSE d \in f.of : d[1] = c)[2]

(* What the forms of the client have in common.  A field whose choices     *)
(* depend on another depends on that one alone, and that one on none; it   *)
(* is copied or kept only with it; and where the answer that came last     *)
(* decides what can be chosen, the server looks at what it is sent.  A     *)
(* panel only edits.  A form that stays as it is once saved, or whose Save *)
(* is never disabled, makes records that have a key, or none.  A trip fills*)
(* fields that nothing hangs on; a form with items has no such fields.     *)
WellMade(f) ==
  /\ f.source \in {"local", "hidden", "previous", "last", "filled"}
  /\ f.of \subseteq FieldsOf(f) \X FieldsOf(f)
  /\ Children(f) \cap Parents(f) = {}
  /\ \A d, e \in f.of : d[1] = e[1] => d = e
  /\ \A d \in f.of : /\ d[2] \in f.newOnly => d[1] \in f.newOnly
                     /\ d[1] \in f.kept => d[2] \in f.kept
  /\ f.source = "last" => f.checked
  /\ f.source = "filled" => Children(f) \cap f.newOnly = {}
  /\ f.edit = "panel" => /\ f.create = "none" /\ f.of = {} /\ f.newOnly = {}
                         /\ f.trips = {} /\ f.items = {}
  /\ f.trips \subseteq FieldsOf(f) \ (Children(f) \cup Parents(f) \cup f.newOnly \cup f.key)
  /\ f.items # {} => f.of = {} /\ f.newOnly = {} /\ f.key = {}
  /\ f.after = "stays" => f.create # "none"
  /\ f.after = "rests" \/ f.busy = "never" => f.create = "none" \/ f.key # {}

ASSUME FormsWellMade == \A p \in Mounted : WellMade(PageOf[p].form)

Rows == {"row1", "row2"}
New == "new"
Ids == Rows \cup {New}
Sources == Ids \cup {"another"}
Blank == "blank"
None == "none"

(* What can stand in a field: nothing, or a value; a field that depends on *)
(* another one holds the value of that field it was chosen for.            *)
Values == {"a", "b"}
Paired(f) == Children(f) \cup Parents(f) \cup {d[1] : d \in f.differ} \cup {d[2] : d \in f.differ}
ValuesOf(f, x) == IF x \in Paired(f) THEN Values \cup {Blank} ELSE {Blank, "a"}
Empty(f) == [x \in FieldsOf(f) |-> Blank]

(* Mutant of Copied: the fields of a new record are copied as well.        *)
CopiedWhole(f) == [x \in FieldsOf(f) |-> "a"]

Copied(f) == [x \in FieldsOf(f) |-> IF x \in f.newOnly THEN Blank ELSE "a"]

Idle ==
  [at |-> "idle", id |-> New, src |-> {}, fits |-> TRUE, own |-> FALSE, here |-> FALSE]
Closed(f) ==
  [shown |-> FALSE, away |-> FALSE, id |-> New, src |-> {New}, val |-> Empty(f), item |-> None,
   booked |-> 0, lost |-> FALSE, carried |-> FALSE]

TypeOK ==
  /\ page \in Mounted
  /\ form \in [shown : BOOLEAN, away : BOOLEAN, id : Ids, src : SUBSET Sources,
               val : [FieldsOf(F) -> Values \cup {Blank}], item : Ids \cup {None},
               booked : 0..2, lost : BOOLEAN, carried : BOOLEAN]
  /\ \A x \in FieldsOf(F) : form.val[x] \in ValuesOf(F, x)
  /\ \A x \in F.newOnly : form.id = New \/ form.val[x] = Blank
  /\ offer \in Values \cup Rows \cup {Blank}
  /\ lookups \subseteq Values \cup Rows
  /\ save \in [Slots -> [at : {"idle", "sent", "done", "refused"}, id : Ids, src : SUBSET Sources,
                         fits : BOOLEAN, own : BOOLEAN, here : BOOLEAN]]
  /\ row \in [Rows -> SUBSET Sources]

-----------------------------------------------------------------------------
(* Opening and closing.  Saves under way are no longer those of the form   *)
(* that is open; those of a page that was left are not known to the page.  *)
Disowned ==
  [s \in Slots |-> IF save[s].at = "idle" THEN Idle
                   ELSE [save[s] EXCEPT !.own = FALSE, !.here = @ /\ F.after # "leaves"]]
Orphaned == [s \in Slots |-> [save[s] EXCEPT !.own = FALSE, !.here = FALSE]]

(* Mutant of Opened: a form that is open stays bound to its row.           *)
OpenedStillBound(id, src, val) ==
  [Closed(F) EXCEPT !.shown = TRUE, !.id = IF form.shown THEN form.id ELSE id, !.src = src,
                    !.val = val, !.item = form.item]

(* The entry for items, if it is on show, stays as it is.                  *)
Opened(id, src, val) ==
  [Closed(F) EXCEPT !.shown = TRUE, !.id = id, !.src = src, !.val = val, !.item = form.item]
Show(id, src, val) == form' = Opened(id, src, val) /\ save' = Disowned

OpenNew ==
  /\ ~ form.shown /\ ~ form.away
  /\ F.create # "none"
  /\ \/ F.opens = "empty" /\ Show(New, {New}, Empty(F))
     \/ F.opens = "left" /\ form' = [form EXCEPT !.shown = TRUE] /\ UNCHANGED save
  /\ UNCHANGED <<page, offer, lookups, row>>

OpenEdit(r) ==
  /\ F.update # "none" /\ ~ form.away
  /\ \/ F.edit = "list" /\ Show(r, {r}, Copied(F)) /\ UNCHANGED lookups
     \/ F.edit = "fetched" /\ lookups' = lookups \cup {r} /\ UNCHANGED <<form, save>>
     \/ F.edit = "panel" /\ r = offer /\ Show(form.id, {r}, Copied(F)) /\ UNCHANGED lookups
  /\ UNCHANGED <<page, offer, row>>

Cancel ==
  /\ form.shown
  /\ form' = [form EXCEPT !.shown = FALSE, !.item = None,
                          !.id = IF F.opens = "left" \/ F.edit = "panel" THEN @ ELSE New]
  /\ UNCHANGED <<page, offer, lookups, save, row>>

(* In a panel the row selected is the one saved over; what is on show, and *)
(* being typed, stays until that row's record has arrived.                 *)
Select(r) ==
  /\ F.edit = "panel"
  /\ form.id # r
  /\ form' = [form EXCEPT !.id = r]
  /\ UNCHANGED <<page, offer, lookups, save, row>>

PanelFollows ==
  /\ F.edit = "panel"
  /\ form.id \notin {New, offer}
  /\ offer' = form.id
  /\ form' = [Closed(F) EXCEPT !.id = form.id]
  /\ UNCHANGED <<page, lookups, save, row>>

(* The user leaves the page for good, and opens it again.                  *)
LeavePage ==
  /\ form' = Closed(F)
  /\ save' = Orphaned
  /\ offer' = Blank
  /\ lookups' = {}
  /\ UNCHANGED <<page, row>>

(* A trip for a new customer or product takes the draft along: its saves   *)
(* go on, but the page it comes back to is mounted anew.  A trip for a new *)
(* product takes the item along, one for a new customer leaves it.         *)
NotKnown == [s \in Slots |-> [save[s] EXCEPT !.here = FALSE]]
UnderWay(s) == save[s].own /\ save[s].id = New /\ save[s].at \in {"sent", "done"}
LeaveForTrip ==
  /\ form.shown
  /\ F.trips # {}
  /\ \E item \in {None, form.item} :
       form' = [form EXCEPT !.shown = FALSE, !.away = TRUE, !.item = item,
                            !.carried = @ \/ \E s \in Slots : UnderWay(s)]
  /\ save' = NotKnown
  /\ offer' = Blank
  /\ lookups' = {}
  /\ UNCHANGED <<page, row>>

ComeBack ==
  /\ form.away
  /\ \E new \in {{}} \cup {{x} : x \in F.trips} :
       form' = [form EXCEPT !.shown = TRUE, !.away = FALSE,
                            !.val = [x \in FieldsOf(F) |-> IF x \in new THEN "a" ELSE @[x]]]
  /\ UNCHANGED <<page, offer, lookups, save, row>>

-----------------------------------------------------------------------------
(* Filling in.                                                             *)
Present(x) == x \notin F.newOnly \/ form.id = New
OfferedFor(x) ==
  LET p == form.val[Parent(F, x)]
  IN  CASE F.source = "local"    -> {p} \ {Blank}
        [] F.source = "hidden"   -> ({offer} \cap {p}) \ {Blank}
        [] F.source \in {"previous", "last"} -> IF p = Blank THEN {} ELSE {offer} \ {Blank}
        [] F.source = "filled"   -> {}
Choices(x) == IF x \in Children(F) THEN OfferedFor(x) \cup {Blank} ELSE ValuesOf(F, x)

(* Mutant of Refilled: what depended on the field stays.                   *)
RefilledAlone(x, v) == [form.val EXCEPT ![x] = v]

(* The other fields as they are; those that depend on this one are empty,  *)
(* unless an answer is to fill them.  With another key it is another record*)
(* that is being entered.                                                  *)
Refilled(x, v) ==
  [y \in FieldsOf(F) |-> IF y = x THEN v
                         ELSE IF <<y, x>> \in F.of /\ F.source # "filled" THEN Blank
                         ELSE form.val[y]]

Fill(x) ==
  /\ form.shown
  /\ Present(x)
  /\ \E v \in Choices(x) \ {form.val[x]} :
       /\ form' = [form EXCEPT !.val = Refilled(x, v), !.booked = IF x \in F.key THEN 0 ELSE @]
       /\ save' = IF x \in F.key THEN Disowned ELSE save
       /\ lookups' = IF F.source \in {"filled", "last"} /\ x \in Parents(F)
                     THEN lookups \cup ({v} \ {Blank}) ELSE lookups
  /\ UNCHANGED <<page, offer, row>>

(* An item is entered for the form that is open, or one of its lines is    *)
(* taken up.  Its button adds it to the lines of the form that is open     *)
(* then; a line that was taken up is put back, or nowhere if it is gone.   *)
EnterItem ==
  /\ form.shown
  /\ F.items # {}
  /\ form.item = None
  /\ form' = [form EXCEPT !.item = form.id]
  /\ UNCHANGED <<page, offer, lookups, save, row>>

ItemSource == IF form.item = form.id THEN {} ELSE {"another"}
AddItem ==
  /\ form.shown
  /\ form.item # None
  /\ \/ form' = [form EXCEPT !.item = None, !.src = @ \cup ItemSource,
                     !.val = [x \in FieldsOf(F) |-> IF x \in F.items THEN "a" ELSE @[x]]]
     \/ form' = [form EXCEPT !.item = None]
  /\ UNCHANGED <<page, offer, lookups, save, row>>

(* The choices for what the parent field holds now arrive.                 *)
ChoicesArrive ==
  /\ form.shown
  /\ F.source \in {"hidden", "previous"}
  /\ \E p \in Parents(F) : form.val[p] \notin {Blank, offer} /\ offer' = form.val[p]
  /\ UNCHANGED <<page, form, lookups, save, row>>

(* A call the form awaits is answered, whatever has been chosen since.     *)
LookupAnswered(v) ==
  /\ v \in lookups
  /\ lookups' = lookups \ {v}
  /\ \/ v \in Rows /\ Show(v, {v}, Copied(F)) /\ UNCHANGED offer
     \/ v \in Values /\ F.source = "last" /\ offer' = v /\ UNCHANGED <<form, save>>
     \/ /\ v \in Values /\ F.source = "filled"
        /\ form' = [form EXCEPT !.val =
                      [x \in FieldsOf(F) |-> IF x \in Children(F) THEN v ELSE @[x]]]
        /\ UNCHANGED <<offer, save>>
  /\ UNCHANGED <<page, row>>

-----------------------------------------------------------------------------
(* Saving.  The call carries the form as it is now.                        *)
Filled(x) == form.val[x] # Blank
Ready ==
  /\ \A x \in F.needs : Filled(x)
  /\ \A w \in F.with : Present(w[2]) /\ Filled(w[1]) => Filled(w[2])
  /\ \A d \in F.differ : form.val[d[1]] # form.val[d[2]]
Fits == \A d \in F.of : form.val[d[1]] \in {Blank, form.val[d[2]]}

(* Mutant of Enabled: the button is never disabled.                        *)
AlwaysEnabled == TRUE

(* Save is disabled while the mutation hooks of the page report a call;    *)
(* they do not know those of a page that was left.                         *)
SameKind(s) == (save[s].id = New) <=> (form.id = New)
Enabled ==
  \A s \in Slots : \/ save[s].at = "idle" \/ ~ save[s].here \/ F.busy = "never"
                   \/ F.busy = "own" /\ ~ SameKind(s)

Save(s) ==
  /\ form.shown
  /\ Ready
  /\ Enabled
  /\ save[s] = Idle
  /\ save' = [save EXCEPT ![s] = [at |-> "sent", id |-> form.id, src |-> form.src,
                                  fits |-> Fits, own |-> TRUE, here |-> TRUE]]
  /\ UNCHANGED <<page, form, offer, lookups, row>>

(* The server refuses a second record with the key, and choices that do    *)
(* not fit where it looks at them; anything else it may refuse, or not.    *)
Clashes(s) == save[s].id = New /\ F.key # {} /\ save[s].own /\ form.booked > 0
Refuse(s) ==
  /\ save[s].at = "sent"
  /\ save' = [save EXCEPT ![s].at = "refused"]
  /\ UNCHANGED <<page, form, offer, lookups, row>>

Apply(s) ==
  /\ save[s].at = "sent"
  /\ ~ Clashes(s)
  /\ save[s].fits \/ ~ F.checked
  /\ save' = [save EXCEPT ![s].at = "done"]
  /\ \/ /\ save[s].id = New
        /\ form' = [form EXCEPT !.booked = IF save[s].own /\ @ < 2 THEN @ + 1 ELSE @]
        /\ UNCHANGED row
     \/ /\ save[s].id # New
        /\ row' = [row EXCEPT ![save[s].id] = save[s].src]
        /\ UNCHANGED form
  /\ UNCHANGED <<page, offer, lookups>>

(* An answer that it is saved closes or empties the form that is open now, *)
(* whichever that is.  If the page that asked was left it does nothing, but*)
(* for the pages that go on to another page: they do so from wherever the  *)
(* user is.                                                                *)
AfterSave ==
  CASE F.after = "rests" -> form
    [] OTHER ->
         [Closed(F) EXCEPT !.shown = F.after = "stays",
            !.id = IF F.edit = "panel" THEN form.id ELSE New,
            !.val = [x \in FieldsOf(F) |-> IF x \in F.kept THEN form.val[x] ELSE Blank]]
Saved(s) ==
  /\ save[s].at = "done"
  /\ \/ /\ save[s].here \/ F.after = "leaves"
        /\ form' = AfterSave
        /\ save' = [Disowned EXCEPT ![s] = Idle]
     \/ /\ ~ save[s].here /\ F.after # "leaves"
        /\ save' = [save EXCEPT ![s] = Idle]
        /\ UNCHANGED form
  /\ UNCHANGED <<page, offer, lookups, row>>

(* After a refusal, or an answer that is lost, the form stays as it is.    *)
(* What the user is told then is not modelled: most pages say why, the     *)
(* pages of the roles and the company catch nothing and say nothing.       *)
Failed(s) ==
  /\ \/ save[s].at = "refused" /\ UNCHANGED form
     \/ /\ save[s].at \in {"sent", "done"}
        /\ form' = [form EXCEPT !.lost = @ \/ save[s].own]
  /\ save' = [save EXCEPT ![s] = Idle]
  /\ UNCHANGED <<page, offer, lookups, row>>

-----------------------------------------------------------------------------
Init ==
  /\ page \in Mounted
  /\ form = Closed(F)
  /\ offer = Blank
  /\ lookups = {}
  /\ save = [s \in Slots |-> Idle]
  /\ row = [r \in Rows |-> {r}]

Next ==
  \/ OpenNew \/ Cancel \/ PanelFollows \/ ChoicesArrive
  \/ LeavePage \/ LeaveForTrip \/ ComeBack \/ EnterItem \/ AddItem
  \/ \E r \in Rows : OpenEdit(r) \/ Select(r)
  \/ \E x \in FieldsOf(F) : Fill(x)
  \/ \E v \in Values \cup Rows : LookupAnswered(v)
  \/ \E s \in Slots : Save(s) \/ Refuse(s) \/ Apply(s) \/ Saved(s) \/ Failed(s)

Spec == Init /\ [][Next]_vars
-----------------------------------------------------------------------------
(* However often Save is pressed and whatever is closed and opened in      *)
(* between, one draft books one record.  There are two exceptions: a draft *)
(* whose save was not heard of, because its answer was lost or because the *)
(* draft was taken along on a trip meanwhile, can be booked again.  Where  *)
(* the record has a key the user typed, not even then.                     *)
DraftBookedOnce == form.booked <= 1 \/ (F.key = {} /\ (form.lost \/ form.carried))

(* What is saved over a record is a copy of that record, edited: a form    *)
(* opened for one row never ends up in another.  A panel, which follows the*)
(* selection late, is the exception; and where items are entered apart from*)
(* the form, an item begun in one document can be added to the other one   *)
(* that was opened over it, beside what that one had.                      *)
EditsStayOnTheirRow ==
  F.edit = "panel" \/ \A r \in Rows : r \in row[r] /\ (row[r] = {r} \/ F.items # {})

(* A choice that depends on another field belongs to what that field held  *)
(* when the form was sent.  Where choices or answers for an earlier value  *)
(* are still on show the user may send them, and unless the server looks   *)
(* they are booked.                                                        *)
LateFill == F.source \in {"previous", "filled"}
DependentsFit == \A s \in Slots : save[s].at = "done" => LateFill \/ save[s].fits
=============================================================================
