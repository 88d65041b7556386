-------------------------- MODULE PageFormsProofs ---------------------------
(***************************************************************************)
(* What holds of every page with a form, whatever its user does and however*)
(* late answers come: form, choices and saves are typed, one draft books   *)
(* one record, what is saved over a record is a copy of it, and choices    *)
(* that are booked fit each other.                                         *)
(*                                                                         *)
(* The argument.  A form that is opened, closed or emptied disowns the     *)
(* saves under way, so what they answer no longer concerns it (ResetKeeps);*)
(* one that is edited stays a copy of the record it shows (EditKeeps).  Of *)
(* a draft one save at most is under way or booked, and the page knows of  *)
(* it (OneDraft), so that Save is disabled meanwhile; a draft taken on a   *)
(* trip while its save is under way is no longer held to that; or else the *)
(* record has a key that the server refuses twice.  And what can be chosen *)
(* fits what it was offered for (FitInv) unless the page keeps earlier     *)
(* choices on show.  FormsWellMade is what is used of the pages' data.     *)
(***************************************************************************)
EXTENDS PageForms, TLAPS

(* The parts of the type invariant, for a form f of the page.              *)
FormType(f) ==
  [shown : BOOLEAN, away : BOOLEAN, id : Ids, src : SUBSET Sources,
   val : [FieldsOf(f) -> Values \cup {Blank}], item : Ids \cup {None},
   booked : 0..2, lost : BOOLEAN, carried : BOOLEAN]
FormTyped(f, x) ==
  /\ x \in FormType(f)
  /\ x.shown => ~ x.away
  /\ \A y \in FieldsOf(f) : x.val[y] \in ValuesOf(f, y)
  /\ \A y \in f.newOnly : x.id = New \/ x.val[y] = Blank
SaveType ==
  [at : {"idle", "sent", "done", "refused"}, id : Ids, src : SUBSET Sources,
   fits : BOOLEAN, own : BOOLEAN, here : BOOLEAN]

(* A panel shows the record of the row selected, or of the one selected    *)
(* before; no other form shows rows among the choices, and lookups of rows *)
(* are made by forms that fetch the record first.                          *)
OfferInv ==
  /\ offer \in Values \cup Rows \cup {Blank}
  /\ lookups \subseteq Values \cup Rows
  /\ offer \in Rows => F.edit = "panel" /\ form.id # New

Typed ==
  /\ page \in Mounted
  /\ FormTyped(F, form)
  /\ OfferInv
  /\ save \in [Slots -> SaveType]
  /\ row \in [Rows -> SUBSET Sources]

(* What is typed over a row, sent over it and stored in it was copied from *)
(* it, except in a panel; where there are items, some may be added to it.  *)
OwnSource(id, src) == id # New => id \in src /\ (F.items # {} \/ src = {id})
OwnForm(x) == OwnSource(x.id, x.src) /\ (F.items = {} => x.item = None)
OwnRow == /\ OwnForm(form)
          /\ \A s \in Slots : OwnSource(save[s].id, save[s].src)
          /\ \A r \in Rows : OwnSource(r, row[r])
RowInv == F.edit = "panel" \/ OwnRow

(* What depends on another field fits it, in the form and when sent.       *)
FitInv ==
  LateFill \/
  /\ F.checked \/ Fits
  /\ \A s \in Slots : save[s].at = "sent" => F.checked \/ save[s].fits
  /\ \A s \in Slots : save[s].at = "done" => save[s].fits

(* The saves of this draft that are to make a record: there is one at most,*)
(* of which the page knows, and one record at most, made by it.            *)
Drafts == {s \in Slots : UnderWay(s)}
Open(x) == x.shown \/ x.away
NothingNew ==
  /\ Open(form) => form.id # New
  /\ \A s \in Slots : save[s].at # "idle" => save[s].id # New
  /\ form.booked = 0
OneDraft ==
  \/ form.carried
  \/ /\ \A s \in Drafts : save[s].here
     /\ \A s, t \in Drafts : s = t
     /\ \/ form.lost
        \/ form.booked = 0
        \/ form.booked = 1 /\ \E s \in Drafts : save[s].at = "done"
BookInv ==
  /\ F.create = "none" => NothingNew
  /\ F.create # "none" /\ F.key = {} => OneDraft
  /\ F.key # {} => form.booked <= 1

IInv == Typed /\ RowInv /\ FitInv /\ BookInv

-----------------------------------------------------------------------------
LEMMA FormWellMade == ASSUME Typed PROVE WellMade(F)
BY FormsWellMade DEF Typed, F

LEMMA TypedIsTypeOK == Typed => TypeOK
<1> SUFFICES ASSUME Typed PROVE TypeOK
  OBVIOUS
<1>1. form \in [shown : BOOLEAN, away : BOOLEAN, id : Ids, src : SUBSET Sources,
               val : [FieldsOf(F) -> Values \cup {Blank}], item : Ids \cup {None},
               booked : 0..2, lost : BOOLEAN, carried : BOOLEAN]
  BY DEF Typed, FormTyped, FormType
<1>2. /\ \A x \in FieldsOf(F) : form.val[x] \in ValuesOf(F, x)
      /\ \A x \in F.newOnly : form.id = New \/ form.val[x] = Blank
  BY DEF Typed, FormTyped
<1>3. save \in [Slots -> [at : {"idle", "sent", "done", "refused"}, id : Ids, src : SUBSET Sources,
                         fits : BOOLEAN, own : BOOLEAN, here : BOOLEAN]]
  BY DEF Typed, SaveType
<1> QED BY <1>1, <1>2, <1>3 DEF Typed, OfferInv, TypeOK

(* The contents a form can be given at once are typed.                     *)
LEMMA BlankTyped ==
  ASSUME NEW f, NEW x \in [FieldsOf(f) -> {"a", Blank}]
  PROVE  /\ x \in [FieldsOf(f) -> Values \cup {Blank}]
         /\ \A y \in FieldsOf(f) : x[y] \in ValuesOf(f, y)
BY DEF Values, ValuesOf

LEMMA ClosedTyped ==
  ASSUME NEW f
  PROVE  /\ Closed(f) \in FormType(f)
         /\ Closed(f).shown = FALSE /\ Closed(f).away = FALSE /\ Closed(f).id = New
         /\ Closed(f).src = {New} /\ Closed(f).val = Empty(f) /\ Closed(f).item = None
         /\ Closed(f).booked = 0 /\ Closed(f).lost = FALSE
         /\ Empty(f) \in [FieldsOf(f) -> {"a", Blank}]
<1>1. Empty(f) \in [FieldsOf(f) -> {"a", Blank}]
  BY DEF Empty
<1> QED BY <1>1, BlankTyped DEF Closed, FormType, Ids, Sources

IsOpened(x, id, src, val) ==
  /\ FormTyped(F, x)
  /\ x.shown = TRUE /\ x.away = FALSE /\ x.id = id /\ x.src = src /\ x.val = val
  /\ x.item = form.item /\ x.booked = 0

LEMMA OpenedTyped ==
  ASSUME NEW id \in Ids, NEW src \in SUBSET Sources, NEW val \in [FieldsOf(F) -> {"a", Blank}],
         \A y \in F.newOnly : id = New \/ val[y] = Blank, form.item \in Ids \cup {None}
  PROVE  IsOpened(Opened(id, src, val), id, src, val)
<1> DEFINE c == Closed(F)
           x == Opened(id, src, val)
           item == form.item
<1>1. c \in FormType(F) /\ c.away = FALSE /\ c.booked = 0
  BY ClosedTyped
<1>2. x = [c EXCEPT !.shown = TRUE, !.id = id, !.src = src, !.val = val, !.item = item]
  BY DEF Opened
<1> HIDE DEF c, x, item
<1>3. /\ x \in FormType(F) /\ x.shown = TRUE /\ x.id = id /\ x.src = src /\ x.val = val
      /\ x.away = FALSE /\ x.item = item /\ x.booked = 0
  BY <1>1, <1>2, BlankTyped DEF FormType, item
<1>4. FormTyped(F, x)
  BY <1>3, BlankTyped DEF FormTyped
<1> QED BY <1>3, <1>4 DEF x, item, IsOpened

LEMMA PageStays == ASSUME page' = page PROVE F' = F
BY DEF F

-----------------------------------------------------------------------------
(* What stands in a form fits: each choice is empty or made for what the   *)
(* field it depends on holds.                                              *)
FitsIn(f, val) == \A d \in f.of : val[d[1]] \in {Blank, val[d[2]]}

LEMMA BlankFits ==
  ASSUME Typed
  PROVE  /\ FitsIn(F, Empty(F)) /\ Copied(F) \in [FieldsOf(F) -> {"a", Blank}]
         /\ FitsIn(F, Copied(F)) /\ \A y \in F.newOnly : Copied(F)[y] = Blank
<1>1. /\ \A d \in F.of : d[1] \in FieldsOf(F) /\ d[2] \in FieldsOf(F)
      /\ \A d \in F.of : d[2] \in F.newOnly => d[1] \in F.newOnly
  BY FormWellMade DEF WellMade
<1>2. F.newOnly \subseteq FieldsOf(F)
  BY DEF FieldsOf
<1> QED BY <1>1, <1>2 DEF FitsIn, Empty, Copied

(* The saves once the form is opened anew or closed: none is its own.      *)
SameSave(x, y) == x.at = y.at /\ x.id = y.id /\ x.src = y.src /\ x.fits = y.fits
SavesForgotten ==
  /\ save' \in [Slots -> SaveType]
  /\ \A s \in Slots : \/ save'[s] = Idle
                      \/ SameSave(save'[s], save[s]) /\ ~ save'[s].own

LEMMA IdleTyped == Idle \in SaveType /\ Idle.at = "idle" /\ Idle.id = New
BY DEF Idle, SaveType, Ids, Sources

LEMMA DisownedForgets ==
  ASSUME Typed
  PROVE  /\ Disowned \in [Slots -> SaveType]
         /\ \A s \in Slots : \/ Disowned[s] = Idle
                             \/ SameSave(Disowned[s], save[s]) /\ ~ Disowned[s].own
<1>1. ASSUME NEW s \in Slots
      PROVE  /\ Disowned[s] \in SaveType
             /\ \/ Disowned[s] = Idle
                \/ SameSave(Disowned[s], save[s]) /\ ~ Disowned[s].own
  <2>1. save[s] \in SaveType
    BY DEF Typed
  <2>2. Disowned[s] = IF save[s].at = "idle" THEN Idle
                    ELSE [save[s] EXCEPT !.own = FALSE, !.here = @ /\ F.after # "leaves"]
    BY DEF Disowned
  <2> DEFINE x == save[s]
             h == x.here /\ F.after # "leaves"
             y == [x EXCEPT !.own = FALSE, !.here = h]
  <2>3. y \in SaveType /\ SameSave(y, x) /\ ~ y.own
    <3>0. h \in BOOLEAN
      OBVIOUS
    <3> HIDE DEF x, h
    <3>1. x \in SaveType
      BY <2>1 DEF x
    <3> QED BY <3>0, <3>1 DEF SaveType, SameSave
  <2> QED BY <2>2, <2>3, IdleTyped
<1> QED BY <1>1 DEF Disowned

-----------------------------------------------------------------------------
(* A form that is opened, emptied or closed starts afresh.                 *)
LEMMA ResetKeeps ==
  ASSUME IInv, UNCHANGED <<page, row>>, SavesForgotten,
         FormTyped(F, form'), OfferInv', form'.booked = 0,
         F.edit # "panel" => OwnForm(form'),
         F.create = "none" /\ Open(form') => form'.id # New,
         LateFill \/ F.checked \/ FitsIn(F, form'.val)
  PROVE  IInv'
<1>0. F' = F
  BY PageStays
<1>1. Typed'
  BY <1>0 DEF IInv, Typed, SavesForgotten
<1>2. \A s \in Slots : \/ save'[s].at = "idle" /\ save'[s].id = New
                       \/ SameSave(save'[s], save[s]) /\ ~ save'[s].own
  BY IdleTyped DEF SavesForgotten
<1>3. RowInv'
  BY <1>0, <1>2 DEF IInv, RowInv, OwnRow, OwnForm, OwnSource, SameSave
<1>4. FitInv'
  BY <1>0, <1>2 DEF IInv, FitInv, LateFill, Fits, FitsIn, SameSave
<1>5. BookInv'
  <2>1. Drafts' = {}
    BY <1>2 DEF Drafts, UnderWay
  <2>2. OneDraft'
    BY <2>1 DEF OneDraft
  <2>3. F.create = "none" => NothingNew'
    BY <1>2 DEF IInv, BookInv, NothingNew, SameSave
  <2> QED BY <1>0, <2>2, <2>3 DEF BookInv
<1> QED BY <1>1, <1>3, <1>4, <1>5 DEF IInv

(* The user goes on in the same form, or hides it.                         *)
LEMMA EditKeeps ==
  ASSUME IInv, UNCHANGED <<page, row, save>>,
         FormTyped(F, form'), OfferInv',
         form'.booked = form.booked \/ (F.key # {} /\ form'.booked = 0),
         form'.lost = form.lost, form'.carried = form.carried,
         F.edit # "panel" => OwnForm(form'),
         F.create = "none" /\ Open(form') => form'.id # New,
         LateFill \/ F.checked \/ FitsIn(F, form'.val)
  PROVE  IInv'
<1>0. F' = F
  BY PageStays
<1>1. Typed'
  BY <1>0 DEF IInv, Typed
<1>2. RowInv'
  BY <1>0 DEF IInv, RowInv, OwnRow, OwnForm, OwnSource
<1>3. FitInv'
  BY <1>0 DEF IInv, FitInv, LateFill, Fits, FitsIn
<1>4. BookInv'
  BY <1>0 DEF IInv, BookInv, NothingNew, OneDraft, Drafts, UnderWay
<1> QED BY <1>1, <1>2, <1>3, <1>4 DEF IInv
(* A panel has no drafts, no dependent fields and no row of its own.       *)
LEMMA PanelKeeps ==
  ASSUME IInv, F.edit = "panel", UNCHANGED <<page, row, save>>,
         FormTyped(F, form'), OfferInv', form'.booked = 0,
         Open(form') => form'.id # New
  PROVE  IInv'
<1>0. F' = F /\ F.create = "none" /\ F.of = {}
  BY PageStays, FormWellMade DEF IInv, WellMade
<1>1. Typed'
  BY <1>0 DEF IInv, Typed
<1>2. RowInv' /\ FitInv'
  BY <1>0 DEF IInv, RowInv, FitInv, LateFill, Fits
<1>3. BookInv'
  <2>1. NothingNew'
    BY <1>0 DEF IInv, BookInv, NothingNew
  <2> QED BY <1>0, <2>1 DEF BookInv
<1> QED BY <1>1, <1>2, <1>3 DEF IInv

-----------------------------------------------------------------------------
(* A save that is refused, or whose answer is lost.                        *)
LEMMA EndKeeps ==
  ASSUME IInv, UNCHANGED <<page, row, offer, lookups>>, NEW s \in Slots,
         NEW x \in SaveType, x = Idle \/ (x.at = "refused" /\ x.id = save[s].id /\ x.src = save[s].src),
         save' = [save EXCEPT ![s] = x], save[s].at # "idle",
         FormTyped(F, form'), form'.id = form.id, form'.src = form.src, form'.val = form.val,
         form'.item = form.item, form'.shown = form.shown, form'.away = form.away,
         form'.booked = form.booked, form.lost => form'.lost, form'.carried = form.carried,
         F.key = {} /\ F.create # "none" /\ s \in Drafts /\ save[s].at = "done"
           => form'.lost \/ form'.carried
  PROVE  IInv'
<1>0. F' = F
  BY PageStays
<1>1. /\ save \in [Slots -> SaveType] /\ save'[s] = x
      /\ \A t \in Slots : t # s => save'[t] = save[t]
      /\ x.at \in {"idle", "refused"} /\ (x.id # New => x.id = save[s].id /\ x.src = save[s].src)
  BY IdleTyped DEF IInv, Typed
<1>2. Typed'
  BY <1>0, <1>1 DEF IInv, Typed, OfferInv
<1>3. RowInv'
  BY <1>0, <1>1 DEF IInv, RowInv, OwnRow, OwnForm, OwnSource
<1>4. FitInv'
  BY <1>0, <1>1 DEF IInv, FitInv, LateFill, Fits
<1>5. BookInv'
  <2>1. /\ Drafts' = Drafts \ {s}
        /\ \A t \in Drafts' : save'[t].at = save[t].at /\ save'[t].here = save[t].here
    BY <1>1 DEF Drafts, UnderWay
  <2>2. F.create = "none" => NothingNew'
    BY <1>1, IdleTyped DEF IInv, BookInv, NothingNew, Open
  <2>3. ASSUME OneDraft, F.key = {}, F.create # "none"
        PROVE  OneDraft'
    <3> SUFFICES ASSUME ~ form.carried PROVE OneDraft'
      BY DEF OneDraft
    <3>1. \A t, u \in Drafts' : t = u
      BY <2>1, <2>3 DEF OneDraft
    <3>2. \A t \in Drafts' : save'[t].here
      BY <2>1, <2>3 DEF OneDraft
    <3>3. CASE form.lost \/ form.booked = 0
      BY <3>1, <3>2, <3>3 DEF OneDraft
    <3>4. CASE form.booked = 1 /\ \E t \in Drafts : save[t].at = "done"
      <4>1. PICK t \in Drafts : save[t].at = "done"
        BY <3>4
      <4>2. CASE t = s
        BY <2>3, <3>1, <3>2, <4>1, <4>2 DEF OneDraft
      <4>3. CASE t # s
        BY <2>1, <3>1, <3>2, <3>4, <4>1, <4>3 DEF OneDraft
      <4> QED BY <4>2, <4>3
    <3> QED BY <2>3, <3>3, <3>4 DEF OneDraft
  <2> QED BY <1>0, <2>2, <2>3 DEF IInv, BookInv
<1> QED BY <1>2, <1>3, <1>4, <1>5 DEF IInv

LEMMA RefuseKeeps ==
  ASSUME IInv, NEW s \in Slots, Refuse(s)
  PROVE  IInv'
<1> DEFINE x == [save[s] EXCEPT !.at = "refused"]
<1>1. save \in [Slots -> SaveType] /\ save[s] \in SaveType
  BY DEF IInv, Typed
<1>2. save' = [save EXCEPT ![s] = x]
  BY <1>1 DEF Refuse
<1>3. x \in SaveType /\ x.at = "refused" /\ x.id = save[s].id /\ x.src = save[s].src
  BY <1>1 DEF SaveType
<1> HIDE DEF x
<1>4. /\ UNCHANGED <<page, row, offer, lookups, form>> /\ save[s].at = "sent"
      /\ FormTyped(F, form)
  BY DEF Refuse, IInv, Typed
<1> QED BY <1>2, <1>3, <1>4, EndKeeps

LEMMA FailedKeeps ==
  ASSUME IInv, NEW s \in Slots, Failed(s)
  PROVE  IInv'
<1>1. /\ UNCHANGED <<page, row, offer, lookups>> /\ save[s].at # "idle"
      /\ save' = [save EXCEPT ![s] = Idle] /\ Idle \in SaveType
  BY IdleTyped DEF Failed
<1>2. FormTyped(F, form) /\ save[s] \in SaveType
  BY DEF IInv, Typed
<1>3. CASE save[s].at = "refused" /\ form' = form
  BY <1>1, <1>2, <1>3, EndKeeps
<1>4. CASE save[s].at \in {"sent", "done"} /\ form' = [form EXCEPT !.lost = @ \/ save[s].own]
  <2> DEFINE l == form.lost \/ save[s].own
  <2>1. l \in BOOLEAN /\ (form.lost => l) /\ (save[s].own => l)
    OBVIOUS
  <2>2. form' = [form EXCEPT !.lost = l]
    BY <1>4
  <2> HIDE DEF l
  <2>3. /\ FormTyped(F, form') /\ form'.id = form.id /\ form'.src = form.src
        /\ form'.val = form.val /\ form'.shown = form.shown /\ form'.booked = form.booked
        /\ form'.lost = l /\ form'.item = form.item /\ form'.away = form.away
        /\ form'.carried = form.carried
    BY <1>2, <2>1, <2>2 DEF FormTyped, FormType
  <2>4. (form.lost => form'.lost) /\ (s \in Drafts => form'.lost)
    BY <2>1, <2>3 DEF Drafts, UnderWay, l
  <2> QED BY <1>1, <2>3, <2>4, EndKeeps
<1> QED BY <1>3, <1>4 DEF Failed

(* Save: the form fits if its choices do, and no draft is under way.       *)
LEMMA SaveKeeps ==
  ASSUME IInv, NEW s \in Slots, Save(s)
  PROVE  IInv'
<1> DEFINE x == [at |-> "sent", id |-> form.id, src |-> form.src, fits |-> Fits, own |-> TRUE,
                 here |-> TRUE]
<1>0. F' = F /\ UNCHANGED <<page, form, offer, lookups, row>> /\ form.shown
  BY PageStays DEF Save
<1>1. save \in [Slots -> SaveType] /\ form.id \in Ids /\ form.src \in SUBSET Sources
  BY DEF IInv, Typed, FormTyped, FormType
<1>2. save[s].at = "idle" /\ save' = [save EXCEPT ![s] = x]
  BY IdleTyped DEF Save
<1>3. Fits \in BOOLEAN
  BY DEF Fits
<1>4. /\ x \in SaveType /\ x.at = "sent" /\ x.id = form.id /\ x.src = form.src
      /\ x.fits = Fits /\ x.own = TRUE /\ x.here = TRUE
  <2> HIDE DEF Fits
  <2> QED BY <1>1, <1>3 DEF SaveType
<1> HIDE DEF x
<1>5. /\ save' \in [Slots -> SaveType] /\ save'[s] = x
      /\ \A t \in Slots : t # s => save'[t] = save[t]
  BY <1>1, <1>2, <1>4
<1>6. Typed'
  BY <1>0, <1>5 DEF IInv, Typed, OfferInv
<1>7. RowInv'
  BY <1>0, <1>4, <1>5 DEF IInv, RowInv, OwnRow, OwnForm, OwnSource
<1>8. FitInv'
  <2>1. Fits' = Fits
    BY <1>0 DEF Fits
  <2>2. LateFill' = LateFill
    BY <1>0 DEF LateFill
  <2> QED BY <1>0, <1>4, <1>5, <2>1, <2>2 DEF IInv, FitInv
<1>9. BookInv'
  <2>1. F.create = "none" => NothingNew'
    BY <1>0, <1>4, <1>5 DEF IInv, BookInv, NothingNew, Open
  <2>2. ASSUME F.create # "none", F.key = {}
        PROVE  OneDraft'
    <3>1. F.busy # "never"
      BY <2>2, FormWellMade DEF IInv, WellMade
    <3> SUFFICES ASSUME ~ form.carried PROVE OneDraft'
      BY <1>0 DEF OneDraft
    <3>2. OneDraft /\ \A t \in Drafts : save[t].here
      BY <2>2 DEF IInv, BookInv, OneDraft
    <3>3. form.id = New => Drafts = {}
      BY <3>1, <3>2 DEF Save, Enabled, SameKind, Drafts, UnderWay
    <3>4. /\ Drafts' = IF form.id = New THEN Drafts \cup {s} ELSE Drafts
          /\ s \notin Drafts
          /\ \A t \in Drafts : save'[t].at = save[t].at /\ save'[t].here = save[t].here
      BY <1>2, <1>4, <1>5 DEF Drafts, UnderWay
    <3>5. \A t, u \in Drafts' : t = u
      BY <3>2, <3>3, <3>4 DEF OneDraft
    <3>6. Drafts \subseteq Drafts' /\ \A t \in Drafts' : save'[t].here
      BY <1>4, <1>5, <3>2, <3>4
    <3> QED BY <1>0, <3>2, <3>4, <3>5, <3>6 DEF OneDraft
  <2> QED BY <1>0, <2>1, <2>2 DEF IInv, BookInv
<1> QED BY <1>6, <1>7, <1>8, <1>9 DEF IInv

(* The server applies a save: the one draft there is makes the one record. *)
LEMMA ApplyKeeps ==
  ASSUME IInv, NEW s \in Slots, Apply(s)
  PROVE  IInv'
<1> DEFINE x == [save[s] EXCEPT !.at = "done"]
           n == IF save[s].own /\ form.booked < 2 THEN form.booked + 1 ELSE form.booked
<1>0. F' = F /\ UNCHANGED <<page, offer, lookups>> /\ save[s].at = "sent"
  BY PageStays DEF Apply
<1>1. /\ save \in [Slots -> SaveType] /\ save[s] \in SaveType
      /\ FormTyped(F, form) /\ form.booked \in 0..2 /\ row \in [Rows -> SUBSET Sources]
  BY DEF IInv, Typed, FormTyped, FormType
<1>2. save' = [save EXCEPT ![s] = x]
  BY DEF Apply
<1>3. /\ x \in SaveType /\ x.at = "done" /\ x.id = save[s].id /\ x.src = save[s].src
      /\ x.fits = save[s].fits /\ x.own = save[s].own
      /\ x.here = save[s].here
  BY <1>1 DEF SaveType
<1> HIDE DEF x
<1>4. /\ save' \in [Slots -> SaveType] /\ save'[s] = x
      /\ \A t \in Slots : t # s => save'[t] = save[t]
  BY <1>1, <1>2, <1>3
<1>5. /\ FormTyped(F, form') /\ form'.id = form.id /\ form'.src = form.src
      /\ form'.val = form.val /\ form'.shown = form.shown /\ form'.lost = form.lost
      /\ form'.booked = (IF save[s].id = New THEN n ELSE form.booked)
      /\ form'.item = form.item /\ form'.away = form.away /\ form'.carried = form.carried
  <2>1. n \in 0..2
    BY <1>1
  <2>2. CASE save[s].id = New
    <3>1. form' = [form EXCEPT !.booked = n]
      BY <2>2 DEF Apply
    <3> HIDE DEF n
    <3> QED BY <1>1, <2>1, <2>2, <3>1 DEF FormTyped, FormType
  <2>3. CASE save[s].id # New
    BY <1>1, <2>3 DEF Apply
  <2> QED BY <2>2, <2>3
<1>6. /\ row' \in [Rows -> SUBSET Sources]
      /\ F.edit # "panel" => \A r \in Rows : OwnSource(r, row'[r])
  <2>1. CASE save[s].id = New
    BY <1>1, <2>1 DEF Apply, IInv, RowInv, OwnRow
  <2>2. CASE save[s].id # New
    <3>1. row' = [row EXCEPT ![save[s].id] = save[s].src] /\ save[s].id \in Rows
      BY <1>1, <2>2 DEF Apply, SaveType, Ids
    <3>2. save[s].src \in SUBSET Sources
      BY <1>1 DEF SaveType
    <3>3. F.edit # "panel" => /\ OwnSource(save[s].id, save[s].src)
                              /\ \A r \in Rows : OwnSource(r, row[r])
      BY DEF IInv, RowInv, OwnRow
    <3> QED BY <1>1, <3>1, <3>2, <3>3
  <2> QED BY <2>1, <2>2
<1>7. Typed'
  BY <1>0, <1>4, <1>5, <1>6 DEF IInv, Typed, OfferInv
<1>8. RowInv'
  BY <1>0, <1>3, <1>4, <1>5, <1>6 DEF IInv, RowInv, OwnRow, OwnForm, OwnSource
<1>9. FitInv'
  <2>1. LateFill \/ save[s].fits
    BY <1>0 DEF Apply, IInv, FitInv
  <2>2. (Fits' <=> Fits) /\ (LateFill' <=> LateFill)
    BY <1>0, <1>5 DEF Fits, LateFill
  <2> QED BY <1>0, <1>3, <1>4, <2>1, <2>2 DEF IInv, FitInv
<1>10. BookInv'
  <2>0. Drafts' = Drafts /\ \A t \in Drafts : save'[t].here = save[t].here
    BY <1>0, <1>3, <1>4 DEF Drafts, UnderWay
  <2>1. F.create = "none" => NothingNew'
    BY <1>0, <1>3, <1>4, <1>5 DEF IInv, BookInv, NothingNew, Open
  <2>2. ASSUME OneDraft PROVE OneDraft'
    <3> SUFFICES ASSUME ~ form.carried PROVE OneDraft'
      BY <1>5 DEF OneDraft
    <3>1. (\A t, u \in Drafts' : t = u) /\ \A t \in Drafts' : save'[t].here
      BY <2>0, <2>2 DEF OneDraft
    <3>2. CASE s \in Drafts
      <4>1. form.lost \/ form.booked = 0
        BY <1>0, <2>2, <3>2 DEF OneDraft
      <4>2. form.booked = 0 => form'.booked = 1
        BY <1>5, <3>2 DEF Drafts, UnderWay
      <4>3. s \in Drafts' /\ save'[s].at = "done"
        BY <1>3, <1>4, <2>0, <3>2
      <4> QED BY <1>5, <3>1, <4>1, <4>2, <4>3 DEF OneDraft
    <3>3. CASE s \notin Drafts
      <4>1. form'.booked = form.booked
        BY <1>0, <1>5, <3>3 DEF Drafts, UnderWay
      <4>2. \A t \in Drafts : save'[t].at = save[t].at
        BY <1>4, <3>3 DEF Drafts, UnderWay
      <4> QED BY <1>5, <2>0, <2>2, <3>1, <4>1, <4>2 DEF OneDraft
    <3> QED BY <3>2, <3>3
  <2>3. ASSUME F.key # {} PROVE form'.booked <= 1
    <3>1. form.booked <= 1
      BY <2>3 DEF IInv, BookInv
    <3>2. save[s].id = New /\ save[s].own => form.booked = 0
      BY <1>1, <2>3 DEF Apply, Clashes
    <3> QED BY <1>1, <1>5, <3>1, <3>2
  <2> QED BY <1>0, <2>1, <2>2, <2>3 DEF IInv, BookInv
<1> QED BY <1>7, <1>8, <1>9, <1>10 DEF IInv
-----------------------------------------------------------------------------
LEMMA ShowKeeps ==
  ASSUME IInv, NEW id \in Ids, NEW src \in SUBSET Sources, NEW val \in {Empty(F), Copied(F)},
         Show(id, src, val), UNCHANGED <<page, row>>, OfferInv',
         F.edit # "panel" => src = {id}, F.create = "none" => id # New
  PROVE  IInv'
<1>0. Typed
  BY DEF IInv
<1>1. /\ val \in [FieldsOf(F) -> {"a", Blank}] /\ FitsIn(F, val)
      /\ \A y \in F.newOnly : id = New \/ val[y] = Blank
  <2>1. CASE val = Empty(F)
    <3>1. F.newOnly \subseteq FieldsOf(F)
      BY DEF FieldsOf
    <3> QED BY <1>0, <2>1, <3>1, BlankFits, ClosedTyped DEF Empty
  <2>2. CASE val = Copied(F)
    BY <1>0, <2>2, BlankFits
  <2> QED BY <2>1, <2>2
<1>2. form' = Opened(id, src, val) /\ save' = Disowned
  BY DEF Show
<1>3. /\ FormTyped(F, form') /\ form'.shown = TRUE /\ form'.id = id /\ form'.src = src
      /\ form'.val = val /\ form'.booked = 0 /\ form'.item = form.item
  <2>1. IsOpened(Opened(id, src, val), id, src, val)
    <3>1. form.item \in Ids \cup {None}
      BY <1>0 DEF Typed, FormTyped, FormType
    <3> QED BY <1>1, <3>1, OpenedTyped
  <2> QED BY <1>2, <2>1 DEF IsOpened
<1>4. SavesForgotten
  BY <1>0, <1>2, DisownedForgets DEF SavesForgotten
<1>5. F.edit # "panel" => OwnForm(form')
  BY <1>3 DEF IInv, RowInv, OwnRow, OwnForm, OwnSource
<1> QED BY <1>1, <1>3, <1>4, <1>5, ResetKeeps

LEMMA OpenNewKeeps ==
  ASSUME IInv, OpenNew
  PROVE  IInv'
<1>0. /\ F.create # "none" /\ F.edit # "panel" /\ UNCHANGED <<page, offer, lookups, row>>
      /\ F' = F /\ offer \notin Rows
  BY PageStays, FormWellMade DEF OpenNew, IInv, Typed, OfferInv, WellMade
<1>1. OfferInv'
  BY <1>0 DEF IInv, Typed, OfferInv
<1>2. CASE Show(New, {New}, Empty(F))
  BY <1>0, <1>1, <1>2, ShowKeeps DEF Ids, Sources
<1>3. CASE form' = [form EXCEPT !.shown = TRUE] /\ UNCHANGED save
  <2>1. /\ FormTyped(F, form') /\ form'.shown = TRUE /\ form'.id = form.id
        /\ form'.src = form.src /\ form'.val = form.val /\ form'.booked = form.booked
        /\ form'.lost = form.lost /\ form'.carried = form.carried /\ form'.item = form.item
    BY <1>3 DEF OpenNew, IInv, Typed, FormTyped, FormType
  <2>2. OwnForm(form')
    BY <1>0, <2>1 DEF IInv, RowInv, OwnRow, OwnForm
  <2>3. LateFill \/ F.checked \/ FitsIn(F, form.val)
    BY DEF IInv, FitInv, Fits, FitsIn
  <2> QED BY <1>0, <1>1, <1>3, <2>1, <2>2, <2>3, EditKeeps
<1> QED BY <1>2, <1>3 DEF OpenNew

LEMMA OpenEditKeeps ==
  ASSUME IInv, NEW r \in Rows, OpenEdit(r)
  PROVE  IInv'
<1>0. F' = F /\ UNCHANGED <<page, offer, row>> /\ r \in Ids /\ r # New
      /\ {r} \in SUBSET Sources
  BY PageStays DEF OpenEdit, Ids, Sources, Rows, New
<1>1. CASE F.edit = "list" /\ Show(r, {r}, Copied(F)) /\ UNCHANGED lookups
  <2>1. OfferInv'
    BY <1>0, <1>1 DEF IInv, Typed, OfferInv
  <2> QED BY <1>0, <1>1, <2>1, ShowKeeps
<1>2. CASE F.edit = "fetched" /\ lookups' = lookups \cup {r} /\ UNCHANGED <<form, save>>
  <2>1. OfferInv'
    BY <1>0, <1>2 DEF IInv, Typed, OfferInv
  <2>2. FormTyped(F, form) /\ (F.create = "none" /\ Open(form) => form.id # New)
    BY DEF IInv, Typed, BookInv, NothingNew
  <2>3. F.edit # "panel" => OwnForm(form)
    BY DEF IInv, RowInv, OwnRow
  <2>4. LateFill \/ F.checked \/ FitsIn(F, form.val)
    BY DEF IInv, FitInv, Fits, FitsIn
  <2> QED BY <1>0, <1>2, <2>1, <2>2, <2>3, <2>4, EditKeeps
<1>3. CASE F.edit = "panel" /\ r = offer /\ Show(form.id, {r}, Copied(F)) /\ UNCHANGED lookups
  <2>1. form.id # New /\ form.id \in Ids
    BY <1>3 DEF IInv, Typed, OfferInv, FormTyped, FormType
  <2>2. form'.id = form.id
    BY <1>3 DEF Show, Opened, Closed
  <2>3. OfferInv'
    BY <1>0, <1>3, <2>1, <2>2 DEF IInv, Typed, OfferInv
  <2> QED BY <1>0, <1>3, <2>1, <2>3, ShowKeeps
<1> QED BY <1>1, <1>2, <1>3 DEF OpenEdit

LEMMA CancelKeeps ==
  ASSUME IInv, Cancel
  PROVE  IInv'
<1> DEFINE id == IF F.opens = "left" \/ F.edit = "panel" THEN form.id ELSE New
<1>0. F' = F /\ UNCHANGED <<page, offer, lookups, row, save>> /\ FormTyped(F, form)
  BY PageStays DEF Cancel, IInv, Typed
<1>1. id \in {form.id, New} /\ (F.edit = "panel" => id = form.id) /\ New \in Ids
  BY DEF Ids
<1>2. form' = [form EXCEPT !.shown = FALSE, !.item = None, !.id = id]
  BY DEF Cancel
<1> HIDE DEF id
<1>3. /\ FormTyped(F, form') /\ form'.shown = FALSE /\ form'.id = id
      /\ form'.src = form.src /\ form'.val = form.val /\ form'.booked = form.booked
      /\ form'.lost = form.lost /\ form'.carried = form.carried /\ form'.item = None
      /\ form'.away = form.away
  BY <1>0, <1>1, <1>2 DEF FormTyped, FormType
<1>4. OfferInv'
  BY <1>0, <1>1, <1>3 DEF IInv, Typed, OfferInv
<1>5. LateFill \/ F.checked \/ FitsIn(F, form.val)
  BY DEF IInv, FitInv, Fits, FitsIn
<1>6. F.edit # "panel" => OwnForm(form')
  BY <1>1, <1>3 DEF IInv, RowInv, OwnRow, OwnForm, OwnSource
<1>7. F.create = "none" /\ Open(form') => form'.id # New
  BY <1>0, <1>3 DEF Cancel, Open, FormTyped
<1> QED BY <1>0, <1>1, <1>3, <1>4, <1>5, <1>6, <1>7, EditKeeps

LEMMA SelectKeeps ==
  ASSUME IInv, NEW r \in Rows, Select(r)
  PROVE  IInv'
<1>0. /\ F' = F /\ UNCHANGED <<page, offer, lookups, row, save>> /\ FormTyped(F, form)
      /\ F.edit = "panel" /\ F.newOnly = {} /\ F.create = "none" /\ r \in Ids /\ r # New
  BY PageStays, FormWellMade DEF Select, IInv, Typed, WellMade, Ids, Rows, New
<1>1. form' = [form EXCEPT !.id = r]
  BY DEF Select
<1>2. /\ FormTyped(F, form') /\ form'.shown = form.shown /\ form'.id = r
      /\ form'.away = form.away /\ form'.booked = form.booked
  BY <1>0, <1>1 DEF FormTyped, FormType
<1>3. OfferInv'
  BY <1>0, <1>2 DEF IInv, Typed, OfferInv
<1>4. form.booked = 0
  BY <1>0 DEF IInv, BookInv, NothingNew
<1> QED BY <1>0, <1>2, <1>3, <1>4, PanelKeeps DEF Open

LEMMA PanelFollowsKeeps ==
  ASSUME IInv, PanelFollows
  PROVE  IInv'
<1> DEFINE c == Closed(F)
<1>0. /\ F' = F /\ UNCHANGED <<page, lookups, row, save>>
      /\ F.edit = "panel" /\ F.newOnly = {} /\ form.id \in Ids /\ form.id # New
      /\ offer' = form.id
  BY PageStays, FormWellMade DEF PanelFollows, IInv, Typed, WellMade, FormTyped, FormType
<1>1. /\ c \in FormType(F) /\ c.shown = FALSE /\ c.away = FALSE /\ c.booked = 0
      /\ \A y \in FieldsOf(F) : c.val[y] \in ValuesOf(F, y)
  BY ClosedTyped, BlankTyped
<1>2. form' = [c EXCEPT !.id = form.id]
  BY DEF PanelFollows
<1> HIDE DEF c
<1>3. /\ FormTyped(F, form') /\ form'.shown = FALSE /\ form'.away = FALSE
      /\ form'.id = form.id /\ form'.booked = 0
  BY <1>0, <1>1, <1>2 DEF FormTyped, FormType
<1>4. OfferInv'
  BY <1>0, <1>3 DEF IInv, Typed, OfferInv, Ids
<1> QED BY <1>0, <1>3, <1>4, PanelKeeps DEF Open
-----------------------------------------------------------------------------
(* Which choices there are, and what choosing one leaves in the form.      *)
LEMMA ParentOf ==
  ASSUME WellMade(F), NEW d \in F.of
  PROVE  /\ d[1] \in FieldsOf(F) /\ d[2] \in FieldsOf(F) /\ d = <<d[1], d[2]>>
         /\ d[1] \in Children(F) /\ d[2] \in Parents(F)
         /\ d[1] \notin Parents(F) /\ d[2] \notin Children(F) /\ d[1] # d[2]
         /\ Parent(F, d[1]) = d[2]
<1>1. d[1] \in FieldsOf(F) /\ d[2] \in FieldsOf(F) /\ d = <<d[1], d[2]>>
  BY DEF WellMade
<1>2. d[1] \in Children(F) /\ d[2] \in Parents(F)
  BY DEF Children, Parents
<1>3. d[1] \notin Parents(F) /\ d[2] \notin Children(F)
  BY <1>2 DEF WellMade
<1>4. Parent(F, d[1]) = d[2]
  <2>1. \A e \in F.of : e[1] = d[1] => e = d
    BY DEF WellMade
  <2>2. (CHOOSE e \in F.of : e[1] = d[1]) = d
    BY <2>1
  <2> QED BY <2>2 DEF Parent
<1> QED BY <1>1, <1>2, <1>3, <1>4

LEMMA OfferTyped ==
  ASSUME Typed, NEW d \in F.of
  PROVE  offer \in Values \cup {Blank}
<1>1. F.edit # "panel"
  BY FormWellMade DEF WellMade
<1> QED BY <1>1 DEF Typed, OfferInv

LEMMA ChoicesTyped ==
  ASSUME Typed, NEW x \in FieldsOf(F), NEW v \in Choices(x)
  PROVE  v \in ValuesOf(F, x) /\ v \in Values \cup {Blank}
<1>0. WellMade(F) /\ "a" \in Values
  BY FormWellMade DEF Values
<1>1. CASE x \notin Children(F)
  BY <1>0, <1>1 DEF Choices, ValuesOf
<1>2. ASSUME NEW d \in F.of, x = d[1]
      PROVE  v \in Values \cup {Blank}
  <2>1. offer \in Values \cup {Blank}
    BY OfferTyped
  <2>2. form.val[d[2]] \in Values \cup {Blank} /\ Parent(F, x) = d[2] /\ x \in Children(F)
    BY <1>0, <1>2, ParentOf DEF Typed, FormTyped, FormType
  <2>3. v \in OfferedFor(x) \cup {Blank}
    BY <2>2 DEF Choices
  <2>4. F.source \in {"local", "hidden", "previous", "last", "filled"}
    BY <1>0 DEF WellMade
  <2>5. OfferedFor(x) \subseteq {form.val[d[2]], offer}
    <3>1. CASE F.source = "local"
      BY <2>2, <3>1 DEF OfferedFor
    <3>2. CASE F.source = "hidden"
      BY <2>2, <3>2 DEF OfferedFor
    <3>3. CASE F.source \in {"previous", "last"}
      BY <2>2, <3>3 DEF OfferedFor
    <3>4. CASE F.source = "filled"
      BY <2>2, <3>4 DEF OfferedFor
    <3> QED BY <2>4, <3>1, <3>2, <3>3, <3>4
  <2> QED BY <2>1, <2>2, <2>3, <2>5
<1>3. CASE x \in Children(F)
  <2>1. PICK d \in F.of : x = d[1]
    BY <1>3 DEF Children
  <2>2. v \in Values \cup {Blank}
    BY <1>2, <2>1
  <2>3. ValuesOf(F, x) = Values \cup {Blank}
    BY <1>3 DEF ValuesOf, Paired
  <2> QED BY <2>2, <2>3
<1> QED BY <1>1, <1>3

LEMMA ChoiceFits ==
  ASSUME Typed, ~ LateFill, ~ F.checked, NEW d \in F.of, NEW v \in Choices(d[1])
  PROVE  v \in {Blank, form.val[d[2]]}
<1>1. F.source \in {"local", "hidden"}
  BY FormWellMade DEF WellMade, LateFill
<1>2. Parent(F, d[1]) = d[2] /\ d[1] \in Children(F)
  BY FormWellMade, ParentOf
<1>3. CASE F.source = "local"
  BY <1>2, <1>3 DEF Choices, OfferedFor
<1>4. CASE F.source = "hidden"
  BY <1>2, <1>4 DEF Choices, OfferedFor
<1> QED BY <1>1, <1>3, <1>4

LEMMA RefilledFits ==
  ASSUME Typed, ~ LateFill, ~ F.checked, FitsIn(F, form.val),
         NEW x \in FieldsOf(F), NEW v \in Choices(x)
  PROVE  FitsIn(F, Refilled(x, v))
<1> SUFFICES ASSUME NEW d \in F.of
             PROVE  Refilled(x, v)[d[1]] \in {Blank, Refilled(x, v)[d[2]]}
  BY DEF FitsIn
<1>0. WellMade(F) /\ F.source # "filled"
  BY FormWellMade DEF LateFill
<1>1. /\ d[1] \in FieldsOf(F) /\ d[2] \in FieldsOf(F) /\ d = <<d[1], d[2]>>
      /\ d[1] # d[2] /\ d[2] \notin Children(F)
  BY <1>0, ParentOf
<1>2. <<d[2], x>> \notin F.of
  BY <1>1 DEF Children
<1>3. /\ d[2] # x => Refilled(x, v)[d[2]] = form.val[d[2]]
      /\ d[1] = x => Refilled(x, v)[d[1]] = v
      /\ d[1] # x => Refilled(x, v)[d[1]] \in {Blank, form.val[d[1]]}
      /\ d[1] # x /\ d[2] = x => Refilled(x, v)[d[1]] = Blank
  BY <1>0, <1>1, <1>2 DEF Refilled
<1>4. CASE d[1] = x
  <2>1. v \in {Blank, form.val[d[2]]}
    BY <1>4, ChoiceFits
  <2> QED BY <1>1, <1>3, <1>4, <2>1
<1>5. CASE d[1] # x /\ d[2] = x
  BY <1>3, <1>5
<1>6. CASE d[1] # x /\ d[2] # x
  <2>1. form.val[d[1]] \in {Blank, form.val[d[2]]}
    BY DEF FitsIn
  <2> QED BY <1>3, <1>6, <2>1
<1> QED BY <1>4, <1>5, <1>6

LEMMA RefilledTyped ==
  ASSUME Typed, NEW x \in FieldsOf(F), Present(x), NEW v \in Choices(x)
  PROVE  /\ Refilled(x, v) \in [FieldsOf(F) -> Values \cup {Blank}]
         /\ \A y \in FieldsOf(F) : Refilled(x, v)[y] \in ValuesOf(F, y)
         /\ \A y \in F.newOnly : form.id = New \/ Refilled(x, v)[y] = Blank
<1>0. F.newOnly \subseteq FieldsOf(F)
  BY DEF FieldsOf
<1>1. v \in ValuesOf(F, x) /\ v \in Values \cup {Blank}
  BY ChoicesTyped
<1>2. \A y \in FieldsOf(F) : Blank \in ValuesOf(F, y)
  BY DEF ValuesOf
<1>3. \A y \in FieldsOf(F) :
        /\ Refilled(x, v)[y] \in {v, Blank, form.val[y]}
        /\ y # x => Refilled(x, v)[y] \in {Blank, form.val[y]}
        /\ y = x => Refilled(x, v)[y] = v
  BY DEF Refilled
<1>4. /\ \A y \in FieldsOf(F) : form.val[y] \in ValuesOf(F, y)
      /\ \A y \in FieldsOf(F) : form.val[y] \in Values \cup {Blank}
      /\ \A y \in F.newOnly : form.id = New \/ form.val[y] = Blank
  BY DEF Typed, FormTyped, FormType
<1>5. Refilled(x, v) \in [FieldsOf(F) -> Values \cup {Blank}]
  <2>1. \A y \in FieldsOf(F) : Refilled(x, v)[y] \in Values \cup {Blank}
    BY <1>1, <1>3, <1>4
  <2> QED BY <2>1 DEF Refilled
<1>6. \A y \in FieldsOf(F) : Refilled(x, v)[y] \in ValuesOf(F, y)
  BY <1>1, <1>2, <1>3, <1>4
<1>7. \A y \in F.newOnly : form.id = New \/ Refilled(x, v)[y] = Blank
  BY <1>0, <1>3, <1>4 DEF Present
<1> QED BY <1>5, <1>6, <1>7

LEMMA FillKeeps ==
  ASSUME IInv, NEW x \in FieldsOf(F), Fill(x)
  PROVE  IInv'
<1>0. /\ F' = F /\ UNCHANGED <<page, offer, row>> /\ FormTyped(F, form) /\ Typed
      /\ form.shown /\ Present(x)
  BY PageStays DEF Fill, IInv, Typed
<1>1. PICK v \in Choices(x) \ {form.val[x]} :
        /\ form' = [form EXCEPT !.val = Refilled(x, v), !.booked = IF x \in F.key THEN 0 ELSE @]
        /\ lookups' = IF F.source \in {"filled", "last"} /\ x \in Parents(F)
                      THEN lookups \cup ({v} \ {Blank}) ELSE lookups
        /\ save' = IF x \in F.key THEN Disowned ELSE save
  BY DEF Fill
<1>2. v \in Values \cup {Blank}
  BY <1>0, ChoicesTyped
<1> DEFINE val == Refilled(x, v)
           n == IF x \in F.key THEN 0 ELSE form.booked
<1>3. /\ val \in [FieldsOf(F) -> Values \cup {Blank}]
      /\ \A y \in FieldsOf(F) : val[y] \in ValuesOf(F, y)
      /\ \A y \in F.newOnly : form.id = New \/ val[y] = Blank
  BY <1>0, RefilledTyped
<1>4. (x \notin F.key => n = form.booked) /\ (x \in F.key => n = 0)
  OBVIOUS
<1>5. form' = [form EXCEPT !.val = val, !.booked = n]
  BY <1>1
<1>6. LateFill \/ F.checked \/ FitsIn(F, val)
  <2>1. LateFill \/ F.checked \/ FitsIn(F, form.val)
    BY DEF IInv, FitInv, Fits, FitsIn
  <2> QED BY <1>0, <2>1, RefilledFits
<1> HIDE DEF val, n
<1>7. n \in 0..2
  BY <1>0, <1>4 DEF FormTyped, FormType
<1>8. /\ FormTyped(F, form') /\ form'.shown = form.shown /\ form'.id = form.id
      /\ form'.src = form.src /\ form'.val = val /\ form'.booked = n
      /\ form'.lost = form.lost /\ form'.carried = form.carried /\ form'.away = form.away
      /\ form'.item = form.item
  BY <1>0, <1>3, <1>5, <1>7 DEF FormTyped, FormType
<1>9. OfferInv'
  BY <1>0, <1>1, <1>2, <1>8 DEF Typed, OfferInv
<1>10. /\ F.create = "none" /\ Open(form') => form'.id # New
       /\ F.edit # "panel" => OwnForm(form')
  BY <1>8 DEF IInv, BookInv, NothingNew, Open, RowInv, OwnRow, OwnForm, OwnSource
<1>11. CASE x \notin F.key
  <2>1. save' = save
    BY <1>1, <1>11
  <2> QED BY <1>0, <1>4, <1>6, <1>8, <1>9, <1>10, <1>11, <2>1, EditKeeps
<1>12. CASE x \in F.key
  <2>1. SavesForgotten
    BY <1>0, <1>1, <1>12, DisownedForgets DEF SavesForgotten
  <2> QED BY <1>0, <1>4, <1>6, <1>8, <1>9, <1>10, <1>12, <2>1, ResetKeeps
<1> QED BY <1>11, <1>12

(* An answer to a lookup, or new choices, change only what is on offer.    *)
LEMMA OfferKeeps ==
  ASSUME IInv, UNCHANGED <<page, row, save, form>>, OfferInv'
  PROVE  IInv'
<1>1. FormTyped(F, form)
  BY DEF IInv, Typed
<1>2. /\ F.create = "none" /\ Open(form) => form.id # New
      /\ F.edit # "panel" => OwnForm(form)
  BY DEF IInv, BookInv, NothingNew, RowInv, OwnRow
<1>3. LateFill \/ F.checked \/ FitsIn(F, form.val)
  BY DEF IInv, FitInv, Fits, FitsIn
<1> QED BY <1>1, <1>2, <1>3, EditKeeps

LEMMA ChoicesArriveKeeps ==
  ASSUME IInv, ChoicesArrive
  PROVE  IInv'
<1>1. PICK p \in Parents(F) : form.val[p] \notin {Blank, offer} /\ offer' = form.val[p]
  BY DEF ChoicesArrive
<1>2. Parents(F) \subseteq FieldsOf(F)
  BY FormWellMade, ParentOf DEF IInv, Parents
<1>3. offer' \in Values
  BY <1>1, <1>2 DEF IInv, Typed, FormTyped, FormType
<1>4. \A r \in Rows : r \notin Values
  BY DEF Rows, Values
<1>5. OfferInv'
  BY <1>3, <1>4 DEF ChoicesArrive, IInv, Typed, OfferInv
<1> QED BY <1>5, OfferKeeps DEF ChoicesArrive

LEMMA LookupKeeps ==
  ASSUME IInv, NEW v, LookupAnswered(v)
  PROVE  IInv'
<1>0. /\ F' = F /\ UNCHANGED <<page, row>> /\ lookups' = lookups \ {v} /\ Typed
      /\ FormTyped(F, form) /\ \A r \in Rows : r \notin Values /\ r # New /\ r \in Ids
                                 /\ {r} \in SUBSET Sources
  BY PageStays DEF LookupAnswered, IInv, Typed, Rows, Values, New, Ids, Sources
<1>1. CASE v \in Rows /\ Show(v, {v}, Copied(F)) /\ UNCHANGED offer
  <2>1. form'.id = v
    BY <1>1 DEF Show, Opened, Closed
  <2>2. OfferInv'
    BY <1>0, <1>1, <2>1 DEF Typed, OfferInv
  <2> QED BY <1>0, <1>1, <2>2, ShowKeeps
<1>2. CASE v \in Values /\ F.source = "last" /\ offer' = v /\ UNCHANGED <<form, save>>
  <2>1. OfferInv'
    BY <1>0, <1>2 DEF Typed, OfferInv
  <2> QED BY <1>0, <1>2, <2>1, OfferKeeps
<1>3. CASE /\ v \in Values /\ F.source = "filled"
           /\ form' = [form EXCEPT !.val =
                         [x \in FieldsOf(F) |-> IF x \in Children(F) THEN v ELSE @[x]]]
           /\ UNCHANGED <<offer, save>>
  <2> DEFINE val == [x \in FieldsOf(F) |-> IF x \in Children(F) THEN v ELSE form.val[x]]
  <2>1. form' = [form EXCEPT !.val = val]
    BY <1>3
  <2>2. Children(F) \cap F.newOnly = {} /\ F.newOnly \subseteq FieldsOf(F)
    BY <1>0, <1>3, FormWellMade DEF WellMade, FieldsOf
  <2>3. \A x \in Children(F) : x \in FieldsOf(F) => ValuesOf(F, x) = Values \cup {Blank}
    BY DEF ValuesOf, Paired
  <2>4. /\ val \in [FieldsOf(F) -> Values \cup {Blank}]
        /\ \A y \in FieldsOf(F) : val[y] \in ValuesOf(F, y)
        /\ \A y \in F.newOnly : form.id = New \/ val[y] = Blank
    BY <1>0, <1>3, <2>2, <2>3 DEF FormTyped, FormType
  <2> HIDE DEF val
  <2>5. /\ FormTyped(F, form') /\ form'.shown = form.shown /\ form'.id = form.id
        /\ form'.src = form.src /\ form'.booked = form.booked /\ form'.lost = form.lost
        /\ form'.item = form.item /\ form'.carried = form.carried /\ form'.away = form.away
    BY <1>0, <2>1, <2>4 DEF FormTyped, FormType
  <2>6. OfferInv'
    BY <1>0, <1>3, <2>5 DEF Typed, OfferInv
  <2>7. /\ F.create = "none" /\ Open(form') => form'.id # New
        /\ F.edit # "panel" => OwnForm(form')
    BY <2>5 DEF IInv, BookInv, NothingNew, Open, RowInv, OwnRow, OwnForm, OwnSource
  <2>8. LateFill
    BY <1>3 DEF LateFill
  <2> QED BY <1>0, <1>3, <2>5, <2>6, <2>7, <2>8, EditKeeps
<1> QED BY <1>1, <1>2, <1>3 DEF LookupAnswered

(* A saved form: as it is, or emptied and perhaps closed.                  *)
LEMMA HeardKeeps ==
  ASSUME IInv, NEW s \in Slots, UNCHANGED <<page, offer, lookups, row>>,
         form' = AfterSave, save' = [Disowned EXCEPT ![s] = Idle]
  PROVE  IInv'
<1>0. /\ F' = F /\ UNCHANGED <<page, offer, lookups, row>> /\ Typed /\ WellMade(F)
      /\ FormTyped(F, form) /\ form' = AfterSave
  BY PageStays, FormWellMade DEF IInv, Typed
<1>1. SavesForgotten
  <2>1. /\ Disowned \in [Slots -> SaveType]
        /\ \A t \in Slots : Disowned[t] = Idle \/ (SameSave(Disowned[t], save[t]) /\ ~ Disowned[t].own)
    BY <1>0, DisownedForgets
  <2> HIDE DEF Disowned
  <2> QED BY <2>1, IdleTyped DEF SavesForgotten
<1>2. CASE F.after = "rests"
  <2>1. form' = form
    BY <1>0, <1>2 DEF AfterSave
  <2>2. \A t \in Slots : \/ save'[t].at = "idle" /\ save'[t].id = New
                         \/ SameSave(save'[t], save[t]) /\ ~ save'[t].own
    BY <1>1, IdleTyped DEF SavesForgotten
  <2>3. Typed'
    BY <1>0, <1>1, <2>1 DEF Typed, OfferInv, SavesForgotten
  <2>4. RowInv'
    BY <1>0, <2>1, <2>2 DEF IInv, RowInv, OwnRow, OwnForm, OwnSource, SameSave
  <2>5. FitInv'
    BY <1>0, <2>1, <2>2 DEF IInv, FitInv, LateFill, Fits, SameSave
  <2>6. BookInv'
    <3>1. F.create = "none" \/ F.key # {}
      BY <1>0, <1>2 DEF WellMade
    <3>2. F.create = "none" => NothingNew'
      BY <2>1, <2>2 DEF IInv, BookInv, NothingNew, Open, SameSave
    <3>3. F.key # {} => form'.booked <= 1
      BY <2>1 DEF IInv, BookInv
    <3> QED BY <1>0, <3>1, <3>2, <3>3 DEF BookInv
  <2> QED BY <2>3, <2>4, <2>5, <2>6 DEF IInv
<1>3. CASE F.after # "rests"
  <2> DEFINE c == Closed(F)
             id == IF F.edit = "panel" THEN form.id ELSE New
             val == [x \in FieldsOf(F) |-> IF x \in F.kept THEN form.val[x] ELSE Blank]
             b == F.after = "stays"
  <2>1. form' = [c EXCEPT !.shown = b, !.id = id, !.val = val]
    BY <1>0, <1>3 DEF AfterSave
  <2>2. c \in FormType(F) /\ c.src = {New} /\ c.booked = 0
        /\ c.item = None /\ c.away = FALSE
    BY ClosedTyped
  <2>3. /\ val \in [FieldsOf(F) -> Values \cup {Blank}]
        /\ \A y \in FieldsOf(F) : val[y] \in ValuesOf(F, y)
    <3>1. \A y \in FieldsOf(F) : Blank \in ValuesOf(F, y)
      BY DEF ValuesOf
    <3> QED BY <1>0, <3>1 DEF FormTyped, FormType
  <2>4. id \in Ids /\ (F.edit # "panel" => id = New) /\ (F.edit = "panel" => id = form.id)
    BY <1>0 DEF FormTyped, FormType, Ids
  <2>5. F.edit = "panel" => F.create = "none" /\ F.newOnly = {}
    BY <1>0 DEF WellMade
  <2>6. b \in BOOLEAN /\ (b => F.create # "none")
    BY <1>0 DEF WellMade
  <2>7. LateFill \/ F.checked \/ FitsIn(F, val)
    <3>1. \A d \in F.of : /\ d[1] \in FieldsOf(F) /\ d[2] \in FieldsOf(F)
                          /\ d[1] \in F.kept => d[2] \in F.kept
      BY <1>0, ParentOf DEF WellMade
    <3>2. FitsIn(F, form.val) => FitsIn(F, val)
      BY <3>1 DEF FitsIn
    <3>3. LateFill \/ F.checked \/ FitsIn(F, form.val)
      BY DEF IInv, FitInv, Fits, FitsIn
    <3> QED BY <3>2, <3>3
  <2> HIDE DEF c, id, val, b
  <2>8. /\ FormTyped(F, form') /\ form'.shown = b /\ form'.id = id
        /\ form'.val = val /\ form'.booked = 0 /\ form'.item = None /\ form'.away = FALSE
    BY <2>1, <2>2, <2>3, <2>4, <2>5, <2>6 DEF FormTyped, FormType
  <2>9. OfferInv'
    BY <1>0, <2>4, <2>8 DEF Typed, OfferInv
  <2>10. /\ F.edit # "panel" => OwnForm(form')
         /\ F.create = "none" /\ Open(form') => form'.id # New
    BY <2>4, <2>6, <2>8 DEF OwnForm, OwnSource, Open
  <2> QED BY <1>0, <1>1, <2>7, <2>8, <2>9, <2>10, ResetKeeps
<1> QED BY <1>2, <1>3

(* A save the page hears of resets the form; one it does not hear of was   *)
(* taken on a trip with its draft.                                         *)
LEMMA SavedKeeps ==
  ASSUME IInv, NEW s \in Slots, Saved(s)
  PROVE  IInv'
<1>1. CASE form' = AfterSave /\ save' = [Disowned EXCEPT ![s] = Idle]
  BY <1>1, HeardKeeps DEF Saved
<1>2. CASE ~ save[s].here /\ save' = [save EXCEPT ![s] = Idle] /\ UNCHANGED form
  <2>1. /\ UNCHANGED <<page, row, offer, lookups>> /\ save[s].at = "done"
        /\ FormTyped(F, form)
    BY DEF Saved, IInv, Typed
  <2>2. ASSUME F.key = {}, F.create # "none", s \in Drafts PROVE form.carried
    BY <1>2, <2>2 DEF IInv, BookInv, OneDraft
  <2> QED BY <1>2, <2>1, <2>2, IdleTyped, EndKeeps
<1> QED BY <1>1, <1>2 DEF Saved

-----------------------------------------------------------------------------
(* Leaving the page forgets the form and its calls.                        *)
LEMMA OrphanedForgets ==
  ASSUME Typed, save' = Orphaned
  PROVE  SavesForgotten
<1>1. ASSUME NEW s \in Slots
      PROVE  Orphaned[s] \in SaveType /\ SameSave(Orphaned[s], save[s]) /\ ~ Orphaned[s].own
  <2> DEFINE x == save[s]
  <2>1. x \in SaveType /\ Orphaned[s] = [x EXCEPT !.own = FALSE, !.here = FALSE]
    BY DEF Typed, Orphaned
  <2> HIDE DEF x
  <2>2. /\ Orphaned[s] \in SaveType /\ SameSave(Orphaned[s], x) /\ ~ Orphaned[s].own
    BY <2>1 DEF SaveType, SameSave
  <2> QED BY <2>2 DEF x
<1>2. Orphaned \in [Slots -> SaveType]
  BY <1>1 DEF Orphaned
<1> QED BY <1>1, <1>2 DEF SavesForgotten

LEMMA LeavePageKeeps ==
  ASSUME IInv, LeavePage
  PROVE  IInv'
<1> DEFINE c == Closed(F)
<1>0. Typed /\ F' = F /\ UNCHANGED <<page, row>> /\ offer' = Blank /\ lookups' = {}
  BY PageStays DEF LeavePage, IInv
<1>1. /\ c \in FormType(F) /\ c.shown = FALSE /\ c.away = FALSE /\ c.id = New
      /\ c.item = None /\ c.booked = 0 /\ c.val = Empty(F)
      /\ Empty(F) \in [FieldsOf(F) -> {"a", Blank}]
  BY ClosedTyped
<1>2. form' = c /\ save' = Orphaned
  BY DEF LeavePage
<1> HIDE DEF c
<1>3. FormTyped(F, form')
  BY <1>1, <1>2, BlankTyped DEF FormTyped
<1>4. OfferInv'
  BY <1>0 DEF OfferInv, Rows, Blank
<1>5. SavesForgotten
  BY <1>0, <1>2, OrphanedForgets
<1>6. FitsIn(F, form'.val)
  BY <1>0, <1>1, <1>2, BlankFits
<1>7. OwnForm(form') /\ ~ Open(form')
  BY <1>1, <1>2 DEF OwnForm, OwnSource, Open
<1> QED BY <1>0, <1>1, <1>2, <1>3, <1>4, <1>5, <1>6, <1>7, ResetKeeps

(* A trip: no save changes but in what the page knows of it, and if one of *)
(* the draft is under way the draft is marked.                             *)
LEMMA LeaveForTripKeeps ==
  ASSUME IInv, LeaveForTrip
  PROVE  IInv'
<1>0. /\ Typed /\ F' = F /\ UNCHANGED <<page, row>> /\ offer' = Blank /\ lookups' = {}
      /\ FormTyped(F, form) /\ form.shown
  BY PageStays DEF LeaveForTrip, IInv, Typed
<1> DEFINE k == form.carried \/ \E s \in Slots : UnderWay(s)
<1>1. PICK item \in {None, form.item} :
        form' = [form EXCEPT !.shown = FALSE, !.away = TRUE, !.item = item, !.carried = k]
  BY DEF LeaveForTrip
<1>2. k \in BOOLEAN /\ (~ k => ~ form.carried /\ Drafts = {})
  BY <1>0 DEF FormTyped, FormType, Drafts
<1>3. k => form'.carried
  <2> HIDE DEF k
  <2> QED BY <1>0, <1>1 DEF FormTyped, FormType
<1> HIDE DEF k
<1>4. /\ FormTyped(F, form') /\ form'.away /\ ~ form'.shown /\ form'.id = form.id
      /\ form'.src = form.src /\ form'.val = form.val /\ form'.booked = form.booked
      /\ form'.lost = form.lost /\ form'.item \in {None, form.item}
  BY <1>0, <1>1, <1>2 DEF FormTyped, FormType
<1>5. ASSUME NEW s \in Slots
      PROVE  /\ NotKnown[s] \in SaveType /\ SameSave(NotKnown[s], save[s])
             /\ NotKnown[s].own = save[s].own
  <2> DEFINE x == save[s]
  <2>1. x \in SaveType /\ NotKnown[s] = [x EXCEPT !.here = FALSE]
    BY <1>0 DEF Typed, NotKnown
  <2> HIDE DEF x
  <2>2. /\ NotKnown[s] \in SaveType /\ SameSave(NotKnown[s], x) /\ NotKnown[s].own = x.own
    BY <2>1 DEF SaveType, SameSave
  <2> QED BY <2>2 DEF x
<1>6. /\ save' \in [Slots -> SaveType]
      /\ \A s \in Slots : SameSave(save'[s], save[s]) /\ save'[s].own = save[s].own
  <2>1. save' = NotKnown
    BY DEF LeaveForTrip
  <2>2. NotKnown \in [Slots -> SaveType]
    BY <1>5 DEF NotKnown
  <2> QED BY <1>5, <2>1, <2>2
<1>7. Typed'
  BY <1>0, <1>4, <1>6 DEF Typed, OfferInv, Rows, Blank
<1>8. RowInv'
  BY <1>0, <1>4, <1>6 DEF IInv, RowInv, OwnRow, OwnForm, OwnSource, SameSave
<1>9. FitInv'
  BY <1>0, <1>4, <1>6 DEF IInv, FitInv, LateFill, Fits, SameSave
<1>10. BookInv'
  <2>1. Drafts' = Drafts
    BY <1>6 DEF Drafts, UnderWay, SameSave
  <2>2. F.create = "none" => NothingNew'
    BY <1>0, <1>4, <1>6 DEF IInv, BookInv, NothingNew, Open, SameSave
  <2>3. ASSUME OneDraft PROVE OneDraft'
    <3>1. CASE k
      BY <1>3, <3>1 DEF OneDraft
    <3>2. CASE ~ k
      BY <1>2, <1>4, <2>1, <2>3, <3>2 DEF OneDraft
    <3> QED BY <3>1, <3>2
  <2> QED BY <1>0, <1>4, <2>2, <2>3 DEF IInv, BookInv
<1> QED BY <1>7, <1>8, <1>9, <1>10 DEF IInv

LEMMA ComeBackKeeps ==
  ASSUME IInv, ComeBack
  PROVE  IInv'
<1>0. /\ Typed /\ F' = F /\ UNCHANGED <<page, row, save, offer, lookups>>
      /\ FormTyped(F, form) /\ WellMade(F) /\ form.away
  BY PageStays, FormWellMade DEF ComeBack, IInv, Typed
<1>1. PICK new \in {{}} \cup {{x} : x \in F.trips} :
        form' = [form EXCEPT !.shown = TRUE, !.away = FALSE,
                   !.val = [x \in FieldsOf(F) |-> IF x \in new THEN "a" ELSE @[x]]]
  BY DEF ComeBack
<1> DEFINE val == [x \in FieldsOf(F) |-> IF x \in new THEN "a" ELSE form.val[x]]
<1>2. form' = [form EXCEPT !.shown = TRUE, !.away = FALSE, !.val = val]
  BY <1>1
<1>3. new \subseteq FieldsOf(F) \ (Children(F) \cup Parents(F) \cup F.newOnly)
  BY <1>0 DEF WellMade
<1>4. /\ val \in [FieldsOf(F) -> Values \cup {Blank}]
      /\ \A y \in FieldsOf(F) : val[y] \in ValuesOf(F, y)
  BY <1>0 DEF FormTyped, FormType, Values, ValuesOf
<1>5. \A y \in F.newOnly : form.id = New \/ val[y] = Blank
  <2>1. F.newOnly \subseteq FieldsOf(F)
    BY DEF FieldsOf
  <2> QED BY <1>0, <1>3, <2>1 DEF FormTyped
<1>6. LateFill \/ F.checked \/ FitsIn(F, val)
  <2>1. LateFill \/ F.checked \/ FitsIn(F, form.val)
    BY DEF IInv, FitInv, Fits, FitsIn
  <2>2. ASSUME NEW d \in F.of PROVE val[d[1]] = form.val[d[1]] /\ val[d[2]] = form.val[d[2]]
    BY <1>0, <1>3, ParentOf
  <2> HIDE DEF val
  <2> QED BY <2>1, <2>2 DEF FitsIn
<1> HIDE DEF val
<1>7. /\ FormTyped(F, form') /\ form'.id = form.id /\ form'.src = form.src /\ form'.val = val
      /\ form'.booked = form.booked /\ form'.lost = form.lost /\ form'.item = form.item
      /\ form'.carried = form.carried
  BY <1>0, <1>2, <1>4, <1>5 DEF FormTyped, FormType
<1>8. /\ F.create = "none" /\ Open(form') => form'.id # New
      /\ F.edit # "panel" => OwnForm(form')
  BY <1>0, <1>7 DEF IInv, BookInv, NothingNew, Open, RowInv, OwnRow, OwnForm, OwnSource
<1>9. OfferInv'
  BY <1>0, <1>7 DEF Typed, OfferInv
<1> QED BY <1>0, <1>6, <1>7, <1>8, <1>9, EditKeeps

(* An item that was begun in another document is added as a foreign part.  *)
LEMMA ItemKeeps ==
  ASSUME IInv, EnterItem \/ AddItem
  PROVE  IInv'
<1>0. /\ Typed /\ F' = F /\ UNCHANGED <<page, row, save, offer, lookups>>
      /\ FormTyped(F, form) /\ WellMade(F) /\ form.shown
  BY PageStays, FormWellMade DEF EnterItem, AddItem, IInv, Typed
<1>1. LateFill \/ F.checked \/ FitsIn(F, form.val)
  BY DEF IInv, FitInv, Fits, FitsIn
<1>2. ASSUME NEW item \in {None, form.id}, form' = [form EXCEPT !.item = item],
             F.edit = "panel" \/ F.items # {} \/ item = None
      PROVE  IInv'
  <2>1. /\ FormTyped(F, form') /\ form'.id = form.id /\ form'.src = form.src
        /\ form'.val = form.val /\ form'.booked = form.booked /\ form'.lost = form.lost
        /\ form'.item = item /\ form'.carried = form.carried /\ form'.shown = form.shown
        /\ form'.away = form.away
    BY <1>0, <1>2 DEF FormTyped, FormType
  <2>2. /\ F.create = "none" /\ Open(form') => form'.id # New
        /\ F.edit # "panel" => OwnForm(form')
    BY <1>2, <2>1 DEF IInv, BookInv, NothingNew, Open, RowInv, OwnRow, OwnForm, OwnSource
  <2>3. OfferInv'
    BY <1>0, <2>1 DEF Typed, OfferInv
  <2> QED BY <1>0, <1>1, <2>1, <2>2, <2>3, EditKeeps
<1>3. ASSUME form.item # None,
             form' = [form EXCEPT !.item = None, !.src = @ \cup ItemSource,
                        !.val = [x \in FieldsOf(F) |-> IF x \in F.items THEN "a" ELSE @[x]]]
      PROVE  IInv'
  <2> DEFINE val == [x \in FieldsOf(F) |-> IF x \in F.items THEN "a" ELSE form.val[x]]
             src == form.src \cup ItemSource
  <2>1. form' = [form EXCEPT !.item = None, !.src = src, !.val = val]
    BY <1>3
  <2>2. /\ src \in SUBSET Sources /\ form.src \subseteq src
        /\ val \in [FieldsOf(F) -> Values \cup {Blank}]
        /\ \A y \in FieldsOf(F) : val[y] \in ValuesOf(F, y)
    BY <1>0 DEF FormTyped, FormType, Values, ValuesOf, ItemSource, Sources
  <2>3. CASE F.items = {}
    <3>1. F.edit = "panel"
      BY <1>3, <2>3 DEF IInv, RowInv, OwnRow, OwnForm
    <3>2. /\ F.create = "none" /\ F.newOnly = {} /\ F.of = {}
      BY <1>0, <3>1 DEF WellMade
    <3> HIDE DEF src, val
    <3>3. /\ FormTyped(F, form') /\ form'.id = form.id /\ form'.booked = form.booked
          /\ form'.shown = form.shown /\ form'.away = form.away
      BY <1>0, <2>1, <2>2, <3>2 DEF FormTyped, FormType
    <3>4. OfferInv'
      BY <1>0, <3>3 DEF Typed, OfferInv
    <3>5. form.booked = 0 /\ (Open(form') => form'.id # New)
      BY <3>2, <3>3 DEF IInv, BookInv, NothingNew, Open
    <3> QED BY <1>0, <3>1, <3>3, <3>4, <3>5, PanelKeeps
  <2>4. CASE F.items # {}
    <3>1. F.of = {} /\ F.newOnly = {}
      BY <1>0, <2>4 DEF WellMade
    <3> HIDE DEF src, val
    <3>2. /\ FormTyped(F, form') /\ form'.id = form.id /\ form'.src = src
          /\ form'.val = val /\ form'.booked = form.booked /\ form'.lost = form.lost
          /\ form'.item = None /\ form'.carried = form.carried /\ form'.shown = form.shown
          /\ form'.away = form.away
      BY <1>0, <2>1, <2>2, <3>1 DEF FormTyped, FormType
    <3>3. /\ F.create = "none" /\ Open(form') => form'.id # New
          /\ F.edit # "panel" => OwnForm(form')
      BY <2>2, <2>4, <3>2 DEF IInv, BookInv, NothingNew, Open, RowInv, OwnRow, OwnForm, OwnSource
    <3>4. OfferInv' /\ FitsIn(F, val)
      BY <1>0, <3>1, <3>2 DEF Typed, OfferInv, FitsIn
    <3> QED BY <1>0, <3>2, <3>3, <3>4, EditKeeps
  <2> QED BY <2>3, <2>4
<1> QED BY <1>2, <1>3 DEF EnterItem, AddItem

-----------------------------------------------------------------------------
LEMMA NextKeepsInv == IInv /\ [Next]_vars => IInv'
<1> SUFFICES ASSUME IInv, [Next]_vars PROVE IInv'
  OBVIOUS
<1>1. CASE UNCHANGED vars
  <2>1. UNCHANGED <<page, form, offer, lookups, save, row>>
    BY <1>1 DEF vars
  <2>2. OfferInv'
    BY <2>1, PageStays DEF IInv, Typed, OfferInv
  <2> QED BY <2>1, <2>2, OfferKeeps
<1>2. CASE OpenNew \/ Cancel \/ PanelFollows \/ ChoicesArrive
  BY <1>2, OpenNewKeeps, CancelKeeps, PanelFollowsKeeps, ChoicesArriveKeeps
<1>7. CASE LeavePage \/ LeaveForTrip \/ ComeBack \/ EnterItem \/ AddItem
  BY <1>7, LeavePageKeeps, LeaveForTripKeeps, ComeBackKeeps, ItemKeeps
<1>3. CASE \E r \in Rows : OpenEdit(r) \/ Select(r)
  BY <1>3, OpenEditKeeps, SelectKeeps
<1>4. CASE \E x \in FieldsOf(F) : Fill(x)
  BY <1>4, FillKeeps
<1>5. CASE \E v \in Values \cup Rows : LookupAnswered(v)
  BY <1>5, LookupKeeps
<1>6. CASE \E s \in Slots : Save(s) \/ Refuse(s) \/ Apply(s) \/ Saved(s) \/ Failed(s)
  BY <1>6, SaveKeeps, RefuseKeeps, ApplyKeeps, SavedKeeps, FailedKeeps
<1> QED BY <1>1, <1>2, <1>3, <1>4, <1>5, <1>6, <1>7 DEF Next

LEMMA InitMeetsInv == Init => IInv
<1> SUFFICES ASSUME Init PROVE IInv
  OBVIOUS
<1>1. /\ page \in Mounted /\ form = Closed(F) /\ offer = Blank /\ lookups = {}
      /\ save = [s \in Slots |-> Idle] /\ row = [r \in Rows |-> {r}]
  BY DEF Init
<1> DEFINE c == Closed(F)
<1>2. /\ c \in FormType(F) /\ c.shown = FALSE /\ c.away = FALSE /\ c.id = New
      /\ c.booked = 0 /\ c.item = None
      /\ c.val = Empty(F) /\ Empty(F) \in [FieldsOf(F) -> {"a", Blank}]
  BY ClosedTyped
<1>3. form = c
  BY <1>1
<1> HIDE DEF c
<1>4. Typed
  <2>1. FormTyped(F, form)
    BY <1>2, <1>3, BlankTyped DEF FormTyped
  <2>2. OfferInv
    BY <1>1 DEF OfferInv, Rows, Blank
  <2> QED BY <1>1, <2>1, <2>2, IdleTyped DEF Typed, Ids, Sources
<1>5. RowInv
  BY <1>1, <1>2, <1>3, IdleTyped DEF RowInv, OwnRow, OwnForm, OwnSource
<1>6. FitInv
  <2>1. FitsIn(F, form.val)
    BY <1>2, <1>3, <1>4, BlankFits
  <2> QED BY <1>1, <2>1, IdleTyped DEF FitInv, Fits, FitsIn
<1>7. BookInv
  <2>1. Drafts = {}
    BY <1>1, IdleTyped DEF Drafts, UnderWay
  <2> QED BY <1>1, <1>2, <1>3, <2>1, IdleTyped DEF BookInv, NothingNew, OneDraft, Open
<1> QED BY <1>4, <1>5, <1>6, <1>7 DEF IInv

LEMMA InvHolds == Spec => []IInv
BY InitMeetsInv, NextKeepsInv, PTL DEF Spec

-----------------------------------------------------------------------------
(* Form, choices, lookups, saves and rows keep their types on every page   *)
(* (TypeOK).                                                               *)
THEOREM FormsTyped == Spec => []TypeOK
<1>1. IInv => TypeOK
  BY TypedIsTypeOK DEF IInv
<1> QED BY <1>1, InvHolds, PTL

(* One opening of a form books one record, however many saves are under    *)
(* way, unless an answer was lost (DraftBookedOnce).                       *)
THEOREM DraftsBookedOnce == Spec => []DraftBookedOnce
<1>1. IInv => DraftBookedOnce
  BY DEF IInv, BookInv, NothingNew, OneDraft, DraftBookedOnce
<1> QED BY <1>1, InvHolds, PTL

(* What is saved over a record was copied from that record, except in a    *)
(* panel (EditsStayOnTheirRow).                                            *)
THEOREM EditsStay == Spec => []EditsStayOnTheirRow
<1>1. IInv => EditsStayOnTheirRow
  BY DEF IInv, RowInv, OwnRow, OwnSource, Rows, New, EditsStayOnTheirRow
<1> QED BY <1>1, InvHolds, PTL

(* Choices that are booked fit the field they depend on, except where the  *)
(* choices for an earlier value stay on show (DependentsFit).              *)
THEOREM ChoicesFit == Spec => []DependentsFit
<1>1. IInv => DependentsFit
  BY DEF IInv, FitInv, DependentsFit
<1> QED BY <1>1, InvHolds, PTL
=============================================================================
