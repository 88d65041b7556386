----------------------------- MODULE PageShape -----------------------------
(***************************************************************************)
(* What the pages of the client have in common, as data.  Every page is a  *)
(* list (queries it shows, things its rows offer) and at most one form     *)
(* that creates a record or, opened from a row, updates it.  The modules   *)
(* Pages... give one record per form and per list; PageForms and           *)
(* ScreenCache say what a page with such records does.                     *)
(***************************************************************************)
EXTENDS Naturals

(* A form.                                                                 *)
(*   needs    the fields without which Save only tells the user so         *)
(*   newOnly  the fields that exist only while a new record is entered     *)
(*   extra    other fields a dependency is about                           *)
(*   with     a field, once filled, that needs another one                 *)
(*   differ   two fields that must not hold the same                       *)
(*   of       the field a choice depends on; changing that one empties it  *)
(*   source   where the choices for such a field come from: filtered from  *)
(*            a list at hand ("local"), fetched and hidden while loading   *)
(*            ("hidden"), fetched with the previous answer still on show   *)
(*            ("previous"), the answer that came last ("last"), or filled  *)
(*            in by the answer itself ("filled")                           *)
(*   create, update   the endpoints                                        *)
(*   edit     the form is opened from the row at hand ("list"), with a     *)
(*            record fetched first ("fetched"), or in a panel beside the   *)
(*            list that shows the row selected ("panel")                   *)
(*   key      the fields the server keeps unique over all records          *)
(*   checked  the server refuses a choice that does not fit                *)
(*   after    what a successful save does: the form "closes", is emptied   *)
(*            and "stays", is left as it is ("rests"), or the page is left *)
(*            for another one ("leaves")                                   *)
(*   kept     the fields a successful save leaves filled                   *)
(*   opens    opening the form finds it "empty" or as it was "left"        *)
(*   busy     Save is disabled while "any" save of the page is under way,  *)
(*            only one of its "own" kind, or "never"                       *)
(*   trips    the fields that can be filled by leaving the form for the    *)
(*            page of a new customer or product and coming back            *)
(*   items    the fields that are added to from an entry with a state and  *)
(*            a button of its own                                          *)
Plain ==
  [needs |-> {}, newOnly |-> {}, extra |-> {}, with |-> {}, differ |-> {}, of |-> {},
   source |-> "local", create |-> "none", update |-> "none", edit |-> "list", key |-> {},
   checked |-> FALSE, after |-> "closes", kept |-> {},
   opens |-> "empty", busy |-> "any", trips |-> {}, items |-> {}]

(* A form behind a New / Cancel button that only shows or hides it.        *)
Toggled == [Plain EXCEPT !.opens = "left"]

(* A list: the queries the page subscribes to, the endpoints its rows and  *)
(* buttons call, and those of them it asks the user to confirm.            *)
Bare == [shows |-> {}, acts |-> {}, asks |-> {}]
Listing(queries, acts) == [Bare EXCEPT !.shows = queries, !.acts = acts, !.asks = acts]
=============================================================================
