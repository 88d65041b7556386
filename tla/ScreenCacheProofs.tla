-------------------------- MODULE ScreenCacheProofs --------------------------
(***************************************************************************)
(* What a page shows has every write of its client in it, for any number   *)
(* of writes.  That each write is told to the queries it changes, or is    *)
(* one of those that are listed, is a fact about the declarations of the   *)
(* client (WritesTold).                                                    *)
(***************************************************************************)
EXTENDS ScreenCache, TLAPS

(* What the query lacks is on its way: the mutation has not ended, or its  *)
(* tags wait to be called invalid.                                         *)
OnItsWay == held \/ call = "applied" \/ Silent(pair.mutation, pair.query)
AnswerCurrent ==
  /\ entry.st = "held" => entry.has = written \/ entry.err \/ OnItsWay
  /\ entry.st = "read" => entry.got = written \/ OnItsWay

(* A mutation under way has not used up the bound.                         *)
RoomLeft == call \in {"asking", "sent"} => written < Writes

(* Tags wait only for a call that is under way.                            *)
HeldWaits == held => Pending(entry, call, other)

CacheInv == TypeOK /\ AnswerCurrent /\ RoomLeft /\ HeldWaits

EntrySet ==
  [st : {"none", "asked", "read", "held"}, data : BOOLEAN, has : 0..Writes,
   got : 0..Writes, err : BOOLEAN]

(* Settling: tags that wait are kept, or the answer is fetched again or    *)
(* dropped; nothing is called invalid while it is being fetched.           *)
LEMMA SettleCases ==
  ASSUME NEW e \in EntrySet, NEW c, NEW o \in BOOLEAN, NEW h \in BOOLEAN, Settle(e, c, o, h)
  PROVE  /\ entry' \in EntrySet /\ held' \in BOOLEAN
         /\ held' => Pending(entry', c, o)
         /\ \/ entry' = e /\ held' = h
            \/ entry'.st \in {"none", "asked"}
<1>1. NoEntry \in EntrySet /\ NoEntry.st = "none"
  BY CacheConstants DEF NoEntry, EntrySet
<1>2. CASE h /\ ~ Waits(e, c, o)
  <2>1. e.st \in {"none", "held"}
    BY <1>2 DEF Waits, Pending, EntrySet
  <2>2. Fetching(e) \in EntrySet /\ Fetching(e).st = "asked"
    BY <2>1 DEF Fetching, EntrySet
  <2>3. entry' = Invalidated(e) /\ held' = FALSE
    BY <1>2 DEF Settle
  <2>4. Invalidated(e) \in {e, Fetching(e), NoEntry} /\ (Invalidated(e) = e => e.st = "none")
    BY <1>1, <2>1, <2>2 DEF Invalidated
  <2> QED BY <1>1, <2>2, <2>3, <2>4
<1>3. CASE ~ (h /\ ~ Waits(e, c, o))
  <2>1. entry' = e
    BY <1>3 DEF Settle
  <2>2. held' = h
    BY <1>3 DEF Settle
  <2>3. h => Pending(e, c, o)
    BY <1>3 DEF Waits
  <2> QED BY <2>1, <2>2, <2>3
<1> QED BY <1>2, <1>3

(* Settling what is current leaves it current.                             *)
LEMMA SettleKeeps ==
  ASSUME NEW e \in EntrySet, NEW c, NEW o \in BOOLEAN, NEW h \in BOOLEAN, Settle(e, c, o, h),
         UNCHANGED <<pair, written>>, call' = c, other' = o,
         e.st = "held" => \/ e.has = written \/ e.err \/ h \/ call' = "applied"
                          \/ Silent(pair.mutation, pair.query),
         e.st = "read" => \/ e.got = written \/ h \/ call' = "applied"
                          \/ Silent(pair.mutation, pair.query)
  PROVE  entry' \in EntrySet /\ held' \in BOOLEAN /\ AnswerCurrent' /\ HeldWaits'
<1>1. entry' \in EntrySet /\ held' \in BOOLEAN
  BY SettleCases
<1>0. HeldWaits'
  <2>1. held' => Pending(entry', c, o)
    BY SettleCases
  <2> QED BY <2>1 DEF HeldWaits
<1>2. CASE entry' = e /\ held' = h
  BY <1>0, <1>1, <1>2 DEF AnswerCurrent, OnItsWay
<1>3. CASE entry'.st \in {"none", "asked"}
  BY <1>0, <1>1, <1>3 DEF AnswerCurrent
<1> QED BY <1>2, <1>3, SettleCases

(* The steps of the library.                                               *)
LEMMA LibrarySteps ==
  ASSUME CacheInv,
         ServerReads \/ Answered \/ FetchFails \/ Expire \/ OtherStarts \/ OtherEnds
  PROVE  CacheInv'
<1> USE DEF CacheInv
<1>1. UNCHANGED <<pair, at, written, call>> /\ other' \in BOOLEAN /\ RoomLeft'
  BY DEF ServerReads, Answered, FetchFails, Expire, OtherStarts, OtherEnds, TypeOK, RoomLeft
<1>2. entry \in EntrySet /\ written \in 0..Writes /\ held \in BOOLEAN /\ other \in BOOLEAN
  BY DEF TypeOK, EntrySet
<1> SUFFICES entry' \in EntrySet /\ held' \in BOOLEAN /\ AnswerCurrent' /\ HeldWaits'
  BY <1>1 DEF TypeOK, EntrySet
<1>3. CASE ServerReads
  <2>1. /\ entry' \in EntrySet /\ held' \in BOOLEAN
        /\ entry'.st = "read" /\ entry'.got = written'
    BY <1>1, <1>2, <1>3 DEF ServerReads, EntrySet
  <2> QED BY <2>1 DEF AnswerCurrent, HeldWaits, Pending
<1>4. CASE Answered
  <2> DEFINE e == [entry EXCEPT !.st = "held", !.data = TRUE, !.has = entry.got, !.err = FALSE]
  <2>1. e \in EntrySet /\ e.st = "held" /\ e.has = entry.got /\ entry.st = "read"
    BY <1>2, <1>4 DEF Answered, EntrySet
  <2>2. Settle(e, call, other, held)
    BY <1>4 DEF Answered
  <2>3. \/ e.has = written \/ held \/ call' = "applied" \/ Silent(pair.mutation, pair.query)
    BY <1>1, <2>1 DEF AnswerCurrent, OnItsWay
  <2> HIDE DEF e
  <2>4. other' = other
    BY <1>4 DEF Answered
  <2> QED BY <1>1, <1>2, <2>1, <2>2, <2>3, <2>4, SettleKeeps
<1>5. CASE FetchFails
  <2> DEFINE to == IF entry.data THEN "held" ELSE "none"
             e == [entry EXCEPT !.st = to, !.err = TRUE]
  <2>1. to \in {"held", "none"} /\ Settle(e, call, other, held)
    BY <1>5 DEF FetchFails
  <2> HIDE DEF to
  <2>2. e \in EntrySet /\ e.err /\ e.st # "read"
    BY <1>2, <2>1 DEF EntrySet
  <2> HIDE DEF e
  <2>3. other' = other
    BY <1>5 DEF FetchFails
  <2> QED BY <1>1, <1>2, <2>1, <2>2, <2>3, SettleKeeps
<1>6. CASE Expire
  <2>1. entry' = NoEntry /\ held' = held
    BY <1>6 DEF Expire
  <2>2. NoEntry \in EntrySet /\ NoEntry.st = "none"
    BY CacheConstants DEF NoEntry, EntrySet
  <2>3. held => Pending(entry', call, other)
    BY <1>6 DEF Expire, HeldWaits, Pending
  <2> QED BY <1>1, <1>2, <1>6, <2>1, <2>2, <2>3 DEF AnswerCurrent, HeldWaits, Expire
<1>7. CASE OtherStarts
  BY <1>1, <1>2, <1>7 DEF OtherStarts, AnswerCurrent, OnItsWay, HeldWaits, Pending
<1>8. CASE OtherEnds
  <2>1. Settle(entry, call, FALSE, held)
    BY <1>8 DEF OtherEnds
  <2>2. other' = FALSE
    BY <1>8 DEF OtherEnds
  <2> QED BY <1>1, <1>2, <2>1, <2>2, SettleKeeps DEF AnswerCurrent, OnItsWay
<1> QED BY <1>3, <1>4, <1>5, <1>6, <1>7, <1>8

(* The steps of the user, and the end of a mutation.                       *)
LEMMA UserSteps ==
  ASSUME CacheInv,
         \/ \E to \in {"reader", "writer", "away"} : Go(to)
         \/ Press \/ (\E yes \in BOOLEAN : Confirm(yes)) \/ Apply \/ CallEnds
  PROVE  CacheInv'
<1> USE DEF CacheInv
<1>1. entry \in EntrySet /\ written \in 0..Writes /\ held \in BOOLEAN /\ other \in BOOLEAN
  BY DEF TypeOK, EntrySet
<1>2. ASSUME NEW to \in {"reader", "writer", "away"}, Go(to)
      PROVE  CacheInv'
  <2>1. UNCHANGED <<pair, written, call, other, held>> /\ at' = to
    BY <1>2 DEF Go
  <2>2. entry' = entry \/ (entry' \in EntrySet /\ entry'.st \in {"asked", "read"}
                          /\ entry'.got = entry.got
                          /\ (entry'.st = "read" => entry.st = "read"))
    <3>1. CASE entry.st \in {"held", "none"}
      <4>1. Fetching(entry) = [entry EXCEPT !.st = "asked"]
        BY <1>1, <3>1 DEF Fetching, EntrySet
      <4>2. Fetching(entry) \in EntrySet /\ Fetching(entry).st = "asked"
            /\ Fetching(entry).got = entry.got
        BY <1>1, <4>1 DEF EntrySet
      <4> QED BY <1>2, <4>2 DEF Go
    <3>2. CASE entry.st \notin {"held", "none"}
      <4>1. Fetching(entry) = entry
        BY <1>1, <3>2 DEF Fetching, EntrySet
      <4> QED BY <1>2, <4>1 DEF Go
    <3> QED BY <3>1, <3>2
  <2>3. AnswerCurrent'
    BY <2>1, <2>2 DEF AnswerCurrent, OnItsWay
  <2>4. HeldWaits'
    BY <2>1, <2>2 DEF HeldWaits, Pending
  <2> QED BY <1>1, <2>1, <2>2, <2>3, <2>4 DEF TypeOK, EntrySet, RoomLeft
<1>3. CASE Press
  BY <1>3 DEF Press, TypeOK, RoomLeft, AnswerCurrent, OnItsWay, HeldWaits, Pending
<1>4. ASSUME NEW yes \in BOOLEAN, Confirm(yes)
      PROVE  CacheInv'
  BY <1>4 DEF Confirm, TypeOK, RoomLeft, AnswerCurrent, OnItsWay, HeldWaits, Pending
<1>5. CASE Apply
  <2>1. written' \in 0..Writes /\ call' = "applied"
    BY <1>1, <1>5, CacheConstants DEF Apply, RoomLeft
  <2> QED BY <1>5, <2>1 DEF Apply, TypeOK, RoomLeft, AnswerCurrent, OnItsWay, HeldWaits,
    Pending
<1>6. CASE CallEnds
  <2> DEFINE h == held \/ Told(pair.mutation, pair.query)
  <2>1. h \/ Silent(pair.mutation, pair.query)
    BY WritesTold DEF TypeOK
  <2>2. held => h
    OBVIOUS
  <2>3. h \in BOOLEAN
    BY <1>1 DEF Told
  <2>4. /\ Settle(entry, "idle", other, h) /\ UNCHANGED <<pair, at, written, other>>
        /\ call' = "idle"
    BY <1>6 DEF CallEnds
  <2>5. /\ entry.st = "held" => entry.has = written \/ entry.err \/ h
                                 \/ Silent(pair.mutation, pair.query)
        /\ entry.st = "read" => entry.got = written \/ h \/ Silent(pair.mutation, pair.query)
    <3> HIDE DEF h
    <3> QED BY <2>1, <2>2 DEF AnswerCurrent, OnItsWay
  <2> HIDE DEF h
  <2>6. entry' \in EntrySet /\ held' \in BOOLEAN /\ AnswerCurrent' /\ HeldWaits'
    BY <1>1, <2>3, <2>4, <2>5, SettleKeeps
  <2> QED BY <2>4, <2>6 DEF TypeOK, EntrySet, RoomLeft
<1> QED BY <1>2, <1>3, <1>4, <1>5, <1>6

LEMMA CacheInvHolds == Spec => []CacheInv
<1>1. Init => CacheInv
  <2> SUFFICES ASSUME Init
               PROVE  CacheInv
    OBVIOUS
  <2>1. /\ entry = NoEntry /\ NoEntry \in EntrySet /\ NoEntry.st = "none"
        /\ written = 0 /\ 0 \in 0..Writes
    BY CacheConstants DEF Init, NoEntry, EntrySet
  <2>2. TypeOK
    BY <2>1 DEF Init, TypeOK, EntrySet
  <2>3. AnswerCurrent /\ RoomLeft /\ HeldWaits
    BY <2>1 DEF Init, AnswerCurrent, RoomLeft, HeldWaits
  <2> QED BY <2>2, <2>3 DEF CacheInv
<1>2. CacheInv /\ [Next]_vars => CacheInv'
  <2> SUFFICES ASSUME CacheInv, [Next]_vars
               PROVE  CacheInv'
    OBVIOUS
  <2>1. CASE UNCHANGED vars
    BY <2>1 DEF vars, CacheInv, TypeOK, AnswerCurrent, OnItsWay, RoomLeft, HeldWaits, Pending
  <2> QED BY <2>1, LibrarySteps, UserSteps DEF Next
<1> QED BY <1>1, <1>2, PTL DEF Spec

(* The cache keeps its types: the bound on the writes is never exceeded,   *)
(* since one mutation is applied once (TypeOK).                            *)
THEOREM CacheTyped == Spec => []TypeOK
<1>1. CacheInv => TypeOK
  BY DEF CacheInv
<1> QED BY <1>1, CacheInvHolds, PTL

(* Once no call is under way, what is on show has every write of this      *)
(* client in it (ShowsOwnWrites), however fetches, mutations and the       *)
(* user's way through the pages interleave.                                *)
THEOREM NothingStaleOnShow == Spec => []ShowsOwnWrites
<1>1. CacheInv => ShowsOwnWrites
  <2> SUFFICES ASSUME CacheInv, entry.st = "held", ~ Pending(entry, call, other)
               PROVE  UpToDate
    BY DEF ShowsOwnWrites
  <2>1. call # "applied" /\ ~ held
    BY DEF Pending, CacheInv, HeldWaits
  <2> QED BY <2>1 DEF CacheInv, AnswerCurrent, OnItsWay, UpToDate
<1> QED BY <1>1, CacheInvHolds, PTL
=============================================================================
