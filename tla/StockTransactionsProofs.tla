----------------------- MODULE StockTransactionsProofs -----------------------
(***************************************************************************)
(* What holds of the requests for every number of them and whatever they   *)
(* ask for.                                                                *)
(*                                                                         *)
(* Document numbers are unbroken: the row of a series is locked from the   *)
(* draw of a number to the end of its transaction, which keeps the number  *)
(* or puts the series back (NumberInv).                                    *)
(*                                                                         *)
(* The committed books follow the documents one at a time: a balance that  *)
(* is not locked is committed, one that is locked is away from its former  *)
(* value by the rows its holder has posted and taken out so far, less what *)
(* its counts have overwritten (LockInv, ProgressInv).  The rows a deletion*)
(* or an edit takes out are those of its document unless another one has   *)
(* committed since it found them (TargetInv).                              *)
(*                                                                         *)
(* Stock transfers do not overdraw although their check holds no lock on   *)
(* the balance: whoever changes it between the check and the write either  *)
(* adds, or is another transfer, which waits for the series, or is one of  *)
(* the requests that take stock out (CoverInv).                            *)
(***************************************************************************)
EXTENDS StockTransactions, SumsProofs, FunctionTheorems, FiniteSetTheorems

SeriesRow(s) == <<"series", s>>

(* A transaction is a record, whatever it has read; what a request that    *)
(* creates a document asks for has a series.                               *)
IsTx(r) ==
  r = [pc |-> r.pc, form |-> r.form, line |-> r.line, seen |-> r.seen,
       found |-> r.found, rows |-> r.rows, missed |-> r.missed, undo |-> r.undo,
       drawn |-> r.drawn]

(* The statements a kind of request comes to.                              *)
Fits(pc, form) ==
  /\ pc = "number" => HasNumber(form)
  /\ pc \in {"rackout", "rackin"} => form.kind = "RackMove"
  /\ pc \in {"header", "find", "check", "takeout", "erase"} => HasTarget(form)
  /\ pc \in {"read", "write"} => ~ Deletes(form)

(* A creation holds the row of its series from the draw to its end, and    *)
(* nobody else has a number in hand.                                       *)
Drawn(t) == tx[t].pc \in {"read", "write", "commit"} /\ HasNumber(tx[t].form)
TxOK(t) ==
  /\ IsTx(tx[t])
  /\ HasNumber(tx[t].form) => tx[t].form.series \in Series
  /\ Fits(tx[t].pc, tx[t].form)
  /\ Active(t) /\ ~ Drawn(t) => tx[t].drawn = 0
  /\ tx[t].pc = "idle" => tx[t].drawn = 0
  /\ Drawn(t) =>
       /\ lock[SeriesRow(tx[t].form.series)] = t
       /\ tx[t].drawn = next[tx[t].form.series] - 1
       /\ tx[t].drawn # 0
HeldByDrawer ==
  \A s \in Series : \A t \in Requests :
    lock[SeriesRow(s)] = t => Drawn(t) /\ tx[t].form.series = s

(* The last number of a series that is not in the hands of a request.      *)
Last(s) == IF lock[SeriesRow(s)] = Nobody THEN next[s] - 1 ELSE next[s] - 2
SeriesOK(s) ==
  /\ next[s] \in Nat /\ Last(s) \in Nat
  /\ \A t \in Numbered(s) : number[t] \in 1..Last(s)
  /\ \A t, u \in Numbered(s) : number[t] = number[u] => t = u
  /\ \A n \in 1..Last(s) : \E t \in Numbered(s) : number[t] = n

NumberInv ==
  /\ tx = [t \in Requests |-> tx[t]]
  /\ next = [s \in Series |-> next[s]]
  /\ number = [d \in Docs |-> number[d]]
  /\ lock \in [Resource -> Requests \cup {Nobody}]
  /\ \A t \in Requests : TxOK(t)
  /\ HeldByDrawer
  /\ \A s \in Series : SeriesOK(s)

(* Numbers 1, 2, ... without a gap or a repetition.                        *)
LEMMA SeriesIsUnbroken ==
  ASSUME NEW s \in Series, SeriesOK(s)
  PROVE  {number[t] : t \in Numbered(s)} = 1..Cardinality(Numbered(s))
<1> DEFINE N == Numbered(s)
           f == [n \in 1..Last(s) |-> CHOOSE t \in N : number[t] = n]
<1>1. {number[t] : t \in N} = 1..Last(s)
  BY DEF SeriesOK
<1>2. f \in Bijection(1..Last(s), N)
  <2>1. \A n \in 1..Last(s) : f[n] \in N /\ number[f[n]] = n
    BY DEF SeriesOK
  <2>2. f \in [1..Last(s) -> N]
    BY <2>1
  <2>3. \A t \in N : number[t] \in 1..Last(s) /\ f[number[t]] = t
    BY <2>1 DEF SeriesOK
  <2> HIDE DEF f, N
  <2>4. \A m, n \in 1..Last(s) : f[m] = f[n] => m = n
    BY <2>1
  <2>5. \A t \in N : \E n \in 1..Last(s) : f[n] = t
    BY <2>3
  <2> QED BY <2>2, <2>4, <2>5, Fun_IsBij
<1>3. Cardinality(N) = Last(s)
  <2> HIDE DEF f, N
  <2>1. IsFiniteSet(1..Last(s)) /\ Cardinality(1..Last(s)) = Last(s)
    BY FS_Interval DEF SeriesOK
  <2>2. ExistsBijection(1..Last(s), N)
    BY <1>2 DEF ExistsBijection
  <2> QED BY <2>1, <2>2, FS_Bijection
<1> QED BY <1>1, <1>3

-----------------------------------------------------------------------------
(* A transaction that moves on within its statements, or begins, keeps the *)
(* numbers as they are: it touches no series and no lock on one.           *)
LEMMA OtherStatementKeeps ==
  ASSUME NumberInv, NEW t \in Requests, NEW r,
         tx' = [tx EXCEPT ![t] = r], IsTx(r), TxOK(t)',
         tx[t].pc # "committed", r.pc # "committed",
         lock' \in [Resource -> Requests \cup {Nobody}],
         \A s \in Series : lock'[SeriesRow(s)] = lock[SeriesRow(s)],
         Drawn(t) => Drawn(t)' /\ r.form = tx[t].form,
         UNCHANGED <<next, number>>
  PROVE  NumberInv'
<1> USE DEF NumberInv
<1>1. tx'[t] = r /\ \A u \in Requests : u # t => tx'[u] = tx[u]
  OBVIOUS
<1>2. \A u \in Requests : TxOK(u)'
  BY <1>1 DEF TxOK, Drawn, Active
<1>3. HeldByDrawer'
  BY <1>1 DEF HeldByDrawer, Drawn
<1>4. ASSUME NEW s \in Series
      PROVE  SeriesOK(s)'
  <2>1. Numbered(s)' = Numbered(s)
    BY <1>1 DEF Numbered
  <2>2. Last(s)' = Last(s)
    BY DEF Last
  <2>3. SeriesOK(s)
    OBVIOUS
  <2> HIDE DEF NumberInv
  <2> QED BY <2>1, <2>2, <2>3 DEF SeriesOK
<1> QED BY <1>1, <1>2, <1>3, <1>4

(* A statement that goes on to the next place of its transaction.          *)
LEMMA GoesOn ==
  ASSUME NumberInv, NEW t \in Requests, NEW r,
         tx' = [tx EXCEPT ![t] = r], IsTx(r),
         r.form = tx[t].form, r.drawn = tx[t].drawn,
         \/ tx[t].pc \in {"read", "write"} /\ r.pc \in {"read", "write", "commit"}
         \/ /\ tx[t].pc \in {"rackout", "rackin", "header", "find", "check", "takeout", "erase"}
            /\ r.pc \in {"rackin", "find", "check", "takeout", "erase", "read", "commit"},
         Fits(r.pc, r.form),
         UNCHANGED lock \/ (\E res : res \notin {SeriesRow(s) : s \in Series} /\ Lock(t, res)),
         UNCHANGED <<next, number>>
  PROVE  NumberInv'
<1> USE DEF NumberInv
<1>1. tx'[t] = r /\ TxOK(t)
  OBVIOUS
<1>2. /\ lock' \in [Resource -> Requests \cup {Nobody}]
      /\ \A s \in Series : lock'[SeriesRow(s)] = lock[SeriesRow(s)]
  <2>1. CASE UNCHANGED lock
    BY <2>1
  <2>2. ASSUME NEW res, res \notin {SeriesRow(s) : s \in Series}, Lock(t, res)
        PROVE  /\ lock' \in [Resource -> Requests \cup {Nobody}]
               /\ \A s \in Series : lock'[SeriesRow(s)] = lock[SeriesRow(s)]
    <3>1. lock' \in [Resource -> Requests \cup {Nobody}]
      BY <2>2 DEF Lock
    <3>2. \A s \in Series : SeriesRow(s) \in Resource /\ SeriesRow(s) # res
      BY <2>2 DEF SeriesRow, Resource
    <3> QED BY <2>2, <3>1, <3>2 DEF Lock
  <2> QED BY <2>1, <2>2
<1>3. Drawn(t) => Drawn(t)'
  BY <1>1 DEF Drawn, TxOK, Fits, HasNumber, HasTarget
<1>4. TxOK(t)'
  <2>1. tx[t].pc \notin {"read", "write"} => ~ HasNumber(tx[t].form)
    BY <1>1 DEF TxOK, Fits, HasNumber, HasTarget
  <2>2. tx'[t].pc = r.pc /\ tx'[t].form = tx[t].form /\ tx'[t].drawn = tx[t].drawn
    BY <1>1
  <2>3. CASE Drawn(t)
    BY <1>1, <1>2, <1>3, <2>2, <2>3 DEF TxOK, Drawn
  <2>4. CASE ~ Drawn(t)
    <3>1. ~ HasNumber(tx[t].form) /\ tx[t].drawn = 0
      BY <1>1, <2>1, <2>4 DEF TxOK, Drawn, Active
    <3> QED BY <1>1, <2>2, <3>1 DEF TxOK, Drawn
  <2> QED BY <2>3, <2>4
<1> QED BY <1>1, <1>2, <1>3, <1>4, OtherStatementKeeps DEF Drawn

LEMMA RowsDiffer ==
  ASSUME NEW x, NEW kind \in {"balance", "doc", "rack"}
  PROVE  <<kind, x>> \notin {SeriesRow(s) : s \in Series}
BY DEF SeriesRow

(* A rollback gives back the number a creation has drawn, and its lock.    *)
LEMMA RollbackKeeps ==
  ASSUME NumberInv, NEW t \in Requests, NEW how \in {"refused", "failed"},
         Active(t), Rollback(t, how)
  PROVE  NumberInv'
<1> USE DEF NumberInv
<1>1. /\ tx'[t] = [Fresh EXCEPT !.pc = how] /\ \A u \in Requests : u # t => tx'[u] = tx[u]
      /\ tx' = [u \in Requests |-> tx'[u]]
  BY DEF Rollback, End
<1>2. tx'[t].pc = how /\ tx'[t].form.kind = "None" /\ IsTx(tx'[t])
  BY <1>1 DEF Fresh, IsTx
<1>3. \A res \in Resource : lock'[res] = IF lock[res] = t THEN Nobody ELSE lock[res]
  BY DEF Rollback, Release
<1>4. lock' \in [Resource -> Requests \cup {Nobody}]
  BY DEF Rollback, Release
<1>5. \A s \in Series : SeriesRow(s) \in Resource
  BY DEF SeriesRow, Resource
<1>6. /\ next' = [s \in Series |-> next'[s]] /\ number' = number
      /\ \A s \in Series : next'[s] = IF Drawn(t) /\ tx[t].form.series = s
                                     THEN next[s] - 1 ELSE next[s]
  <2>1. CASE Drawn(t)
    <3>1. tx[t].drawn # 0 /\ tx[t].drawn = next[tx[t].form.series] - 1
      BY <2>1 DEF TxOK
    <3> QED BY <2>1, <3>1 DEF Rollback, RestoreSeries
  <2>2. CASE ~ Drawn(t)
    <3>1. tx[t].drawn = 0
      BY <2>2 DEF TxOK
    <3> QED BY <2>2, <3>1 DEF Rollback, RestoreSeries
  <2> QED BY <2>1, <2>2
<1>7. \A s \in Series : lock[SeriesRow(s)] = t <=> Drawn(t) /\ tx[t].form.series = s
  BY DEF HeldByDrawer, TxOK
<1>8. \A u \in Requests : TxOK(u)'
  <2>1. TxOK(t)'
    BY <1>1, <1>2 DEF TxOK, Drawn, Fits, HasNumber, Active, Fresh
  <2>2. ASSUME NEW u \in Requests, u # t
        PROVE  TxOK(u)'
    <3>1. TxOK(u) /\ tx'[u] = tx[u]
      BY <1>1, <2>2
    <3>2. Drawn(u) => /\ lock'[SeriesRow(tx[u].form.series)] = u
                      /\ next'[tx[u].form.series] = next[tx[u].form.series]
      BY <1>3, <1>5, <1>6, <1>7, <2>2, <3>1 DEF TxOK, Drawn
    <3> QED BY <3>1, <3>2 DEF TxOK, Drawn, Active
  <2> QED BY <2>1, <2>2
<1>9. HeldByDrawer'
  <2>1. ASSUME NEW s \in Series, NEW u \in Requests, lock'[SeriesRow(s)] = u
        PROVE  Drawn(u)' /\ tx'[u].form.series = s
    <3>1. lock[SeriesRow(s)] = u /\ u # t
      BY <1>3, <1>5, <2>1, TransactionConstants
    <3> QED BY <1>1, <3>1 DEF HeldByDrawer, Drawn
  <2> QED BY <2>1 DEF HeldByDrawer
<1>10. ASSUME NEW s \in Series
       PROVE  SeriesOK(s)'
  <2>1. Numbered(s)' = Numbered(s)
    BY <1>1, <1>2 DEF Numbered, Active
  <2>2. next'[s] \in Nat /\ Last(s)' = Last(s)
    <3>1. CASE lock[SeriesRow(s)] = t
      <4>1. next'[s] = next[s] - 1 /\ lock'[SeriesRow(s)] = Nobody
        BY <1>3, <1>5, <1>6, <1>7, <3>1
      <4>2. next[s] \in Nat /\ next[s] - 2 \in Nat /\ Last(s) = next[s] - 2
        BY <3>1, TransactionConstants DEF SeriesOK, Last
      <4> QED BY <4>1, <4>2 DEF Last
    <3>2. CASE lock[SeriesRow(s)] # t
      <4>1. next'[s] = next[s] /\ lock'[SeriesRow(s)] = lock[SeriesRow(s)]
        BY <1>3, <1>5, <1>6, <1>7, <3>2
      <4> QED BY <4>1 DEF SeriesOK, Last
    <3> QED BY <3>1, <3>2
  <2>3. SeriesOK(s)
    OBVIOUS
  <2> HIDE DEF NumberInv
  <2> QED BY <1>6, <2>1, <2>2, <2>3 DEF SeriesOK
<1> QED BY <1>1, <1>4, <1>6, <1>8, <1>9, <1>10

-----------------------------------------------------------------------------
LEMMA FirstFits ==
  ASSUME NEW t \in Requests, NEW form \in Forms[t]
  PROVE  FirstPC(form) \in {"number", "header", "rackout"} /\ Fits(FirstPC(form), form)
BY TransactionConstants DEF FirstPC, Fits, HasNumber, HasTarget

LEMMA BeginKeeps ==
  ASSUME NumberInv, NEW t \in Requests, NEW form \in Forms[t], Begin(t, form)
  PROVE  NumberInv'
<1> USE DEF NumberInv
<1>1. IsTx(tx[t]) /\ tx[t].pc = "idle" /\ tx[t].drawn = 0
  BY DEF Begin, TxOK
<1>2. PICK at \in {"number", "header", "rackout"} :
        /\ Fits(at, form) /\ at = FirstPC(form)
        /\ tx' = [tx EXCEPT ![t].form = form, ![t].pc = at]
  BY FirstFits DEF Begin
<1>3. tx'[t] = [tx[t] EXCEPT !.form = form, !.pc = at]
  BY <1>2
<1>4. tx'[t].pc = at /\ tx'[t].form = form /\ tx'[t].drawn = 0 /\ IsTx(tx'[t])
  BY <1>1, <1>3 DEF IsTx
<1>5. tx' = [tx EXCEPT ![t] = tx'[t]]
  BY <1>2, <1>3
<1>6. HasNumber(form) => form.series \in Series
  BY TransactionConstants DEF HasNumber
<1>7. UNCHANGED <<lock, next, number>>
  BY DEF Begin, tables
<1>8. TxOK(t)'
  BY <1>2, <1>4, <1>6, <1>7 DEF TxOK, Drawn, Active
<1> QED BY <1>1, <1>2, <1>4, <1>5, <1>7, <1>8, OtherStatementKeeps DEF Drawn

(* The draw: the series counts up, its row is held, and the number is in   *)
(* the request's hands.                                                    *)
LEMMA NextNumberKeeps ==
  ASSUME NumberInv, NEW t \in Requests, NextNumber(t)
  PROVE  NumberInv'
<1> USE DEF NumberInv
<1> DEFINE s == tx[t].form.series
<1>1. /\ tx[t].pc = "number" /\ HasNumber(tx[t].form) /\ s \in Series /\ IsTx(tx[t])
      /\ number' = number
  BY DEF NextNumber, TxOK, Fits
<1>2. lock[SeriesRow(s)] = Nobody
  <2>1. lock[SeriesRow(s)] \in {Nobody, t}
    BY <1>1 DEF NextNumber, Waiting, Free, Needs, SeriesRow
  <2>2. lock[SeriesRow(s)] # t
    BY <1>1 DEF HeldByDrawer, Drawn
  <2> QED BY <2>1, <2>2
<1>3. next[s] \in Nat /\ next[s] - 1 \in Nat /\ Last(s) = next[s] - 1
  BY <1>1, <1>2 DEF SeriesOK, Last
<1>4. /\ tx'[t] = [tx[t] EXCEPT !.drawn = next[s], !.pc = "read"]
      /\ \A u \in Requests : u # t => tx'[u] = tx[u]
      /\ tx' = [u \in Requests |-> tx'[u]]
  BY DEF NextNumber
<1>5. /\ tx'[t].pc = "read" /\ tx'[t].form = tx[t].form /\ tx'[t].drawn = next[s]
      /\ IsTx(tx'[t])
  BY <1>1, <1>4 DEF IsTx
<1>6. \A v \in Series : SeriesRow(v) \in Resource /\ (SeriesRow(v) = SeriesRow(s) => v = s)
  BY DEF SeriesRow, Resource
<1>7. /\ lock' \in [Resource -> Requests \cup {Nobody}]
      /\ \A v \in Series : lock'[SeriesRow(v)] = IF v = s THEN t ELSE lock[SeriesRow(v)]
  BY <1>1, <1>6 DEF NextNumber, Draw, Lock, SeriesRow
<1>8. /\ next' = [v \in Series |-> next'[v]]
      /\ \A v \in Series : next'[v] = IF v = s THEN next[s] + 1 ELSE next[v]
  BY <1>1 DEF NextNumber
<1> HIDE DEF s
<1>9. \A u \in Requests : TxOK(u)'
  <2>1. TxOK(t)'
    BY <1>1, <1>3, <1>5, <1>7, <1>8 DEF TxOK, Drawn, Active, s, Fits, HasNumber, Deletes
  <2>2. ASSUME NEW u \in Requests, u # t
        PROVE  TxOK(u)'
    <3>1. TxOK(u) /\ tx'[u] = tx[u]
      BY <1>4, <2>2
    <3>2. Drawn(u) => tx[u].form.series # s
      BY <1>2, <3>1, TransactionConstants DEF TxOK
    <3> QED BY <1>7, <1>8, <3>1, <3>2 DEF TxOK, Drawn, Active
  <2> QED BY <2>1, <2>2
<1>10. HeldByDrawer'
  <2>1. ASSUME NEW v \in Series, NEW u \in Requests, lock'[SeriesRow(v)] = u
        PROVE  Drawn(u)' /\ tx'[u].form.series = v
    <3>1. CASE v = s
      BY <1>1, <1>5, <1>7, <2>1, <3>1 DEF Drawn, s
    <3>2. CASE v # s
      <4>1. lock[SeriesRow(v)] = u
        BY <1>7, <2>1, <3>2
      <4>2. Drawn(u) /\ tx[u].form.series = v
        BY <4>1 DEF HeldByDrawer
      <4>3. u # t
        BY <1>1, <4>2 DEF Drawn
      <4> QED BY <1>4, <4>2, <4>3 DEF Drawn
    <3> QED BY <3>1, <3>2
  <2> QED BY <2>1 DEF HeldByDrawer
<1>11. ASSUME NEW v \in Series
       PROVE  SeriesOK(v)'
  <2>1. Numbered(v)' = Numbered(v)
    BY <1>1, <1>4, <1>5 DEF Numbered
  <2>2. next'[v] \in Nat /\ Last(v)' = Last(v)
    <3>1. CASE v = s
      BY <1>3, <1>7, <1>8, <3>1, TransactionConstants DEF Last
    <3>2. CASE v # s
      BY <1>7, <1>8, <3>2 DEF Last, SeriesOK
    <3> QED BY <3>1, <3>2
  <2>3. SeriesOK(v) /\ number' = number
    BY <1>1
  <2> QED BY <2>1, <2>2, <2>3 DEF SeriesOK
<1> QED BY <1>1, <1>4, <1>7, <1>8, <1>9, <1>10, <1>11

LEMMA ReadBalanceKeeps ==
  ASSUME NumberInv, NEW t \in Requests, ReadBalance(t)
  PROVE  NumberInv'
<1> USE DEF NumberInv
<1>1. tx[t].pc = "read" /\ IsTx(tx[t]) /\ Active(t)
  BY DEF ReadBalance, TxOK, Active
<1>2. CASE Rollback(t, "refused")
  BY <1>1, <1>2, RollbackKeeps
<1>3. CASE /\ tx' = [tx EXCEPT ![t].seen = balance[Cell(t)], ![t].pc = "write"]
           /\ UNCHANGED <<tables, lock>>
  <2>1. tx'[t] = [tx[t] EXCEPT !.seen = balance[Cell(t)], !.pc = "write"]
    BY <1>3
  <2>2. /\ tx'[t].pc = "write" /\ tx'[t].form = tx[t].form /\ tx'[t].drawn = tx[t].drawn
        /\ IsTx(tx'[t])
    BY <1>1, <2>1 DEF IsTx
  <2>3. tx' = [tx EXCEPT ![t] = tx'[t]] /\ UNCHANGED <<next, number, lock>>
    BY <1>3, <2>1 DEF tables
  <2>4. Fits("write", tx[t].form)
    BY <1>1 DEF TxOK, Fits
  <2> QED BY <1>1, <2>2, <2>3, <2>4, GoesOn
<1> QED BY <1>2, <1>3 DEF ReadBalance

LEMMA RackOutKeeps ==
  ASSUME NumberInv, NEW t \in Requests, RackOut(t)
  PROVE  NumberInv'
<1> USE DEF NumberInv
<1>1. tx[t].pc = "rackout" /\ IsTx(tx[t]) /\ Active(t)
  BY DEF RackOut, TxOK, Active
<1>2. CASE Rollback(t, "refused")
  BY <1>1, <1>2, RollbackKeeps
<1>3. CASE /\ Lock(t, <<"rack", tx[t].form.from>>)
           /\ tx' = [tx EXCEPT ![t].pc = "rackin"]
           /\ UNCHANGED tables
  <2>1. tx'[t] = [tx[t] EXCEPT !.pc = "rackin"]
    BY <1>3
  <2>2. /\ tx'[t].pc = "rackin" /\ tx'[t].form = tx[t].form /\ tx'[t].drawn = tx[t].drawn
        /\ IsTx(tx'[t])
    BY <1>1, <2>1 DEF IsTx
  <2>3. tx' = [tx EXCEPT ![t] = tx'[t]] /\ UNCHANGED <<next, number>>
    BY <1>3, <2>1 DEF tables
  <2>4. Fits("rackin", tx[t].form)
    BY <1>1 DEF TxOK, Fits
  <2> QED BY <1>1, <1>3, <2>2, <2>3, <2>4, RowsDiffer, GoesOn
<1> QED BY <1>2, <1>3 DEF RackOut

LEMMA RackInKeeps ==
  ASSUME NumberInv, NEW t \in Requests, RackIn(t)
  PROVE  NumberInv'
<1> USE DEF NumberInv
<1>1. tx[t].pc = "rackin" /\ IsTx(tx[t])
  BY DEF RackIn, TxOK
<1>2. tx'[t] = [tx[t] EXCEPT !.pc = "read"]
  BY DEF RackIn
<1>3. /\ tx'[t].pc = "read" /\ tx'[t].form = tx[t].form /\ tx'[t].drawn = tx[t].drawn
      /\ IsTx(tx'[t])
  BY <1>1, <1>2 DEF IsTx
<1>4. tx' = [tx EXCEPT ![t] = tx'[t]] /\ UNCHANGED <<next, number>>
  BY <1>2 DEF RackIn, tables
<1>5. Fits("read", tx[t].form)
  BY <1>1 DEF TxOK, Fits, Deletes
<1>6. \E x : Lock(t, <<"rack", x>>)
  BY DEF RackIn
<1> QED BY <1>1, <1>3, <1>4, <1>5, <1>6, RowsDiffer, GoesOn

LEMMA WriteBalanceKeeps ==
  ASSUME NumberInv, NEW t \in Requests, WriteBalance(t)
  PROVE  NumberInv'
<1> USE DEF NumberInv
<1>1. tx[t].pc = "write" /\ IsTx(tx[t]) /\ Active(t)
  BY DEF WriteBalance, TxOK, Active
<1>2. CASE Rollback(t, "failed")
  BY <1>1, <1>2, RollbackKeeps
<1>3. ASSUME Lock(t, <<"balance", Cell(t)>>), UNCHANGED <<next, number>>,
             NEW undo, NEW posted, NEW missed, NEW line, NEW at \in {"read", "commit"},
             tx' = [tx EXCEPT ![t].undo = undo, ![t].rows = posted, ![t].missed = missed,
                              ![t].line = line, ![t].pc = at]
      PROVE  NumberInv'
  <2>1. tx'[t] = [tx[t] EXCEPT !.undo = undo, !.rows = posted, !.missed = missed,
                               !.line = line, !.pc = at]
    BY <1>3
  <2>2. /\ tx'[t].pc = at /\ tx'[t].form = tx[t].form /\ tx'[t].drawn = tx[t].drawn
        /\ IsTx(tx'[t])
    BY <1>1, <2>1 DEF IsTx
  <2>3. tx' = [tx EXCEPT ![t] = tx'[t]]
    BY <1>3, <2>1
  <2>4. Fits(at, tx[t].form)
    BY <1>1 DEF TxOK, Fits
  <2> HIDE DEF NumberInv
  <2> QED BY <1>1, <1>3, <2>2, <2>3, <2>4, RowsDiffer, GoesOn
<1>4. CASE ~ Rollback(t, "failed")
  <2> DEFINE undo == Undo(t, Cell(t))
             posted == Booked(t)
             missed == Overwritten(t)
             line == Step(t)
             at == Onward(t, "read", "commit")
  <2>1. /\ Lock(t, <<"balance", Cell(t)>>) /\ UNCHANGED <<next, number>>
        /\ tx' = [tx EXCEPT ![t].undo = undo, ![t].rows = posted, ![t].missed = missed,
                            ![t].line = line, ![t].pc = at]
    BY <1>4 DEF WriteBalance
  <2>2. at \in {"read", "commit"}
    BY DEF Onward
  <2> HIDE DEF undo, posted, missed, line, at, NumberInv
  <2> QED BY <1>3, <2>1, <2>2
<1> QED BY <1>2, <1>4

LEMMA ReadHeaderKeeps ==
  ASSUME NumberInv, NEW t \in Requests, ReadHeader(t)
  PROVE  NumberInv'
<1> USE DEF NumberInv
<1>1. tx[t].pc = "header" /\ IsTx(tx[t]) /\ Active(t)
  BY DEF ReadHeader, TxOK, Active
<1>2. CASE Rollback(t, "refused")
  BY <1>1, <1>2, RollbackKeeps
<1>3. CASE tx' = [tx EXCEPT ![t].pc = "find"] /\ UNCHANGED <<tables, lock>>
  <2>1. tx'[t] = [tx[t] EXCEPT !.pc = "find"]
    BY <1>3
  <2>2. /\ tx'[t].pc = "find" /\ tx'[t].form = tx[t].form /\ tx'[t].drawn = tx[t].drawn
        /\ IsTx(tx'[t])
    BY <1>1, <2>1 DEF IsTx
  <2>3. tx' = [tx EXCEPT ![t] = tx'[t]] /\ UNCHANGED <<next, number, lock>>
    BY <1>3, <2>1 DEF tables
  <2>4. Fits("find", tx[t].form)
    BY <1>1 DEF TxOK, Fits
  <2> QED BY <1>1, <2>2, <2>3, <2>4, GoesOn
<1> QED BY <1>2, <1>3 DEF ReadHeader

LEMMA FindRowsKeeps ==
  ASSUME NumberInv, NEW t \in Requests, FindRows(t)
  PROVE  NumberInv'
<1> USE DEF NumberInv
<1>1. tx[t].pc = "find" /\ IsTx(tx[t])
  BY DEF FindRows, TxOK
<1>2. PICK at \in {"erase", "check", "takeout"} :
        tx' = [tx EXCEPT ![t].found = Found(t), ![t].pc = at]
  BY DEF FindRows
<1>3. tx'[t] = [tx[t] EXCEPT !.found = Found(t), !.pc = at]
  BY <1>2
<1>4. /\ tx'[t].pc = at /\ tx'[t].form = tx[t].form /\ tx'[t].drawn = tx[t].drawn
      /\ IsTx(tx'[t])
  BY <1>1, <1>3 DEF IsTx
<1>5. tx' = [tx EXCEPT ![t] = tx'[t]] /\ UNCHANGED <<next, number, lock>>
  BY <1>2, <1>3 DEF FindRows, tables
<1>6. Fits(at, tx[t].form)
  BY <1>1 DEF TxOK, Fits
<1> QED BY <1>1, <1>4, <1>5, <1>6, GoesOn

LEMMA CheckRowKeeps ==
  ASSUME NumberInv, NEW t \in Requests, CheckRow(t)
  PROVE  NumberInv'
<1> USE DEF NumberInv
<1>1. tx[t].pc = "check" /\ IsTx(tx[t]) /\ Active(t)
  BY DEF CheckRow, TxOK, Active
<1>2. CASE Rollback(t, "refused")
  BY <1>1, <1>2, RollbackKeeps
<1>3. ASSUME NEW line, NEW at \in {"check", "takeout"},
             tx' = [tx EXCEPT ![t].line = line, ![t].pc = at],
             UNCHANGED <<tables, lock>>
      PROVE  NumberInv'
  <2>1. tx'[t] = [tx[t] EXCEPT !.line = line, !.pc = at]
    BY <1>3
  <2>2. /\ tx'[t].pc = at /\ tx'[t].form = tx[t].form /\ tx'[t].drawn = tx[t].drawn
        /\ IsTx(tx'[t])
    BY <1>1, <2>1 DEF IsTx
  <2>3. tx' = [tx EXCEPT ![t] = tx'[t]] /\ UNCHANGED <<next, number, lock>>
    BY <1>3, <2>1 DEF tables
  <2>4. Fits(at, tx[t].form)
    BY <1>1 DEF TxOK, Fits
  <2> QED BY <1>1, <2>2, <2>3, <2>4, GoesOn
<1>4. Onward(t, "check", "takeout") \in {"check", "takeout"}
  BY DEF Onward
<1> QED BY <1>2, <1>3, <1>4 DEF CheckRow

LEMMA TakeOutKeeps ==
  ASSUME NumberInv, NEW t \in Requests, TakeOut(t)
  PROVE  NumberInv'
<1> USE DEF NumberInv
<1>1. tx[t].pc = "takeout" /\ IsTx(tx[t])
  BY DEF TakeOut, TxOK
<1>2. Onward(t, "takeout", "erase") \in {"takeout", "erase"}
  BY DEF Onward
<1> DEFINE row == tx[t].found[tx[t].line]
           undo == Undo(t, row.cell)
           line == Step(t)
           at == Onward(t, "takeout", "erase")
<1>3. tx' = [tx EXCEPT ![t].undo = undo, ![t].line = line, ![t].pc = at]
  BY DEF TakeOut
<1> HIDE DEF undo, line, at
<1>4. tx'[t] = [tx[t] EXCEPT !.undo = undo, !.line = line, !.pc = at]
  BY <1>3
<1>5. /\ tx'[t].pc = at /\ at \in {"takeout", "erase"}
      /\ tx'[t].form = tx[t].form /\ tx'[t].drawn = tx[t].drawn
      /\ IsTx(tx'[t])
  BY <1>1, <1>2, <1>4 DEF IsTx, at
<1>6. tx' = [tx EXCEPT ![t] = tx'[t]] /\ UNCHANGED <<next, number>>
  BY <1>3, <1>4 DEF TakeOut
<1>7. \E cell : Lock(t, <<"balance", cell>>)
  BY DEF TakeOut
<1>8. Fits(at, tx[t].form)
  BY <1>1, <1>5 DEF TxOK, Fits
<1> QED BY <1>1, <1>5, <1>6, <1>7, <1>8, RowsDiffer, GoesOn

LEMMA EraseKeeps ==
  ASSUME NumberInv, NEW t \in Requests, Erase(t)
  PROVE  NumberInv'
<1> USE DEF NumberInv
<1>1. tx[t].pc = "erase" /\ IsTx(tx[t]) /\ Active(t)
  BY DEF Erase, TxOK, Active
<1>2. CASE Rollback(t, "failed")
  BY <1>1, <1>2, RollbackKeeps
<1>3. CASE ~ Rollback(t, "failed")
  <2> DEFINE at == IF Deletes(tx[t].form) THEN "commit" ELSE "read"
  <2>1. /\ Lock(t, <<"doc", tx[t].form.target>>) /\ UNCHANGED tables
        /\ tx' = [tx EXCEPT ![t].pc = at]
    BY <1>3 DEF Erase
  <2>2. Fits(at, tx[t].form) /\ at \in {"commit", "read"}
    BY DEF Fits
  <2> HIDE DEF at
  <2>3. tx'[t] = [tx[t] EXCEPT !.pc = at]
    BY <2>1
  <2>4. /\ tx'[t].pc = at /\ tx'[t].form = tx[t].form /\ tx'[t].drawn = tx[t].drawn
        /\ IsTx(tx'[t])
    BY <1>1, <2>3 DEF IsTx
  <2>5. tx' = [tx EXCEPT ![t] = tx'[t]] /\ UNCHANGED <<next, number>>
    BY <2>1, <2>3 DEF tables
  <2> QED BY <1>1, <2>1, <2>2, <2>4, <2>5, RowsDiffer, GoesOn
<1> QED BY <1>2, <1>3

(* A commit: the number a creation has drawn is the next of its series.    *)
LEMMA CommitKeeps ==
  ASSUME NumberInv, NEW t \in Requests, Commit(t)
  PROVE  NumberInv'
<1> USE DEF NumberInv
<1>1. /\ tx[t].pc = "commit" /\ IsTx(tx[t]) /\ TxOK(t) /\ next' = next
      /\ Drawn(t) <=> HasNumber(tx[t].form)
  BY DEF Commit, TxOK, Drawn
<1>2. /\ tx'[t] = [tx[t] EXCEPT !.pc = "committed", !.undo = << >>]
      /\ tx' = [u \in Requests |-> tx'[u]]
      /\ \A u \in Requests : u # t => tx'[u] = tx[u]
  BY DEF Commit
<1>3. /\ tx'[t].pc = "committed" /\ tx'[t].form = tx[t].form /\ tx'[t].drawn = tx[t].drawn
      /\ IsTx(tx'[t])
  BY <1>1, <1>2 DEF IsTx
<1>4. \A res \in Resource : lock'[res] = IF lock[res] = t THEN Nobody ELSE lock[res]
  BY DEF Commit, Release
<1>5. lock' \in [Resource -> Requests \cup {Nobody}]
  BY DEF Commit, Release
<1>6. \A s \in Series : SeriesRow(s) \in Resource
  BY DEF SeriesRow, Resource
<1>7. \A s \in Series : lock[SeriesRow(s)] = t <=> Drawn(t) /\ tx[t].form.series = s
  BY DEF HeldByDrawer, TxOK
<1>8. /\ number' = [d \in Docs |-> number'[d]]
      /\ Drawn(t) => number'[t] = tx[t].drawn
      /\ \A u \in Requests : u # t => number'[u] = number[u]
  <2>1. CASE Drawn(t)
    <3>1. number' = [number EXCEPT ![t] = tx[t].drawn] /\ t \in Docs
      BY <1>1, <2>1 DEF Commit, Docs
    <3> QED BY <3>1 DEF Docs
  <2>2. CASE ~ Drawn(t)
    BY <1>1, <2>2 DEF Commit
  <2> QED BY <2>1, <2>2
<1>9. \A u \in Requests : TxOK(u)'
  <2>1. TxOK(t)'
    BY <1>1, <1>3 DEF TxOK, Drawn, Active, Fits
  <2>2. ASSUME NEW u \in Requests, u # t
        PROVE  TxOK(u)'
    <3>1. TxOK(u) /\ tx'[u] = tx[u]
      BY <1>2, <2>2
    <3>2. Drawn(u) => lock'[SeriesRow(tx[u].form.series)] = u
      BY <1>4, <1>6, <2>2, <3>1 DEF TxOK, Drawn
    <3> QED BY <1>1, <3>1, <3>2 DEF TxOK, Drawn, Active
  <2> QED BY <2>1, <2>2
<1>10. HeldByDrawer'
  <2>1. ASSUME NEW s \in Series, NEW u \in Requests, lock'[SeriesRow(s)] = u
        PROVE  Drawn(u)' /\ tx'[u].form.series = s
    <3>1. lock[SeriesRow(s)] = u /\ u # t
      BY <1>4, <1>6, <2>1, TransactionConstants
    <3> QED BY <1>2, <3>1 DEF HeldByDrawer, Drawn
  <2> QED BY <2>1 DEF HeldByDrawer
<1>11. ASSUME NEW s \in Series
       PROVE  SeriesOK(s)'
  <2>0. SeriesOK(s) /\ Numbered(s) \subseteq Requests
    BY DEF Numbered
  <2>1. CASE lock[SeriesRow(s)] = t
    <3>1. Drawn(t) /\ tx[t].form.series = s /\ tx[t].drawn = next[s] - 1
      BY <1>1, <1>7, <2>1 DEF TxOK
    <3>2. /\ Last(s) = next[s] - 2 /\ Last(s) \in Nat /\ next[s] \in Nat
          /\ Last(s)' = next[s] - 1
      BY <1>1, <1>4, <1>6, <2>0, <2>1, TransactionConstants DEF Last, SeriesOK
    <3>3. Numbered(s)' = Numbered(s) \cup {t} /\ t \notin Numbered(s)
      <4>1. t \in Numbered(s)' /\ t \notin Numbered(s)
        BY <1>1, <1>3, <3>1 DEF Numbered, Drawn
      <4>2. \A u \in Requests : u # t => (u \in Numbered(s)' <=> u \in Numbered(s))
        BY <1>2 DEF Numbered
      <4>3. Numbered(s)' \subseteq Requests
        BY DEF Numbered
      <4> HIDE DEF NumberInv
      <4> QED BY <2>0, <4>1, <4>2, <4>3
    <3>4. number'[t] = Last(s)' /\ \A u \in Numbered(s) : number'[u] = number[u]
      BY <1>8, <2>0, <3>1, <3>2, <3>3
    <3>5. Last(s)' = Last(s) + 1
      BY <3>2
    <3>6. \A u \in Numbered(s)' : number'[u] \in 1..Last(s)'
      BY <2>0, <3>2, <3>3, <3>4, <3>5 DEF SeriesOK
    <3>7. \A u, v \in Numbered(s)' : number'[u] = number'[v] => u = v
      BY <2>0, <3>2, <3>3, <3>4, <3>5 DEF SeriesOK
    <3>8. ASSUME NEW n \in 1..Last(s)'
          PROVE  \E u \in Numbered(s)' : number'[u] = n
      <4>1. CASE n = Last(s)'
        BY <3>3, <3>4, <4>1
      <4>2. CASE n # Last(s)'
        <5>1. n \in 1..Last(s)
          BY <3>2, <3>5, <4>2
        <5> QED BY <2>0, <3>3, <3>4, <5>1 DEF SeriesOK
      <4> QED BY <4>1, <4>2
    <3> QED BY <1>1, <3>2, <3>6, <3>7, <3>8 DEF SeriesOK
  <2>2. CASE lock[SeriesRow(s)] # t
    <3>1. Last(s)' = Last(s)
      BY <1>1, <1>4, <1>6, <2>2 DEF Last
    <3>2. ~ (HasNumber(tx[t].form) /\ tx[t].form.series = s)
      BY <1>1, <1>7, <2>2
    <3>3. Numbered(s)' = Numbered(s) /\ t \notin Numbered(s)
      <4>1. t \notin Numbered(s) /\ t \notin Numbered(s)'
        BY <1>1, <1>3, <3>2 DEF Numbered
      <4>2. \A u \in Requests : u # t => (u \in Numbered(s)' <=> u \in Numbered(s))
        BY <1>2 DEF Numbered
      <4>3. Numbered(s)' \subseteq Requests
        BY DEF Numbered
      <4> QED BY <2>0, <4>1, <4>2, <4>3
    <3>4. \A u \in Numbered(s) : number'[u] = number[u]
      BY <1>8, <2>0, <3>3
    <3>5. next'[s] = next[s]
      BY <1>1
    <3> HIDE DEF NumberInv
    <3> QED BY <2>0, <3>1, <3>3, <3>4, <3>5 DEF SeriesOK
  <2> QED BY <2>1, <2>2
<1> QED BY <1>1, <1>2, <1>5, <1>8, <1>9, <1>10, <1>11

-----------------------------------------------------------------------------
LEMMA NumberInit == Init => NumberInv
<1> SUFFICES ASSUME Init
             PROVE  NumberInv
  OBVIOUS
<1>1. \A t \in Requests : TxOK(t)
  BY DEF Init, Fresh, TxOK, IsTx, Drawn, Fits, HasNumber, Active
<1>2. HeldByDrawer
  BY TransactionConstants DEF Init, HeldByDrawer, SeriesRow, Resource
<1>3. \A s \in Series : SeriesOK(s)
  <2>1. \A s \in Series : SeriesRow(s) \in Resource
    BY DEF SeriesRow, Resource
  <2>2. \A s \in Series : Last(s) = 0 /\ next[s] = 1
    BY <2>1 DEF Init, Last
  <2>3. \A s \in Series : Numbered(s) = {}
    BY DEF Init, Numbered, Fresh
  <2> QED BY <2>2, <2>3 DEF SeriesOK
<1> QED BY <1>1, <1>2, <1>3 DEF Init, NumberInv

LEMMA NumberStep == NumberInv /\ [Next]_vars => NumberInv'
<1> SUFFICES ASSUME NumberInv, [Next]_vars
             PROVE  NumberInv'
  OBVIOUS
<1>1. ASSUME NEW t \in Requests, NEW form \in Forms[t], Begin(t, form)
      PROVE  NumberInv'
  BY <1>1, BeginKeeps
<1>2. ASSUME NEW t \in Requests, Statement(t)
      PROVE  NumberInv'
  BY <1>2, NextNumberKeeps, RackOutKeeps, RackInKeeps, ReadBalanceKeeps, WriteBalanceKeeps,
     ReadHeaderKeeps, FindRowsKeeps, CheckRowKeeps, TakeOutKeeps, EraseKeeps, CommitKeeps DEF Statement
<1>3. ASSUME NEW t \in Requests, Fail(t)
      PROVE  NumberInv'
  BY <1>3, RollbackKeeps DEF Fail
<1>4. ASSUME NEW t \in Requests, Victim(t)
      PROVE  NumberInv'
  <2>1. Waiting(t) /\ Rollback(t, "failed")
    BY <1>4 DEF Victim, Deadlocked
  <2> QED BY <2>1, RollbackKeeps DEF Waiting, Active
<1>5. CASE UNCHANGED vars
  <2>1. UNCHANGED <<tx, next, number, lock>>
    BY <1>5 DEF vars, tables
  <2>2. \A t \in Requests : TxOK(t)'
    BY <2>1 DEF NumberInv, TxOK, Drawn, Active
  <2>3. HeldByDrawer'
    BY <2>1 DEF NumberInv, HeldByDrawer, Drawn
  <2>4. ASSUME NEW s \in Series
        PROVE  SeriesOK(s)'
    <3>1. Numbered(s)' = Numbered(s) /\ Last(s)' = Last(s)
      BY <2>1 DEF Numbered, Last
    <3> QED BY <2>1, <3>1 DEF NumberInv, SeriesOK
  <2> QED BY <2>1, <2>2, <2>3, <2>4 DEF NumberInv
<1> QED BY <1>1, <1>2, <1>3, <1>4, <1>5 DEF Next

(* Whatever fails, blocks or deadlocks in between, the numbers of the      *)
(* documents booked in a series are 1, 2, ... without a gap or a           *)
(* repetition (NumbersUnbroken).                                           *)
THEOREM NumbersNeverBreak == Spec => []NumbersUnbroken
<1>1. NumberInv => NumbersUnbroken
  BY SeriesIsUnbroken DEF NumberInv, NumbersUnbroken
<1> QED BY <1>1, NumberInit, NumberStep, PTL DEF Spec

-----------------------------------------------------------------------------
BalanceRow(c) == <<"balance", c>>
Holds(t, c) == c \in DOMAIN tx[t].undo
Begun(t) == tx[t].pc \notin {"idle", "refused", "failed"}

(* Where a transaction is: nothing is posted, found or changed before its  *)
(* first line, and each line it comes to is one of its own.                *)
InPlace(q) ==
  /\ q.found \in Seq(Row) /\ q.rows \in Seq(Row) /\ q.missed \in Seq(Row)
  /\ ~ HasTarget(q.form) => q.found = << >>
  /\ q.pc \in {"idle", "number", "header", "find", "rackout", "rackin", "refused", "failed"} =>
       q.found = << >> /\ q.line = 1
  /\ q.pc \notin {"read", "write", "commit", "committed"} => q.rows = << >> /\ q.missed = << >>
  /\ q.pc \notin {"takeout", "erase", "read", "write", "commit"} => DOMAIN q.undo = {}
  /\ q.pc \in {"number", "rackout", "rackin", "read", "write"} => q.line \in 1..Len(q.form.lines)
  /\ q.pc \in {"check", "takeout"} => q.line \in 1..Len(q.found)
  /\ q.pc = "erase" => q.line = 1
  /\ q.pc = "write" => q.seen \in Int \cup {NoRow}

(* A request holds the rows of the cells whose former balance it keeps.    *)
LocksOK(t) ==
  /\ DOMAIN tx[t].undo \subseteq Cells
  /\ \A c \in DOMAIN tx[t].undo : tx[t].undo[c] \in Int \cup {NoRow}
  /\ \A c \in Cells : lock[BalanceRow(c)] = t <=> Holds(t, c)

(* A document is booked, and has rows, only once it is committed; what a   *)
(* deletion or an edit works on has been booked, if it is no longer.       *)
Ever(d) ==
  d \in Standing \/ (d \in Requests /\ tx[d].pc = "committed" /\ HasNumber(tx[d].form))
Works(q) ==
  HasTarget(q.form) /\ q.pc \in {"find", "check", "takeout", "erase", "read", "write", "commit"}
PaperOK(t) ==
  /\ t \in booked => tx[t].pc = "committed" /\ HasNumber(tx[t].form)
  /\ rows[t] # << >> => tx[t].pc = "committed" /\ ~ HasTarget(tx[t].form)
  /\ Works(tx[t]) => Ever(tx[t].form.target)
RequestOK(t) ==
  /\ Begun(t) => tx[t].form \in Forms[t]
  /\ InPlace(tx[t])
  /\ LocksOK(t)
  /\ PaperOK(t)
LockInv ==
  /\ NumberInv
  /\ balance \in [Cells -> Int \cup {NoRow}]
  /\ rows \in [Docs -> Seq(Row)]
  /\ booked \subseteq Docs
  /\ \A t \in Requests : RequestOK(t)

LEMMA BalanceRows ==
  /\ \A c \in Cells : BalanceRow(c) \in Resource
  /\ \A c, d : BalanceRow(c) = BalanceRow(d) => c = d
  /\ \A c, x : /\ BalanceRow(c) # <<"doc", x>> /\ BalanceRow(c) # <<"series", x>>
                /\ BalanceRow(c) # <<"rack", x>>
BY DEF BalanceRow, Resource

LEMMA FormTyped ==
  ASSUME NEW t \in Requests, NEW form \in Forms[t]
  PROVE  /\ ~ Deletes(form) => /\ form.lines \in Seq(Row) /\ Len(form.lines) \in Nat
                               /\ 1 \in 1..Len(form.lines)
                               /\ \A i \in 1..Len(form.lines) : form.lines[i] \in Row
         /\ HasTarget(form) => form.target \in Docs
         /\ form.kind \in {"Add", "Count", "Move", "RackMove", "TakeBack", "Undo", "Edit"}
<1>1. CASE ~ Deletes(form)
  <2>1. form.lines \in Seq(Row) /\ form.lines # << >>
    BY <1>1, TransactionConstants DEF Deletes
  <2> QED BY <1>1, <2>1, TransactionConstants DEF HasTarget
<1>2. CASE Deletes(form)
  BY <1>2, TransactionConstants DEF Deletes, HasTarget
<1> QED BY <1>1, <1>2

(* The line or row that a statement is at.                                 *)
LEMMA LineTyped ==
  ASSUME LockInv, NEW t \in Requests
  PROVE  /\ tx[t].pc \in {"read", "write"} =>
              /\ tx[t].form.lines[tx[t].line] \in Row /\ Cell(t) \in Cells
              /\ Posted(t).cell = Cell(t) /\ Written(t) \in Int
         /\ tx[t].pc = "write" => Posted(t) \in Row
         /\ tx[t].pc \in {"check", "takeout"} => tx[t].found[tx[t].line] \in Row
<1> DEFINE q == tx[t]
           line == q.form.lines[q.line]
<1>1. RequestOK(t) /\ TxOK(t)
  BY DEF LockInv, NumberInv
<1>2. ASSUME q.pc \in {"read", "write"}
      PROVE  /\ line \in Row /\ Cell(t) \in Cells /\ Posted(t).cell = Cell(t)
             /\ Written(t) \in Int
             /\ q.pc = "write" => Posted(t) \in Row
  <2>1. q.form \in Forms[t] /\ ~ Deletes(q.form) /\ q.line \in 1..Len(q.form.lines)
    BY <1>1, <1>2 DEF RequestOK, Begun, InPlace, TxOK, Fits
  <2>2. line \in Row
    BY <2>1, FormTyped
  <2> HIDE DEF line
  <2>3. line = [cell |-> line.cell, qty |-> line.qty] /\ line.cell \in Cells /\ line.qty \in Int
    BY <2>2 DEF Row
  <2>4. Cell(t) = line.cell
    BY DEF Cell, line
  <2>5. OnHand(balance[line.cell]) \in Int
    BY <2>3 DEF LockInv, OnHand
  <2>6. q.pc = "write" => OnHand(q.seen) \in Int
    BY <1>1 DEF RequestOK, InPlace, OnHand
  <2>7. Posted(t) = IF q.form.kind = "Count" THEN [line EXCEPT !.qty = @ - OnHand(q.seen)] ELSE line
    BY DEF Posted, line
  <2>8. Posted(t).cell = line.cell
    BY <2>3, <2>7
  <2>9. q.pc = "write" => Posted(t) \in Row
    BY <2>2, <2>3, <2>6, <2>7 DEF Row
  <2>10. Written(t) \in Int
    <3>1. Written(t) = IF q.form.kind = "Count" THEN line.qty
                       ELSE OnHand(balance[line.cell]) + line.qty
      BY DEF Written, line
    <3> QED BY <2>3, <2>5, <3>1
  <2> QED BY <2>2, <2>3, <2>4, <2>8, <2>9, <2>10
<1>3. q.pc \in {"check", "takeout"} => q.found[q.line] \in Row
  BY <1>1 DEF RequestOK, InPlace
<1> QED BY <1>2, <1>3

(* What a step of t does to the balances and their locks: nothing, a       *)
(* change of one cell, or the end of the transaction.                      *)
OnlyTx(t) == tx' = [tx EXCEPT ![t] = tx'[t]] /\ IsTx(tx'[t])
Quiet(t) ==
  /\ OnlyTx(t) /\ tx'[t].undo = tx[t].undo
  /\ UNCHANGED <<balance, rows, booked>>
  /\ \A c \in Cells : lock'[BalanceRow(c)] = lock[BalanceRow(c)]
Changes(t, c) ==
  /\ OnlyTx(t) /\ tx'[t].undo = Undo(t, c)
  /\ Free(t, BalanceRow(c)) /\ Lock(t, BalanceRow(c))
  /\ balance' = [balance EXCEPT ![c] = balance'[c]] /\ balance'[c] \in Int
  /\ UNCHANGED <<rows, booked>>
GoesOnOK(t) ==
  /\ tx[t].pc # "committed" /\ tx'[t].pc # "committed"
  /\ tx'[t].form \in Forms[t]
  /\ InPlace(tx'[t])
  /\ Works(tx'[t]) => \/ Works(tx[t]) /\ tx'[t].form = tx[t].form
                      \/ tx'[t].form.target \in booked

LEMMA OnlyTxOthers ==
  ASSUME LockInv, NEW t \in Requests, OnlyTx(t)
  PROVE  \A u \in Requests : u # t => tx'[u] = tx[u]
BY DEF OnlyTx, LockInv, NumberInv

(* A request whose transaction and cells a step leaves alone.              *)
LEMMA OthersKept ==
  ASSUME LockInv, NEW u \in Requests, tx'[u] = tx[u],
         \A c \in Cells : lock'[BalanceRow(c)] = u <=> lock[BalanceRow(c)] = u,
         PaperOK(u)'
  PROVE  RequestOK(u)'
<1>1. RequestOK(u)
  BY DEF LockInv
<1>2. LocksOK(u)'
  BY <1>1 DEF RequestOK, LocksOK, Holds
<1> QED BY <1>1, <1>2 DEF RequestOK, Begun

(* What is booked has been booked.                                         *)
LEMMA BookedEver ==
  ASSUME LockInv, NEW d \in booked
  PROVE  Ever(d)
<1>1. d \in Requests \cup Standing
  BY DEF LockInv, Docs
<1>2. d \in Requests => PaperOK(d)
  BY DEF LockInv, RequestOK
<1> QED BY <1>1, <1>2 DEF Ever, PaperOK

LEMMA PapersKept ==
  ASSUME LockInv, NEW t \in Requests, tx[t].pc # "committed",
         \A u \in Requests : u # t => tx'[u] = tx[u], UNCHANGED <<rows, booked>>
  PROVE  /\ \A u \in Requests : u # t => PaperOK(u)'
         /\ GoesOnOK(t) => PaperOK(t)'
<1>1. ASSUME NEW u \in Requests, u # t
      PROVE  PaperOK(u)'
  <2>1. PaperOK(u) /\ tx'[u] = tx[u]
    BY <1>1 DEF LockInv, RequestOK
  <2>2. Works(tx[u]) => Ever(tx[u].form.target)'
    <3> SUFFICES ASSUME Works(tx[u])
                 PROVE  Ever(tx[u].form.target)'
      OBVIOUS
    <3> DEFINE d == tx[u].form.target
    <3>1. Ever(d)
      BY <2>1 DEF PaperOK
    <3> HIDE DEF d
    <3>2. d \in Standing \/ (d \in Requests /\ tx'[d].pc = "committed" /\ HasNumber(tx'[d].form))
      BY <3>1 DEF Ever
    <3> QED BY <2>1, <3>2 DEF Ever, d
  <2> QED BY <2>1, <2>2 DEF PaperOK
<1>2. ASSUME GoesOnOK(t)
      PROVE  PaperOK(t)'
  <2>1. PaperOK(t)
    BY DEF LockInv, RequestOK
  <2>2. t \notin booked /\ rows[t] = << >>
    BY <2>1 DEF PaperOK
  <2> DEFINE d == tx'[t].form.target
  <2>3. Works(tx'[t]) => Ever(d)
    BY <1>2, <2>1, BookedEver DEF GoesOnOK, PaperOK
  <2> HIDE DEF d
  <2>4. Works(tx'[t]) =>
          \/ d \in Standing
          \/ d \in Requests /\ tx'[d].pc = "committed" /\ HasNumber(tx'[d].form)
    BY <2>3 DEF Ever
  <2> QED BY <2>2, <2>4 DEF PaperOK, Ever, d
<1> QED BY <1>1, <1>2

LEMMA QuietKeepsLocks ==
  ASSUME LockInv, NumberInv', NEW t \in Requests, Quiet(t), GoesOnOK(t)
  PROVE  LockInv'
<1>0. tx[t].pc # "committed" /\ \A u \in Requests : u # t => tx'[u] = tx[u]
  BY OnlyTxOthers DEF Quiet, GoesOnOK
<1>1. \A u \in Requests : u # t => RequestOK(u)'
  BY <1>0, PapersKept, OthersKept DEF Quiet
<1>2. RequestOK(t)
  BY DEF LockInv
<1>3. LocksOK(t)'
  BY <1>2 DEF RequestOK, LocksOK, Holds, Quiet
<1>4. PaperOK(t)'
  BY <1>0, PapersKept DEF Quiet
<1>5. RequestOK(t)'
  BY <1>3, <1>4 DEF RequestOK, Begun, GoesOnOK
<1> QED BY <1>1, <1>5 DEF LockInv, Quiet

LEMMA ChangedLocks ==
  ASSUME LockInv, NEW t \in Requests, NEW c \in Cells, Changes(t, c)
  PROVE  /\ lock'[BalanceRow(c)] = t
         /\ \A d \in Cells : d # c => lock'[BalanceRow(d)] = lock[BalanceRow(d)]
         /\ lock[BalanceRow(c)] \in {Nobody, t}
<1>1. lock' = [lock EXCEPT ![BalanceRow(c)] = t] /\ lock[BalanceRow(c)] \in {Nobody, t}
  BY DEF Changes, Lock, Free
<1>2. lock \in [Resource -> Requests \cup {Nobody}]
  BY DEF LockInv, NumberInv
<1>3. \A d \in Cells : BalanceRow(d) \in Resource /\ (d # c => BalanceRow(d) # BalanceRow(c))
  BY BalanceRows
<1> QED BY <1>1, <1>2, <1>3

LEMMA UndoFacts ==
  ASSUME LockInv, NEW t \in Requests, NEW c \in Cells
  PROVE  /\ DOMAIN Undo(t, c) = DOMAIN tx[t].undo \cup {c}
         /\ \A d \in DOMAIN tx[t].undo : Undo(t, c)[d] = tx[t].undo[d]
         /\ ~ Holds(t, c) => Undo(t, c)[c] = balance[c]
         /\ \A d \in DOMAIN Undo(t, c) : Undo(t, c)[d] \in Int \cup {NoRow}
<1>1. LocksOK(t) /\ balance[c] \in Int \cup {NoRow}
  BY DEF LockInv, RequestOK
<1> QED BY <1>1 DEF Undo, Holds, LocksOK

LEMMA ChangeKeepsLocks ==
  ASSUME LockInv, NumberInv', NEW t \in Requests, NEW c \in Cells, Changes(t, c), GoesOnOK(t)
  PROVE  LockInv'
<1>0. /\ tx[t].pc # "committed" /\ \A u \in Requests : u # t => tx'[u] = tx[u]
      /\ UNCHANGED <<rows, booked>>
  BY OnlyTxOthers DEF Changes, GoesOnOK
<1>1. ASSUME NEW u \in Requests, u # t
      PROVE  RequestOK(u)'
  <2>1. \A d \in Cells : lock'[BalanceRow(d)] = u <=> lock[BalanceRow(d)] = u
    BY <1>1, ChangedLocks, TransactionConstants
  <2> QED BY <1>0, <1>1, <2>1, PapersKept, OthersKept
<1>2. RequestOK(t)
  BY DEF LockInv
<1>3. tx'[t].undo = Undo(t, c)
  BY DEF Changes
<1>4. LocksOK(t)'
  <2>1. DOMAIN tx'[t].undo = DOMAIN tx[t].undo \cup {c} /\ DOMAIN tx[t].undo \subseteq Cells
    BY <1>2, <1>3, UndoFacts DEF RequestOK, LocksOK
  <2>2. \A d \in DOMAIN tx'[t].undo : tx'[t].undo[d] \in Int \cup {NoRow}
    BY <1>3, UndoFacts
  <2>3. \A d \in Cells : lock'[BalanceRow(d)] = t <=> d \in DOMAIN tx'[t].undo
    <3>1. \A d \in Cells : lock[BalanceRow(d)] = t <=> d \in DOMAIN tx[t].undo
      BY <1>2 DEF RequestOK, LocksOK, Holds
    <3> QED BY <2>1, <3>1, ChangedLocks
  <2> QED BY <2>1, <2>2, <2>3 DEF LocksOK, Holds
<1>5. PaperOK(t)'
  BY <1>0, PapersKept
<1>6. RequestOK(t)'
  BY <1>4, <1>5 DEF RequestOK, Begun, GoesOnOK
<1>7. balance' \in [Cells -> Int \cup {NoRow}]
  BY DEF Changes, LockInv
<1> QED BY <1>1, <1>6, <1>7 DEF LockInv, Changes

(* The end of a transaction frees its cells.                               *)
LEMMA Released ==
  ASSUME LockInv, NEW t \in Requests, Release(t)
  PROVE  /\ \A c \in Cells : lock'[BalanceRow(c)] # t
         /\ \A u \in Requests : u # t =>
              \A c \in Cells : lock'[BalanceRow(c)] = u <=> lock[BalanceRow(c)] = u
         /\ \A c \in Cells : lock'[BalanceRow(c)] =
              IF lock[BalanceRow(c)] = t THEN Nobody ELSE lock[BalanceRow(c)]
BY BalanceRows, TransactionConstants DEF Release

LEMMA RollbackKeepsLocks ==
  ASSUME LockInv, NumberInv', NEW t \in Requests, NEW how \in {"refused", "failed"},
         tx[t].pc # "committed", Rollback(t, how)
  PROVE  LockInv'
<1>1. /\ tx'[t] = [Fresh EXCEPT !.pc = how] /\ \A u \in Requests : u # t => tx'[u] = tx[u]
      /\ UNCHANGED <<rows, booked>> /\ Release(t)
  BY DEF Rollback, End, LockInv, NumberInv
<1>2. \A u \in Requests : u # t => RequestOK(u)'
  BY <1>1, Released, PapersKept, OthersKept
<1>3. /\ tx'[t].pc = how /\ tx'[t].rows = << >> /\ tx'[t].line = 1 /\ tx'[t].undo = << >>
      /\ tx'[t].found = << >> /\ tx'[t].missed = << >>
  BY <1>1 DEF Fresh
<1>4. RequestOK(t)
  BY DEF LockInv
<1>5. RequestOK(t)'
  <2>1. LocksOK(t)'
    BY <1>1, <1>3, Released DEF LocksOK, Holds
  <2>2. InPlace(tx'[t])
    BY <1>3 DEF InPlace
  <2>3. PaperOK(t)'
    BY <1>1, <1>3, <1>4 DEF PaperOK, RequestOK, Works
  <2> QED BY <1>3, <2>1, <2>2, <2>3 DEF RequestOK, Begun
<1>6. balance' \in [Cells -> Int \cup {NoRow}]
  BY <1>4 DEF Rollback, Restored, LockInv, RequestOK, LocksOK
<1> QED BY <1>1, <1>2, <1>5, <1>6 DEF LockInv

(* The document whose rows a commit replaces is its own or one that has    *)
(* been booked.                                                            *)
LEMMA PaperIs ==
  ASSUME LockInv, NEW t \in Requests, tx[t].pc = "commit"
  PROVE  /\ Paper(t) \in Docs /\ tx[t].form \in Forms[t]
         /\ ~ HasTarget(tx[t].form) => Paper(t) = t /\ rows[t] = << >>
         /\ HasTarget(tx[t].form) => Paper(t) = tx[t].form.target /\ Ever(Paper(t))
<1>1. RequestOK(t) /\ tx[t].form \in Forms[t]
  BY DEF LockInv, RequestOK, Begun
<1>2. CASE ~ HasTarget(tx[t].form)
  BY <1>1, <1>2 DEF RequestOK, PaperOK, Paper, Docs
<1>3. CASE HasTarget(tx[t].form)
  BY <1>1, <1>3, FormTyped DEF RequestOK, PaperOK, Paper, Works
<1> QED BY <1>1, <1>2, <1>3

LEMMA CommitKeepsLocks ==
  ASSUME LockInv, NumberInv', NEW t \in Requests, Commit(t)
  PROVE  LockInv'
<1>1. /\ tx'[t] = [tx[t] EXCEPT !.pc = "committed", !.undo = << >>]
      /\ \A u \in Requests : u # t => tx'[u] = tx[u]
      /\ tx[t].pc = "commit" /\ UNCHANGED balance /\ Release(t) /\ IsTx(tx[t])
  BY DEF Commit, LockInv, NumberInv, TxOK
<1>2. /\ tx'[t].pc = "committed" /\ tx'[t].undo = << >> /\ tx'[t].rows = tx[t].rows
      /\ tx'[t].form = tx[t].form /\ tx'[t].found = tx[t].found
      /\ tx'[t].missed = tx[t].missed
  BY <1>1 DEF IsTx
<1>3. RequestOK(t) /\ tx[t].form \in Forms[t]
  BY <1>1 DEF LockInv, RequestOK, Begun
<1>4. InPlace(tx'[t])
  BY <1>2, <1>3 DEF RequestOK, InPlace
<1>5. LocksOK(t)'
  BY <1>1, <1>2, Released DEF LocksOK, Holds
<1>6. t \notin booked /\ rows[t] = << >> /\ t \in Docs
  BY <1>1, <1>3 DEF RequestOK, PaperOK, Docs
<1> DEFINE d == Paper(t)
           form == tx[t].form
<1>7. /\ d \in Docs
      /\ ~ HasTarget(form) => d = t
      /\ HasTarget(form) => d = form.target /\ Ever(d)
  BY <1>1, PaperIs
<1>8. rows' = [rows EXCEPT ![d] = tx[t].rows] /\ rows \in [Docs -> Seq(Row)]
  BY DEF Commit, LockInv
<1>9. rows' \in [Docs -> Seq(Row)] /\ \A e \in Docs : e # d => rows'[e] = rows[e]
  BY <1>3, <1>7, <1>8 DEF RequestOK, InPlace
<1>10. /\ booked' \subseteq booked \cup {t}
       /\ t \in booked' => HasNumber(form)
  BY <1>6 DEF Commit
<1>11. Ever(d) /\ d # t =>
         \/ d \in Standing
         \/ /\ d \in Requests /\ tx'[d] = tx[d]
            /\ tx[d].pc = "committed" /\ HasNumber(tx[d].form)
  BY <1>1 DEF Ever
<1> HIDE DEF d, form
<1>12. ASSUME NEW u \in Requests
       PROVE  PaperOK(u)'
  <2>1. u \in Docs /\ u \notin Standing
    BY TransactionConstants DEF Docs
  <2>2. CASE u = t
    <3>1. rows'[t] # << >> => ~ HasTarget(form)
      <4>1. HasTarget(form) => d # t
        BY <1>1, <1>7, TransactionConstants DEF Ever
      <4> QED BY <1>6, <1>9, <4>1
    <3>2. ~ Works(tx'[t])
      BY <1>2 DEF Works
    <3> QED BY <1>2, <1>10, <2>2, <3>1, <3>2 DEF PaperOK, form
  <2>3. CASE u # t
    <3>1. tx'[u] = tx[u] /\ PaperOK(u)
      BY <1>1, <2>3 DEF LockInv, RequestOK
    <3>2. u \in booked' => u \in booked
      BY <1>10, <2>3
    <3>3. rows'[u] # << >> => tx[u].pc = "committed" /\ ~ HasTarget(tx[u].form)
      <4>1. CASE u = d
        <5>1. tx[u].pc = "committed" /\ HasNumber(tx[u].form)
          BY <1>7, <1>11, <2>1, <2>3, <4>1
        <5> QED BY <5>1 DEF HasNumber, HasTarget
      <4>2. CASE u # d
        BY <1>9, <2>1, <3>1, <4>2 DEF PaperOK
      <4> QED BY <4>1, <4>2
    <3> DEFINE e == tx[u].form.target
    <3>4. Works(tx[u]) => Ever(e)
      BY <3>1 DEF PaperOK
    <3> HIDE DEF e
    <3>5. Works(tx[u]) =>
            \/ e \in Standing
            \/ e \in Requests /\ tx'[e].pc = "committed" /\ HasNumber(tx'[e].form)
      BY <1>1, <3>4 DEF Ever
    <3> QED BY <3>1, <3>2, <3>3, <3>5 DEF PaperOK, Ever, e
  <2> QED BY <2>2, <2>3
<1>13. \A u \in Requests : u # t => RequestOK(u)'
  BY <1>1, <1>12, Released, OthersKept
<1>14. RequestOK(t)'
  BY <1>2, <1>3, <1>4, <1>5, <1>12 DEF RequestOK
<1>15. booked' \subseteq Docs
  BY <1>6, <1>10 DEF LockInv
<1> QED BY <1>1, <1>9, <1>13, <1>14, <1>15 DEF LockInv

-----------------------------------------------------------------------------
(* What each statement does to the locks, action by action.                *)
StepOK(t) == GoesOnOK(t) /\ (Quiet(t) \/ \E c \in Cells : Changes(t, c))

LEMMA BeginQuiet ==
  ASSUME LockInv, NEW t \in Requests, NEW form \in Forms[t], Begin(t, form)
  PROVE  /\ Quiet(t) /\ GoesOnOK(t) /\ tx'[t].pc \in {"number", "header", "rackout"}
         /\ tx'[t].form = form /\ tx[t].found = << >> /\ tx'[t].found = << >>
<1>1. PICK at \in {"number", "header", "rackout"} :
        /\ Fits(at, form)
        /\ tx' = [tx EXCEPT ![t].form = form, ![t].pc = at]
  BY FirstFits DEF Begin
<1>2. IsTx(tx[t]) /\ RequestOK(t) /\ tx[t].pc = "idle" /\ tx = [u \in Requests |-> tx[u]]
  BY DEF LockInv, NumberInv, TxOK, Begin
<1>3. tx'[t] = [tx[t] EXCEPT !.form = form, !.pc = at]
  BY <1>1, <1>2
<1>4. /\ tx'[t].pc = at /\ tx'[t].form = form /\ tx'[t].undo = tx[t].undo
      /\ tx'[t].found = tx[t].found /\ tx'[t].rows = tx[t].rows /\ tx'[t].missed = tx[t].missed
      /\ tx'[t].line = tx[t].line /\ IsTx(tx'[t])
  BY <1>2, <1>3 DEF IsTx
<1>5. /\ tx[t].found = << >> /\ tx[t].line = 1 /\ DOMAIN tx[t].undo = {}
      /\ tx[t].rows = << >> /\ tx[t].missed = << >> /\ << >> \in Seq(Row)
  BY <1>2 DEF RequestOK, InPlace
<1>6. at \in {"number", "rackout"} => 1 \in 1..Len(form.lines)
  <2>1. at \in {"number", "rackout"} => ~ Deletes(form)
    BY <1>1 DEF Fits, HasNumber, Deletes
  <2> QED BY <2>1, FormTyped
<1>7. InPlace(tx'[t])
  BY <1>1, <1>4, <1>5, <1>6 DEF InPlace
<1>8. tx' = [tx EXCEPT ![t] = tx'[t]]
  BY <1>1, <1>3
<1>9. ~ Works(tx'[t])
  BY <1>1, <1>4 DEF Works
<1> QED BY <1>1, <1>2, <1>4, <1>5, <1>7, <1>8, <1>9 DEF Begin, tables, Quiet, OnlyTx, GoesOnOK

(* A statement of a transaction that is under way, and what it has in hand.*)
LEMMA UnderWay ==
  ASSUME LockInv, NEW t \in Requests, Active(t)
  PROVE  /\ IsTx(tx[t]) /\ InPlace(tx[t]) /\ tx[t].form \in Forms[t]
         /\ Fits(tx[t].pc, tx[t].form)
         /\ tx = [u \in Requests |-> tx[u]]
BY DEF LockInv, NumberInv, TxOK, RequestOK, Begun, Active

LEMMA NextNumberQuiet ==
  ASSUME LockInv, NEW t \in Requests, NextNumber(t)
  PROVE  /\ Quiet(t) /\ GoesOnOK(t) /\ tx'[t].form = tx[t].form /\ tx'[t].pc = "read"
         /\ tx'[t].found = tx[t].found /\ tx'[t].rows = tx[t].rows /\ tx'[t].missed = tx[t].missed
<1>1. tx[t].pc = "number"
  BY DEF NextNumber
<1>2. /\ IsTx(tx[t]) /\ InPlace(tx[t]) /\ tx[t].form \in Forms[t]
      /\ HasNumber(tx[t].form) /\ tx = [u \in Requests |-> tx[u]]
  BY <1>1, UnderWay DEF Active, Fits
<1>3. tx'[t] = [tx[t] EXCEPT !.drawn = next[tx[t].form.series], !.pc = "read"]
  BY <1>2 DEF NextNumber
<1>4. /\ tx'[t].pc = "read" /\ tx'[t].form = tx[t].form /\ tx'[t].undo = tx[t].undo
      /\ tx'[t].found = tx[t].found /\ tx'[t].rows = tx[t].rows /\ tx'[t].missed = tx[t].missed
      /\ tx'[t].line = tx[t].line /\ IsTx(tx'[t])
  BY <1>2, <1>3 DEF IsTx
<1>5. InPlace(tx'[t])
  BY <1>1, <1>2, <1>4 DEF InPlace
<1>6. tx' = [tx EXCEPT ![t] = tx'[t]]
  BY <1>3 DEF NextNumber
<1>7. \A c \in Cells : lock'[BalanceRow(c)] = lock[BalanceRow(c)]
  BY BalanceRows DEF NextNumber, Draw, Lock, LockInv, NumberInv
<1> QED BY <1>1, <1>2, <1>4, <1>5, <1>6, <1>7 DEF NextNumber, Quiet, OnlyTx, GoesOnOK,
  Works, HasNumber, HasTarget

LEMMA RackOutQuiet ==
  ASSUME LockInv, NEW t \in Requests, RackOut(t)
  PROVE  \/ Rollback(t, "refused")
         \/ Quiet(t) /\ GoesOnOK(t) /\ tx'[t] = [tx[t] EXCEPT !.pc = "rackin"]
<1> SUFFICES ASSUME ~ Rollback(t, "refused")
             PROVE  Quiet(t) /\ GoesOnOK(t) /\ tx'[t] = [tx[t] EXCEPT !.pc = "rackin"]
  OBVIOUS
<1>1. /\ tx[t].pc = "rackout" /\ Lock(t, <<"rack", tx[t].form.from>>)
      /\ tx' = [tx EXCEPT ![t].pc = "rackin"] /\ UNCHANGED tables
  BY DEF RackOut
<1>2. /\ IsTx(tx[t]) /\ InPlace(tx[t]) /\ tx[t].form \in Forms[t]
      /\ tx = [u \in Requests |-> tx[u]]
  BY <1>1, UnderWay DEF Active
<1>3. tx'[t] = [tx[t] EXCEPT !.pc = "rackin"]
  BY <1>1, <1>2
<1>4. /\ tx'[t].pc = "rackin" /\ tx'[t].form = tx[t].form /\ tx'[t].undo = tx[t].undo
      /\ tx'[t].found = tx[t].found /\ tx'[t].rows = tx[t].rows /\ tx'[t].missed = tx[t].missed
      /\ tx'[t].line = tx[t].line /\ IsTx(tx'[t])
  BY <1>2, <1>3 DEF IsTx
<1>5. InPlace(tx'[t]) /\ ~ Works(tx'[t])
  BY <1>1, <1>2, <1>4 DEF InPlace, Works
<1>6. tx' = [tx EXCEPT ![t] = tx'[t]]
  BY <1>1, <1>3
<1>7. \A c \in Cells : lock'[BalanceRow(c)] = lock[BalanceRow(c)]
  BY <1>1, BalanceRows DEF Lock, LockInv, NumberInv
<1> QED BY <1>1, <1>2, <1>3, <1>4, <1>5, <1>6, <1>7 DEF tables, Quiet, OnlyTx, GoesOnOK

LEMMA RackInQuiet ==
  ASSUME LockInv, NEW t \in Requests, RackIn(t)
  PROVE  Quiet(t) /\ GoesOnOK(t) /\ tx'[t] = [tx[t] EXCEPT !.pc = "read"]
<1>1. /\ tx[t].pc = "rackin" /\ Lock(t, <<"rack", tx[t].form.to>>)
      /\ tx' = [tx EXCEPT ![t].pc = "read"] /\ UNCHANGED tables
  BY DEF RackIn
<1>2. /\ IsTx(tx[t]) /\ InPlace(tx[t]) /\ tx[t].form \in Forms[t]
      /\ tx[t].form.kind = "RackMove" /\ tx = [u \in Requests |-> tx[u]]
  BY <1>1, UnderWay DEF Active, Fits
<1>3. tx'[t] = [tx[t] EXCEPT !.pc = "read"]
  BY <1>1, <1>2
<1>4. /\ tx'[t].pc = "read" /\ tx'[t].form = tx[t].form /\ tx'[t].undo = tx[t].undo
      /\ tx'[t].found = tx[t].found /\ tx'[t].rows = tx[t].rows /\ tx'[t].missed = tx[t].missed
      /\ tx'[t].line = tx[t].line /\ IsTx(tx'[t])
  BY <1>2, <1>3 DEF IsTx
<1>5. InPlace(tx'[t]) /\ ~ Works(tx'[t])
  BY <1>1, <1>2, <1>4 DEF InPlace, Works, HasTarget
<1>6. tx' = [tx EXCEPT ![t] = tx'[t]]
  BY <1>1, <1>3
<1>7. \A c \in Cells : lock'[BalanceRow(c)] = lock[BalanceRow(c)]
  BY <1>1, BalanceRows DEF Lock, LockInv, NumberInv
<1> QED BY <1>1, <1>2, <1>3, <1>4, <1>5, <1>6, <1>7 DEF tables, Quiet, OnlyTx, GoesOnOK

LEMMA ReadBalanceQuiet ==
  ASSUME LockInv, NEW t \in Requests, ReadBalance(t)
  PROVE  \/ Rollback(t, "refused")
         \/ /\ Quiet(t) /\ GoesOnOK(t) /\ ~ Short(t) /\ ~ Waiting(t)
            /\ tx'[t] = [tx[t] EXCEPT !.seen = balance[Cell(t)], !.pc = "write"]
<1> SUFFICES ASSUME ~ Rollback(t, "refused")
             PROVE  /\ Quiet(t) /\ GoesOnOK(t)
                    /\ tx'[t] = [tx[t] EXCEPT !.seen = balance[Cell(t)], !.pc = "write"]
  BY DEF ReadBalance
<1>1. tx[t].pc = "read"
  BY DEF ReadBalance
<1>2. /\ IsTx(tx[t]) /\ InPlace(tx[t]) /\ tx[t].form \in Forms[t]
      /\ tx = [u \in Requests |-> tx[u]]
  BY <1>1, UnderWay DEF Active
<1>3. /\ tx' = [tx EXCEPT ![t].seen = balance[Cell(t)], ![t].pc = "write"]
      /\ UNCHANGED <<tables, lock>>
  BY DEF ReadBalance
<1>4. tx'[t] = [tx[t] EXCEPT !.seen = balance[Cell(t)], !.pc = "write"]
  BY <1>2, <1>3
<1>5. /\ tx'[t].pc = "write" /\ tx'[t].form = tx[t].form /\ tx'[t].undo = tx[t].undo
      /\ tx'[t].found = tx[t].found /\ tx'[t].rows = tx[t].rows /\ tx'[t].missed = tx[t].missed
      /\ tx'[t].line = tx[t].line /\ IsTx(tx'[t])
      /\ tx'[t].seen = balance[Cell(t)]
  BY <1>2, <1>4 DEF IsTx
<1>6. balance[Cell(t)] \in Int \cup {NoRow}
  BY <1>1, LineTyped DEF LockInv
<1>7. InPlace(tx'[t])
  BY <1>1, <1>2, <1>5, <1>6 DEF InPlace
<1>8. tx' = [tx EXCEPT ![t] = tx'[t]]
  BY <1>3, <1>4
<1> QED BY <1>1, <1>2, <1>3, <1>4, <1>5, <1>7, <1>8 DEF tables, Quiet, OnlyTx, GoesOnOK, Works

(* What a count's row is off by is nothing, or one row more.               *)
LEMMA MissedRow ==
  ASSUME LockInv, NEW t \in Requests, tx[t].pc = "write", Cell(t) \in Cells, InPlace(tx[t])
  PROVE  Overwritten(t) \in Seq(Row)
<1> DEFINE off == OnHand(tx[t].seen) - OnHand(balance[Cell(t)])
<1>1. off \in Int
  BY DEF InPlace, OnHand, LockInv
<1>2. tx[t].missed \in Seq(Row)
  BY DEF InPlace
<1> HIDE DEF off
<1>3. [cell |-> Cell(t), qty |-> off] \in Row
  BY <1>1 DEF Row
<1> QED BY <1>2, <1>3 DEF Overwritten, off

LEMMA WriteBalanceChanges ==
  ASSUME LockInv, NEW t \in Requests, WriteBalance(t)
  PROVE  \/ Rollback(t, "failed")
         \/ /\ Changes(t, Cell(t)) /\ GoesOnOK(t)
            /\ balance'[Cell(t)] = Written(t)
            /\ tx'[t].form = tx[t].form /\ tx'[t].found = tx[t].found
            /\ tx'[t].rows = Booked(t) /\ tx'[t].missed = Overwritten(t)
            /\ tx'[t].pc \in {"read", "commit"}
<1> SUFFICES ASSUME ~ Rollback(t, "failed")
             PROVE  /\ Changes(t, Cell(t)) /\ GoesOnOK(t)
                    /\ balance'[Cell(t)] = Written(t)
                    /\ tx'[t].form = tx[t].form /\ tx'[t].found = tx[t].found
                    /\ tx'[t].rows = Booked(t) /\ tx'[t].missed = Overwritten(t)
                    /\ tx'[t].pc \in {"read", "commit"}
  OBVIOUS
<1> DEFINE c == Cell(t)
           undo == Undo(t, c)
           posted == Booked(t)
           missed == Overwritten(t)
           line == Step(t)
           at == Onward(t, "read", "commit")
<1>1. tx[t].pc = "write" /\ ~ Waiting(t)
  BY DEF WriteBalance
<1>2. /\ IsTx(tx[t]) /\ InPlace(tx[t]) /\ tx[t].form \in Forms[t] /\ ~ Deletes(tx[t].form)
      /\ tx = [u \in Requests |-> tx[u]]
  BY <1>1, UnderWay DEF Active, Fits
<1>3. /\ c \in Cells /\ Written(t) \in Int /\ Posted(t) \in Row
  BY <1>1, LineTyped
<1>4. /\ balance' = [balance EXCEPT ![c] = Written(t)] /\ Lock(t, BalanceRow(c))
      /\ tx' = [tx EXCEPT ![t].undo = undo, ![t].rows = posted, ![t].missed = missed,
                          ![t].line = line, ![t].pc = at]
      /\ UNCHANGED <<rows, booked>>
  BY DEF WriteBalance, BalanceRow
<1>5. Free(t, BalanceRow(c))
  BY <1>1 DEF Waiting, Needs, BalanceRow
<1>6. posted \in Seq(Row)
  BY <1>2, <1>3 DEF Booked, InPlace
<1>m. missed \in Seq(Row)
  BY <1>1, <1>2, <1>3, MissedRow
<1>7. /\ at \in {"read", "commit"}
      /\ at = "read" => line \in 1..Len(tx[t].form.lines)
  BY <1>1, <1>2, FormTyped DEF Onward, Step, InPlace
<1> HIDE DEF undo, posted, missed, line, at
<1>8. tx'[t] = [tx[t] EXCEPT !.undo = undo, !.rows = posted, !.missed = missed,
                             !.line = line, !.pc = at]
  BY <1>2, <1>4
<1>9. /\ tx'[t].pc = at /\ tx'[t].form = tx[t].form /\ tx'[t].undo = undo
      /\ tx'[t].found = tx[t].found /\ tx'[t].rows = posted /\ tx'[t].missed = missed
      /\ tx'[t].line = line /\ IsTx(tx'[t])
  BY <1>2, <1>8 DEF IsTx
<1>10. InPlace(tx'[t])
  BY <1>1, <1>2, <1>6, <1>m, <1>7, <1>9 DEF InPlace
<1>11. tx' = [tx EXCEPT ![t] = tx'[t]]
  BY <1>4, <1>8
<1>12. balance'[c] = Written(t)
  BY <1>3, <1>4 DEF LockInv
<1>13. Changes(t, c)
  BY <1>3, <1>4, <1>5, <1>9, <1>11, <1>12 DEF Changes, OnlyTx, undo
<1>14. GoesOnOK(t)
  BY <1>1, <1>2, <1>7, <1>9, <1>10 DEF GoesOnOK, Works
<1> QED BY <1>7, <1>9, <1>12, <1>13, <1>14 DEF posted, missed

LEMMA ReadHeaderQuiet ==
  ASSUME LockInv, NEW t \in Requests, ReadHeader(t)
  PROVE  \/ Rollback(t, "refused")
         \/ /\ Quiet(t) /\ GoesOnOK(t) /\ HasTarget(tx[t].form) /\ tx[t].form.target \in booked
            /\ tx'[t] = [tx[t] EXCEPT !.pc = "find"]
<1> SUFFICES ASSUME ~ Rollback(t, "refused")
             PROVE  /\ Quiet(t) /\ GoesOnOK(t)
                    /\ HasTarget(tx[t].form) /\ tx[t].form.target \in booked
                    /\ tx'[t] = [tx[t] EXCEPT !.pc = "find"]
  OBVIOUS
<1>1. /\ tx[t].pc = "header" /\ tx[t].form.target \in booked
      /\ tx' = [tx EXCEPT ![t].pc = "find"] /\ UNCHANGED <<tables, lock>>
  BY DEF ReadHeader
<1>2. /\ IsTx(tx[t]) /\ InPlace(tx[t]) /\ tx[t].form \in Forms[t]
      /\ HasTarget(tx[t].form) /\ tx = [u \in Requests |-> tx[u]]
  BY <1>1, UnderWay DEF Active, Fits
<1>3. tx'[t] = [tx[t] EXCEPT !.pc = "find"]
  BY <1>1, <1>2
<1>4. /\ tx'[t].pc = "find" /\ tx'[t].form = tx[t].form /\ tx'[t].undo = tx[t].undo
      /\ tx'[t].found = tx[t].found /\ tx'[t].rows = tx[t].rows /\ tx'[t].missed = tx[t].missed
      /\ tx'[t].line = tx[t].line /\ IsTx(tx'[t])
  BY <1>2, <1>3 DEF IsTx
<1>5. InPlace(tx'[t])
  BY <1>1, <1>2, <1>4 DEF InPlace
<1>6. tx' = [tx EXCEPT ![t] = tx'[t]]
  BY <1>1, <1>3
<1> QED BY <1>1, <1>2, <1>3, <1>4, <1>5, <1>6 DEF tables, Quiet, OnlyTx, GoesOnOK

LEMMA FindRowsQuiet ==
  ASSUME LockInv, NEW t \in Requests, FindRows(t)
  PROVE  /\ Quiet(t) /\ GoesOnOK(t) /\ tx'[t].found = rows[tx[t].form.target]
         /\ tx'[t].form = tx[t].form /\ tx'[t].rows = << >> /\ tx'[t].missed = << >>
         /\ tx'[t].line = 1 /\ HasTarget(tx[t].form)
         /\ tx'[t].pc \in {"erase", "check", "takeout"}
         /\ tx'[t].pc = "erase" => tx'[t].found = << >>
<1> DEFINE found == rows[tx[t].form.target]
<1>1. tx[t].pc = "find" /\ UNCHANGED <<tables, lock>>
  BY DEF FindRows
<1>2. /\ IsTx(tx[t]) /\ InPlace(tx[t]) /\ tx[t].form \in Forms[t] /\ HasTarget(tx[t].form)
      /\ tx = [u \in Requests |-> tx[u]]
  BY <1>1, UnderWay DEF Active, Fits
<1>3. PICK at \in {"erase", "check", "takeout"} :
        /\ tx' = [tx EXCEPT ![t].found = found, ![t].pc = at]
        /\ at = "erase" <=> found = << >>
  BY DEF FindRows, Found
<1>4. found \in Seq(Row)
  BY <1>2, FormTyped DEF LockInv
<1> HIDE DEF found
<1>5. tx'[t] = [tx[t] EXCEPT !.found = found, !.pc = at]
  BY <1>2, <1>3
<1>6. /\ tx'[t].pc = at /\ tx'[t].form = tx[t].form /\ tx'[t].undo = tx[t].undo
      /\ tx'[t].found = found /\ tx'[t].rows = tx[t].rows /\ tx'[t].missed = tx[t].missed
      /\ tx'[t].line = tx[t].line /\ IsTx(tx'[t])
  BY <1>2, <1>5 DEF IsTx
<1>7. /\ tx[t].line = 1 /\ DOMAIN tx[t].undo = {}
      /\ tx[t].rows = << >> /\ tx[t].missed = << >> /\ << >> \in Seq(Row)
  BY <1>1, <1>2 DEF InPlace
<1>8. at # "erase" => 1 \in 1..Len(found)
  BY <1>3, <1>4
<1>9. InPlace(tx'[t])
  BY <1>2, <1>4, <1>6, <1>7, <1>8 DEF InPlace
<1>10. tx' = [tx EXCEPT ![t] = tx'[t]]
  BY <1>3, <1>5
<1>11. Works(tx[t])
  BY <1>1, <1>2 DEF Works
<1> QED BY <1>1, <1>2, <1>3, <1>6, <1>7, <1>9, <1>10, <1>11 DEF found, tables, Quiet, OnlyTx,
  GoesOnOK

(* After a row: the next one, or on to another statement.                  *)
LEMMA RowAfter ==
  ASSUME NEW t \in Requests, InPlace(tx[t]),
         tx[t].pc \in {"check", "takeout"}, NEW again, NEW last, again # last
  PROVE  /\ Onward(t, again, last) \in {again, last}
         /\ Onward(t, again, last) = again =>
              /\ Step(t) = tx[t].line + 1 /\ Step(t) \in 1..Len(tx[t].found)
         /\ Onward(t, again, last) = last => Step(t) = 1 /\ tx[t].line = Len(tx[t].found)
         /\ 1 \in 1..Len(tx[t].found) /\ tx[t].line \in 1..Len(tx[t].found)
<1>1. tx[t].found \in Seq(Row) /\ tx[t].line \in 1..Len(tx[t].found) /\ Len(tx[t].found) \in Nat
  BY DEF InPlace
<1> QED BY <1>1 DEF Onward, Step

LEMMA CheckRowQuiet ==
  ASSUME LockInv, NEW t \in Requests, CheckRow(t)
  PROVE  \/ Rollback(t, "refused")
         \/ /\ Quiet(t) /\ GoesOnOK(t)
            /\ tx'[t].form = tx[t].form /\ tx'[t].found = tx[t].found
            /\ tx'[t].rows = << >> /\ tx'[t].missed = << >>
            /\ \/ tx'[t].pc = "check"
               \/ tx'[t].pc = "takeout" /\ tx'[t].line = 1
<1> SUFFICES ASSUME ~ Rollback(t, "refused")
             PROVE  /\ Quiet(t) /\ GoesOnOK(t)
                    /\ tx'[t].form = tx[t].form /\ tx'[t].found = tx[t].found
                    /\ tx'[t].rows = << >> /\ tx'[t].missed = << >>
                    /\ \/ tx'[t].pc = "check"
                       \/ tx'[t].pc = "takeout" /\ tx'[t].line = 1
  OBVIOUS
<1> DEFINE line == Step(t)
           at == Onward(t, "check", "takeout")
<1>1. /\ tx[t].pc = "check" /\ UNCHANGED <<tables, lock>>
      /\ tx' = [tx EXCEPT ![t].line = line, ![t].pc = at]
  BY DEF CheckRow
<1>2. /\ IsTx(tx[t]) /\ InPlace(tx[t]) /\ tx[t].form \in Forms[t] /\ HasTarget(tx[t].form)
      /\ tx = [u \in Requests |-> tx[u]]
  BY <1>1, UnderWay DEF Active, Fits
<1>3. \/ at = "check" /\ line \in 1..Len(tx[t].found)
      \/ at = "takeout" /\ line = 1 /\ line \in 1..Len(tx[t].found)
  BY <1>1, <1>2, RowAfter
<1> HIDE DEF line, at
<1>4. tx'[t] = [tx[t] EXCEPT !.line = line, !.pc = at]
  BY <1>1, <1>2
<1>5. /\ tx'[t].pc = at /\ tx'[t].form = tx[t].form /\ tx'[t].undo = tx[t].undo
      /\ tx'[t].found = tx[t].found /\ tx'[t].rows = tx[t].rows /\ tx'[t].missed = tx[t].missed
      /\ tx'[t].line = line /\ IsTx(tx'[t])
  BY <1>2, <1>4 DEF IsTx
<1>w. Works(tx[t])
  BY <1>1, <1>2 DEF Works
<1>6. InPlace(tx'[t])
  BY <1>1, <1>2, <1>3, <1>5 DEF InPlace
<1>7. tx' = [tx EXCEPT ![t] = tx'[t]]
  BY <1>1, <1>4
<1> QED BY <1>1, <1>2, <1>3, <1>5, <1>6, <1>7, <1>w DEF tables, Quiet, OnlyTx, GoesOnOK, InPlace

LEMMA TakeOutChanges ==
  ASSUME LockInv, NEW t \in Requests, TakeOut(t)
  PROVE  LET row == tx[t].found[tx[t].line]
         IN  /\ Changes(t, row.cell) /\ GoesOnOK(t) /\ row \in Row
             /\ balance'[row.cell] = OnHand(balance[row.cell]) - row.qty
             /\ tx'[t].form = tx[t].form /\ tx'[t].found = tx[t].found
             /\ tx'[t].rows = << >> /\ tx'[t].missed = << >>
             /\ \/ tx'[t].pc = "takeout" /\ tx'[t].line = tx[t].line + 1
                \/ tx'[t].pc = "erase" /\ tx[t].line = Len(tx[t].found)
<1> DEFINE row == tx[t].found[tx[t].line]
           c == row.cell
           undo == Undo(t, c)
           line == Step(t)
           at == Onward(t, "takeout", "erase")
<1>1. /\ tx[t].pc = "takeout" /\ ~ Waiting(t)
      /\ balance' = [balance EXCEPT ![c] = OnHand(balance[c]) - row.qty] /\ Lock(t, BalanceRow(c))
      /\ tx' = [tx EXCEPT ![t].undo = undo, ![t].line = line, ![t].pc = at]
      /\ UNCHANGED <<rows, booked>>
  BY DEF TakeOut, BalanceRow
<1>2. /\ IsTx(tx[t]) /\ InPlace(tx[t]) /\ tx[t].form \in Forms[t] /\ HasTarget(tx[t].form)
      /\ tx = [u \in Requests |-> tx[u]]
  BY <1>1, UnderWay DEF Active, Fits
<1>3. \/ at = "takeout" /\ line = tx[t].line + 1 /\ line \in 1..Len(tx[t].found)
      \/ at = "erase" /\ line = 1 /\ tx[t].line = Len(tx[t].found)
  <2>1. /\ at \in {"takeout", "erase"}
        /\ at = "takeout" => line = tx[t].line + 1 /\ line \in 1..Len(tx[t].found)
        /\ at = "erase" => line = 1 /\ tx[t].line = Len(tx[t].found)
    <3> HIDE DEF undo, row
    <3> QED BY <1>1, <1>2, RowAfter
  <2> HIDE DEF at, line
  <2> QED BY <2>1
<1>4. row \in Row
  BY <1>1, LineTyped
<1>5. c \in Cells /\ OnHand(balance[c]) - row.qty \in Int
  <2> HIDE DEF row
  <2>1. row.cell \in Cells /\ row.qty \in Int
    BY <1>4 DEF Row
  <2>2. balance[row.cell] \in Int \cup {NoRow}
    BY <2>1 DEF LockInv
  <2> QED BY <2>1, <2>2 DEF OnHand
<1>6. Free(t, BalanceRow(c))
  BY <1>1 DEF Waiting, Needs, BalanceRow
<1>7. balance'[c] = OnHand(balance[c]) - row.qty
  BY <1>1, <1>5 DEF LockInv
<1> HIDE DEF undo, line, at, c, row
<1>8. tx'[t] = [tx[t] EXCEPT !.undo = undo, !.line = line, !.pc = at]
  BY <1>1, <1>2
<1>9. /\ tx'[t].pc = at /\ tx'[t].form = tx[t].form /\ tx'[t].undo = undo
      /\ tx'[t].found = tx[t].found /\ tx'[t].rows = tx[t].rows /\ tx'[t].missed = tx[t].missed
      /\ tx'[t].line = line /\ IsTx(tx'[t])
  BY <1>2, <1>8 DEF IsTx
<1>10. InPlace(tx'[t])
  BY <1>1, <1>2, <1>3, <1>9 DEF InPlace
<1>11. tx' = [tx EXCEPT ![t] = tx'[t]]
  BY <1>1, <1>8
<1>12. Changes(t, c)
  BY <1>1, <1>5, <1>6, <1>7, <1>9, <1>11 DEF Changes, OnlyTx, undo
<1>13. GoesOnOK(t)
  BY <1>1, <1>2, <1>3, <1>9, <1>10 DEF GoesOnOK, Works
<1>14. tx[t].rows = << >> /\ tx[t].missed = << >>
  BY <1>1, <1>2 DEF InPlace
<1> QED BY <1>3, <1>4, <1>7, <1>9, <1>12, <1>13, <1>14 DEF c, row

LEMMA EraseQuiet ==
  ASSUME LockInv, NEW t \in Requests, Erase(t)
  PROVE  \/ Rollback(t, "failed")
         \/ /\ Quiet(t) /\ GoesOnOK(t)
            /\ \E at \in {"commit", "read"} : tx'[t] = [tx[t] EXCEPT !.pc = at]
<1> SUFFICES ASSUME ~ Rollback(t, "failed")
             PROVE  /\ Quiet(t) /\ GoesOnOK(t)
                    /\ \E at \in {"commit", "read"} : tx'[t] = [tx[t] EXCEPT !.pc = at]
  OBVIOUS
<1>1. tx[t].pc = "erase" /\ UNCHANGED tables /\ Lock(t, <<"doc", tx[t].form.target>>)
  BY DEF Erase
<1>2. /\ IsTx(tx[t]) /\ InPlace(tx[t]) /\ tx[t].form \in Forms[t] /\ HasTarget(tx[t].form)
      /\ tx = [u \in Requests |-> tx[u]]
  BY <1>1, UnderWay DEF Active, Fits
<1>3. PICK at \in {"commit", "read"} :
        /\ tx' = [tx EXCEPT ![t].pc = at]
        /\ at = "read" => ~ Deletes(tx[t].form)
  BY DEF Erase
<1>4. tx'[t] = [tx[t] EXCEPT !.pc = at]
  BY <1>2, <1>3
<1>5. /\ tx'[t].pc = at /\ tx'[t].form = tx[t].form /\ tx'[t].undo = tx[t].undo
      /\ tx'[t].found = tx[t].found /\ tx'[t].rows = tx[t].rows /\ tx'[t].missed = tx[t].missed
      /\ tx'[t].line = tx[t].line /\ IsTx(tx'[t])
  BY <1>2, <1>4 DEF IsTx
<1>6. tx[t].line = 1 /\ (at = "read" => 1 \in 1..Len(tx[t].form.lines))
  BY <1>1, <1>2, <1>3, FormTyped DEF InPlace
<1>7. InPlace(tx'[t])
  BY <1>1, <1>2, <1>5, <1>6 DEF InPlace
<1>8. tx' = [tx EXCEPT ![t] = tx'[t]]
  BY <1>3, <1>4
<1>9. \A c \in Cells : lock'[BalanceRow(c)] = lock[BalanceRow(c)]
  BY <1>1, BalanceRows DEF Lock, LockInv, NumberInv
<1>10. Works(tx[t])
  BY <1>1, <1>2 DEF Works
<1> QED BY <1>1, <1>2, <1>4, <1>5, <1>7, <1>8, <1>9, <1>10 DEF tables, Quiet, OnlyTx, GoesOnOK

-----------------------------------------------------------------------------
(* A step begins a request, is one of its statements, or ends it.          *)
Ends(t) == /\ tx[t].pc # "committed"
           /\ \E how \in {"refused", "failed"} : Rollback(t, how)
LEMMA StepSorted ==
  ASSUME LockInv, [Next]_vars
  PROVE  \/ UNCHANGED vars
         \/ \E t \in Requests : \E form \in Forms[t] : Begin(t, form)
         \/ \E t \in Requests : Statement(t)
         \/ \E t \in Requests : Ends(t)
<1>1. ASSUME NEW t \in Requests, Fail(t)
      PROVE  Ends(t)
  BY <1>1 DEF Fail, Active, Ends
<1>2. ASSUME NEW t \in Requests, Victim(t)
      PROVE  Ends(t)
  BY <1>2 DEF Victim, Deadlocked, Waiting, Ends
<1> QED BY <1>1, <1>2 DEF Next

LEMMA StatementSorted ==
  ASSUME LockInv, NEW t \in Requests, Statement(t)
  PROVE  StepOK(t) \/ Ends(t) \/ Commit(t)
<1>1. NextNumber(t) => StepOK(t)
  BY NextNumberQuiet DEF StepOK
<1>r. RackOut(t) => StepOK(t) \/ Ends(t)
  BY RackOutQuiet DEF StepOK, Ends, RackOut
<1>i. RackIn(t) => StepOK(t)
  BY RackInQuiet DEF StepOK
<1>2. ReadBalance(t) => StepOK(t) \/ Ends(t)
  BY ReadBalanceQuiet DEF StepOK, Ends, ReadBalance
<1>3. WriteBalance(t) => StepOK(t) \/ Ends(t)
  <2> SUFFICES ASSUME WriteBalance(t)
               PROVE  StepOK(t) \/ Ends(t)
    OBVIOUS
  <2>1. Cell(t) \in Cells /\ tx[t].pc # "committed"
    BY LineTyped DEF WriteBalance
  <2> QED BY <2>1, WriteBalanceChanges DEF StepOK, Ends
<1>4. ReadHeader(t) => StepOK(t) \/ Ends(t)
  BY ReadHeaderQuiet DEF StepOK, Ends, ReadHeader
<1>5. FindRows(t) => StepOK(t)
  BY FindRowsQuiet DEF StepOK
<1>6. CheckRow(t) => StepOK(t) \/ Ends(t)
  BY CheckRowQuiet DEF StepOK, Ends, CheckRow
<1>7. TakeOut(t) => StepOK(t)
  <2> SUFFICES ASSUME TakeOut(t)
               PROVE  StepOK(t)
    OBVIOUS
  <2> DEFINE row == tx[t].found[tx[t].line]
  <2>1. Changes(t, row.cell) /\ GoesOnOK(t) /\ row \in Row
    BY TakeOutChanges
  <2> HIDE DEF row
  <2>2. row.cell \in Cells
    BY <2>1 DEF Row
  <2> QED BY <2>1, <2>2 DEF StepOK
<1>8. Erase(t) => StepOK(t) \/ Ends(t)
  BY EraseQuiet DEF StepOK, Ends, Erase
<1> QED BY <1>1, <1>r, <1>i, <1>2, <1>3, <1>4, <1>5, <1>6, <1>7, <1>8 DEF Statement

LEMMA LockStep == LockInv /\ [Next]_vars => LockInv'
<1> SUFFICES ASSUME LockInv, [Next]_vars
             PROVE  LockInv'
  OBVIOUS
<1>1. NumberInv'
  BY NumberStep DEF LockInv
<1>2. ASSUME NEW t \in Requests, StepOK(t)
      PROVE  LockInv'
  BY <1>1, <1>2, QuietKeepsLocks, ChangeKeepsLocks DEF StepOK
<1>3. ASSUME NEW t \in Requests, Ends(t)
      PROVE  LockInv'
  BY <1>1, <1>3, RollbackKeepsLocks DEF Ends
<1>4. ASSUME NEW t \in Requests, NEW form \in Forms[t], Begin(t, form)
      PROVE  LockInv'
  BY <1>1, <1>4, BeginQuiet, QuietKeepsLocks
<1>5. ASSUME NEW t \in Requests, Statement(t)
      PROVE  LockInv'
  BY <1>1, <1>2, <1>3, <1>5, StatementSorted, CommitKeepsLocks
<1>6. CASE UNCHANGED vars
  <2>1. UNCHANGED <<balance, rows, booked, lock, tx>>
    BY <1>6 DEF vars, tables
  <2>2. \A t \in Requests : RequestOK(t)'
    <3>1. \A t \in Requests : PaperOK(t)'
      BY <2>1 DEF LockInv, RequestOK, PaperOK, Ever
    <3> QED BY <2>1, <3>1, OthersKept
  <2> QED BY <1>1, <2>1, <2>2 DEF LockInv
<1> QED BY <1>3, <1>4, <1>5, <1>6, StepSorted

LEMMA LockInit == Init => LockInv
<1> SUFFICES ASSUME Init
             PROVE  LockInv
  OBVIOUS
<1>1. NumberInv
  BY NumberInit
<1>2. /\ balance \in [Cells -> Int \cup {NoRow}] /\ rows \in [Docs -> Seq(Row)]
      /\ booked \subseteq Docs
  <2>1. << >> \in Seq(Row)
    OBVIOUS
  <2> QED BY <2>1, TransactionConstants DEF Init, Docs
<1>3. ASSUME NEW t \in Requests
      PROVE  RequestOK(t)
  <2>1. /\ tx[t].pc = "idle" /\ tx[t].found = << >> /\ tx[t].rows = << >> /\ tx[t].missed = << >>
        /\ tx[t].line = 1 /\ tx[t].undo = << >>
    BY DEF Init, Fresh
  <2>2. InPlace(tx[t])
    BY <2>1 DEF InPlace
  <2>3. LocksOK(t)
    BY <2>1, BalanceRows, TransactionConstants DEF LocksOK, Holds, Init
  <2>4. PaperOK(t)
    BY <2>1, TransactionConstants DEF PaperOK, Init, Docs, Works
  <2> QED BY <2>1, <2>2, <2>3, <2>4 DEF RequestOK, Begun
<1> QED BY <1>1, <1>2, <1>3 DEF LockInv

-----------------------------------------------------------------------------
(* What everyone else sees of a cell changes only when a request that has  *)
(* changed it commits.                                                     *)
Stands == \A c \in Cells : Committed(c)' = Committed(c)

LEMMA CellLocks ==
  ASSUME LockInv, NEW c \in Cells
  PROVE  /\ lock[BalanceRow(c)] \in Requests \cup {Nobody} /\ Nobody \notin Requests
         /\ \A t \in Requests : lock[BalanceRow(c)] = t <=> Holds(t, c)
         /\ Committed(c) = IF lock[BalanceRow(c)] = Nobody THEN OnHand(balance[c])
                           ELSE OnHand(tx[lock[BalanceRow(c)]].undo[c])
<1>1. Committed(c) = IF lock[BalanceRow(c)] = Nobody THEN OnHand(balance[c])
                     ELSE OnHand(tx[lock[BalanceRow(c)]].undo[c])
  BY DEF Committed, BalanceRow
<1>2. \A t \in Requests : lock[BalanceRow(c)] = t <=> Holds(t, c)
  BY DEF LockInv, RequestOK, LocksOK
<1> QED BY <1>1, <1>2, BalanceRows, TransactionConstants DEF LockInv, NumberInv

LEMMA CommittedThen ==
  ASSUME NEW c \in Cells
  PROVE  Committed(c)' = IF lock'[BalanceRow(c)] = Nobody THEN OnHand(balance'[c])
                         ELSE OnHand(tx'[lock'[BalanceRow(c)]].undo[c])
BY DEF Committed, BalanceRow, OnHand

LEMMA QuietStands ==
  ASSUME LockInv, NEW t \in Requests, Quiet(t)
  PROVE  Stands
<1> SUFFICES ASSUME NEW c \in Cells
             PROVE  Committed(c)' = Committed(c)
  BY DEF Stands
<1>1. \A u \in Requests : tx'[u].undo = tx[u].undo
  BY OnlyTxOthers DEF Quiet
<1> QED BY <1>1, CellLocks, CommittedThen DEF Quiet

LEMMA ChangeStands ==
  ASSUME LockInv, NEW t \in Requests, NEW c \in Cells, Changes(t, c)
  PROVE  Stands
<1> SUFFICES ASSUME NEW d \in Cells
             PROVE  Committed(d)' = Committed(d)
  BY DEF Stands
<1>1. \A u \in Requests : u # t => tx'[u] = tx[u]
  BY OnlyTxOthers DEF Changes
<1>2. tx'[t].undo = Undo(t, c)
  BY DEF Changes
<1> DEFINE undo == Undo(t, c)
<1>u. /\ \A e \in DOMAIN tx[t].undo : undo[e] = tx[t].undo[e]
      /\ c \notin DOMAIN tx[t].undo => undo[c] = balance[c]
  BY UndoFacts DEF Holds
<1> HIDE DEF undo
<1>3. CASE d = c
  <2>1. lock'[BalanceRow(c)] = t /\ lock[BalanceRow(c)] \in {Nobody, t}
    BY ChangedLocks
  <2>2. Committed(c)' = OnHand(undo[c])
    BY <1>2, <2>1, CommittedThen, TransactionConstants DEF undo
  <2> QED BY <1>3, <1>u, <2>1, <2>2, CellLocks DEF Holds
<1>4. CASE d # c
  <2>1. lock'[BalanceRow(d)] = lock[BalanceRow(d)] /\ balance'[d] = balance[d]
    BY <1>4, ChangedLocks DEF Changes, LockInv
  <2>2. Holds(t, d) => tx'[t].undo[d] = tx[t].undo[d]
    BY <1>2, <1>u DEF Holds, undo
  <2> QED BY <1>1, <2>1, <2>2, CellLocks, CommittedThen
<1> QED BY <1>3, <1>4

LEMMA RestoredCells ==
  ASSUME LockInv, NEW t \in Requests, NEW how, Rollback(t, how), NEW c \in Cells
  PROVE  /\ Holds(t, c) => balance'[c] = tx[t].undo[c]
         /\ ~ Holds(t, c) => balance'[c] = balance[c]
BY DEF Rollback, Restored, Holds

LEMMA EndStands ==
  ASSUME LockInv, NEW t \in Requests, Ends(t)
  PROVE  Stands
<1> SUFFICES ASSUME NEW c \in Cells
             PROVE  Committed(c)' = Committed(c)
  BY DEF Stands
<1>1. PICK how \in {"refused", "failed"} : Rollback(t, how)
  BY DEF Ends
<1>2. /\ \A u \in Requests : u # t => tx'[u] = tx[u]
      /\ lock'[BalanceRow(c)] =
           IF lock[BalanceRow(c)] = t THEN Nobody ELSE lock[BalanceRow(c)]
  BY <1>1, Released DEF Rollback, End, LockInv, NumberInv
<1> QED BY <1>1, <1>2, CellLocks, CommittedThen, RestoredCells

LEMMA CommitMoves ==
  ASSUME LockInv, NEW t \in Requests, Commit(t), NEW c \in Cells
  PROVE  Committed(c)' = IF Holds(t, c) THEN OnHand(balance[c]) ELSE Committed(c)
<1>1. /\ \A u \in Requests : u # t => tx'[u] = tx[u]
      /\ lock'[BalanceRow(c)] =
           IF lock[BalanceRow(c)] = t THEN Nobody ELSE lock[BalanceRow(c)]
      /\ UNCHANGED balance
  BY Released DEF Commit, LockInv, NumberInv
<1> QED BY <1>1, CellLocks, CommittedThen

-----------------------------------------------------------------------------
(* What a transaction has done to its cells so far: each is away from what *)
(* it was by the rows posted and the rows taken out up to now, and by what *)
(* its counts have overwritten.                                            *)
Taken(q) ==
  IF q.pc = "takeout" THEN q.line - 1
  ELSE IF q.pc \in {"erase", "read", "write", "commit"} THEN Len(q.found) ELSE 0
Done(q, c) == Net(q.rows, c) - NetUpto(q.found, Taken(q), c) + Net(q.missed, c)
DoneSoFar(q, b) ==
  \A c \in Cells : IF c \in DOMAIN q.undo THEN OnHand(b[c]) = OnHand(q.undo[c]) + Done(q, c)
                   ELSE Done(q, c) = 0
ProgressInv == \A t \in Requests : Active(t) => DoneSoFar(tx[t], balance)

(* The sums of a transaction's rows.                                       *)
LEMMA RowsAdd ==
  ASSUME NEW r \in Seq(Row), NEW c
  PROVE  /\ NetUpto(r, 0, c) = 0 /\ NetUpto(r, Len(r), c) = Net(r, c) /\ Net(r, c) \in Int
         /\ \A m \in 1..Len(r) :
              /\ NetUpto(r, m, c) = NetUpto(r, m - 1, c) + Into(r[m], c)
              /\ NetUpto(r, m, c) \in Int /\ NetUpto(r, m - 1, c) \in Int
BY NetStepwise, NetTyped DEF Row, Rows

LEMMA RowAdds ==
  ASSUME NEW r \in Seq(Row), NEW row \in Row, NEW c
  PROVE  Net(Append(r, row), c) = Net(r, c) + Into(row, c)
<1>1. Seq(Row) = Seq(Rows(Cells)) /\ Row = Rows(Cells)
  BY DEF Row, Rows
<1>2. r \in Seq(Rows(Cells)) /\ row \in Rows(Cells)
  BY <1>1
<1> QED BY <1>2, NetAppend

LEMMA DoneTyped ==
  ASSUME NEW q, InPlace(q), NEW c
  PROVE  /\ Done(q, c) \in Int /\ Net(q.rows, c) \in Int /\ Net(q.missed, c) \in Int
         /\ NetUpto(q.found, Taken(q), c) \in Int
<1>1. q.found \in Seq(Row) /\ Len(q.found) \in Nat /\ q.rows \in Seq(Row) /\ q.missed \in Seq(Row)
  BY DEF InPlace
<1>2. /\ Net(q.found, c) \in Int /\ NetUpto(q.found, 0, c) = 0
      /\ NetUpto(q.found, Len(q.found), c) = Net(q.found, c)
      /\ Net(q.rows, c) \in Int /\ Net(q.missed, c) \in Int
  BY <1>1, RowsAdd
<1>3. q.pc = "takeout" => NetUpto(q.found, q.line - 1, c) \in Int
  BY <1>1, RowsAdd DEF InPlace
<1>4. NetUpto(q.found, Taken(q), c) \in Int
  BY <1>2, <1>3 DEF Taken
<1> QED BY <1>2, <1>4 DEF Done

(* Other requests' transactions have done what they had.                   *)
LEMMA OthersProgress ==
  ASSUME LockInv, ProgressInv, NEW t \in Requests, NEW u \in Requests, u # t,
         StepOK(t) \/ Ends(t) \/ Commit(t)
  PROVE  Active(u)' => DoneSoFar(tx'[u], balance')
<1>1. tx'[u] = tx[u]
  BY OnlyTxOthers DEF StepOK, Quiet, Changes, Ends, Rollback, End, Commit, LockInv, NumberInv
<1>2. ASSUME NEW c \in DOMAIN tx[u].undo
      PROVE  balance'[c] = balance[c]
  <2>1. c \in Cells /\ Holds(u, c)
    BY DEF LockInv, RequestOK, LocksOK, Holds
  <2>2. ~ Holds(t, c) /\ lock[BalanceRow(c)] = u
    BY <2>1, CellLocks
  <2>3. CASE Quiet(t) \/ Commit(t)
    BY <2>3 DEF Quiet, Commit
  <2>4. ASSUME NEW d \in Cells, Changes(t, d)
        PROVE  balance'[c] = balance[c]
    <3>1. c # d
      BY <2>2, <2>4, ChangedLocks, TransactionConstants
    <3> QED BY <2>1, <2>4, <3>1 DEF Changes, LockInv
  <2>5. CASE Ends(t)
    BY <2>1, <2>2, <2>5, RestoredCells DEF Ends
  <2> QED BY <2>3, <2>4, <2>5 DEF StepOK
<1>3. Active(u) => DoneSoFar(tx[u], balance)
  BY DEF ProgressInv
<1> QED BY <1>1, <1>2, <1>3 DEF DoneSoFar, Active

(* A step that posts and takes out nothing.                                *)
LEMMA SameDone ==
  ASSUME NEW q, NEW r, NEW b, DoneSoFar(q, b), r.undo = q.undo,
         r.rows = q.rows, r.found = q.found, r.missed = q.missed, Taken(r) = Taken(q)
  PROVE  DoneSoFar(r, b)
<1>1. \A c : Done(r, c) = Done(q, c)
  BY DEF Done
<1> QED BY <1>1 DEF DoneSoFar

LEMMA NothingDone ==
  ASSUME NEW q, NEW b, InPlace(q), DOMAIN q.undo = {}, Taken(q) = 0,
         q.rows = << >>, q.missed = << >>
  PROVE  DoneSoFar(q, b)
<1>1. \A c : NetUpto(q.found, 0, c) = 0 /\ Net(<< >>, c) = 0
  BY RowsAdd, NetEmpty DEF InPlace
<1>2. \A c : Done(q, c) = 0
  BY <1>1 DEF Done
<1> QED BY <1>2 DEF DoneSoFar

(* A statement before the first line or row.                               *)
LEMMA NotYetDone ==
  ASSUME NEW q, NEW b, InPlace(q), DOMAIN q.undo = {}, q.found = << >>,
         q.rows = << >>, q.missed = << >>, q.pc # "takeout"
  PROVE  DoneSoFar(q, b)
BY NothingDone DEF Taken

LEMMA BeginDone ==
  ASSUME LockInv, NEW t \in Requests, NEW form \in Forms[t], Begin(t, form)
  PROVE  DoneSoFar(tx'[t], balance')
<1>1. GoesOnOK(t)
  BY BeginQuiet
<1>2. tx'[t].pc \in {"number", "header", "rackout"}
  BY BeginQuiet
<1> QED BY <1>1, <1>2, NotYetDone DEF GoesOnOK, InPlace

LEMMA WriteDone ==
  ASSUME LockInv, NEW t \in Requests, WriteBalance(t), DoneSoFar(tx[t], balance),
         Changes(t, Cell(t)), GoesOnOK(t), balance'[Cell(t)] = Written(t),
         tx'[t].form = tx[t].form, tx'[t].found = tx[t].found,
         tx'[t].rows = Booked(t), tx'[t].missed = Overwritten(t),
         tx'[t].pc \in {"read", "commit"}
  PROVE  DoneSoFar(tx'[t], balance')
<1> DEFINE c == Cell(t)
           line == tx[t].form.lines[tx[t].line]
           old == tx[t].rows
           was == tx[t].missed
           off == IF tx[t].form.kind = "Count" THEN OnHand(tx[t].seen) - OnHand(balance[c]) ELSE 0
<1>1. /\ tx[t].pc = "write" /\ InPlace(tx[t]) /\ old \in Seq(Row) /\ was \in Seq(Row)
      /\ DOMAIN tx[t].undo \subseteq Cells
      /\ tx[t].form.kind = "Count" => OnHand(tx[t].seen) \in Int
  <2>1. tx[t].pc = "write" /\ Active(t)
    BY DEF WriteBalance, Active
  <2>2. InPlace(tx[t]) /\ old \in Seq(Row) /\ was \in Seq(Row)
    BY <2>1, UnderWay DEF InPlace
  <2>3. /\ DOMAIN tx[t].undo \subseteq Cells
        /\ tx[t].form.kind = "Count" => OnHand(tx[t].seen) \in Int
    BY <2>1, UnderWay DEF InPlace, LockInv, RequestOK, LocksOK, OnHand
  <2> QED BY <2>1, <2>2, <2>3
<1>2. /\ c \in Cells /\ Written(t) \in Int /\ Posted(t) \in Row /\ Posted(t).cell = c
      /\ line \in Row /\ c = line.cell
  BY <1>1, LineTyped DEF Cell
<1>3. Posted(t).qty \in Int /\ line.qty \in Int /\ OnHand(balance[c]) \in Int /\ off \in Int
  <2> HIDE DEF line, c
  <2>1. Posted(t).qty \in Int /\ line.qty \in Int
    BY <1>2 DEF Row
  <2>2. OnHand(balance[c]) \in Int
    BY <1>2 DEF LockInv, OnHand
  <2> QED BY <1>1, <2>1, <2>2
<1>4. Written(t) = OnHand(balance[c]) + Posted(t).qty + off
  <2>1. CASE tx[t].form.kind = "Count"
    <3>1. Written(t) = line.qty /\ off = OnHand(tx[t].seen) - OnHand(balance[c])
      BY <2>1 DEF Written
    <3>2. Posted(t).qty = line.qty - OnHand(tx[t].seen)
      <4> HIDE DEF line
      <4>1. line = [cell |-> line.cell, qty |-> line.qty]
        BY <1>2 DEF Row
      <4>2. Posted(t) = [line EXCEPT !.qty = @ - OnHand(tx[t].seen)]
        BY <2>1 DEF Posted, line
      <4> QED BY <4>1, <4>2
    <3> HIDE DEF line, c, off
    <3> QED BY <1>1, <1>3, <2>1, <3>1, <3>2
  <2>2. CASE tx[t].form.kind # "Count"
    <3>1. Written(t) = OnHand(balance[line.cell]) + line.qty /\ Posted(t) = line /\ off = 0
      BY <2>2 DEF Written, Posted
    <3>2. OnHand(balance[line.cell]) = OnHand(balance[c])
      BY <1>2
    <3> HIDE DEF line, c, off
    <3> QED BY <1>3, <3>1, <3>2
  <2> QED BY <2>1, <2>2
<1>5. \A d : Net(Booked(t), d) = Net(old, d) + Into(Posted(t), d) /\ Net(old, d) \in Int
  <2> SUFFICES ASSUME NEW d
               PROVE  Net(Booked(t), d) = Net(old, d) + Into(Posted(t), d) /\ Net(old, d) \in Int
    OBVIOUS
  <2>1. Net(old, d) \in Int
    BY <1>1, RowsAdd
  <2>2. CASE Booked(t) = Append(old, Posted(t))
    <3> HIDE DEF old, line, c
    <3>1. Net(Append(old, Posted(t)), d) = Net(old, d) + Into(Posted(t), d)
      BY <1>1, <1>2, RowAdds
    <3> QED BY <2>1, <2>2, <3>1
  <2>3. CASE Booked(t) = old /\ Posted(t).qty = 0
    BY <2>1, <2>3 DEF Into
  <2> QED BY <2>2, <2>3 DEF Booked
<1>6. \A d : /\ Net(Overwritten(t), d) = Net(was, d) + (IF d = c THEN off ELSE 0)
             /\ Net(was, d) \in Int
  <2> SUFFICES ASSUME NEW d
               PROVE  /\ Net(Overwritten(t), d) = Net(was, d) + (IF d = c THEN off ELSE 0)
                      /\ Net(was, d) \in Int
    OBVIOUS
  <2>1. Net(was, d) \in Int
    BY <1>1, RowsAdd
  <2>2. CASE tx[t].form.kind = "Count" /\ OnHand(tx[t].seen) # OnHand(balance[c])
    <3>0. off = OnHand(tx[t].seen) - OnHand(balance[c])
      BY <2>2
    <3> DEFINE gap == [cell |-> c, qty |-> off]
    <3>1. Overwritten(t) = Append(was, gap)
      BY <2>2, <3>0 DEF Overwritten
    <3>2. gap \in Row /\ gap.cell = c /\ gap.qty = off
      BY <1>2, <1>3 DEF Row
    <3> HIDE DEF gap, was, off, c
    <3>3. Net(Append(was, gap), d) = Net(was, d) + Into(gap, d)
      BY <1>1, <3>2, RowAdds
    <3>4. Into(gap, d) = IF d = c THEN off ELSE 0
      BY <3>2 DEF Into
    <3> QED BY <2>1, <3>1, <3>3, <3>4
  <2>3. CASE ~ (tx[t].form.kind = "Count" /\ OnHand(tx[t].seen) # OnHand(balance[c]))
    <3>1. Overwritten(t) = was
      BY <2>3 DEF Overwritten
    <3>2. off = 0
      BY <1>1, <1>3, <2>3
    <3> QED BY <2>1, <3>1, <3>2
  <2> QED BY <2>2, <2>3
<1> DEFINE taken(d) == NetUpto(tx[t].found, Taken(tx[t]), d)
<1>7. \A d : /\ Done(tx[t], d) = Net(old, d) - taken(d) + Net(was, d)
             /\ Done(tx'[t], d) = Net(Booked(t), d) - taken(d) + Net(Overwritten(t), d)
             /\ taken(d) \in Int
  <2>1. Taken(tx'[t]) = Taken(tx[t])
    BY <1>1 DEF Taken
  <2>2. \A d : taken(d) \in Int
    BY <1>1, DoneTyped
  <2> QED BY <2>1, <2>2 DEF Done
<1> HIDE DEF old, was, line, c, off, taken
<1>8. \A d : Done(tx'[t], d) = Done(tx[t], d) + Into(Posted(t), d) + (IF d = c THEN off ELSE 0)
  <2> SUFFICES ASSUME NEW d
               PROVE  Done(tx'[t], d)
                        = Done(tx[t], d) + Into(Posted(t), d) + (IF d = c THEN off ELSE 0)
    OBVIOUS
  <2>1. Into(Posted(t), d) \in Int
    BY <1>3 DEF Into
  <2> QED BY <1>3, <1>5, <1>6, <1>7, <2>1
<1> DEFINE undo == Undo(t, c)
<1>u. /\ \A e \in DOMAIN tx[t].undo : undo[e] = tx[t].undo[e]
      /\ DOMAIN undo = DOMAIN tx[t].undo \cup {c}
      /\ c \notin DOMAIN tx[t].undo => undo[c] = balance[c]
  BY <1>2, UndoFacts DEF Holds
<1> HIDE DEF undo
<1>9. tx'[t].undo = undo /\ balance'[c] = Written(t)
  BY DEF Changes, c, undo
<1>10. ASSUME NEW d \in Cells, d # c
       PROVE  /\ balance'[d] = balance[d]
              /\ d \in DOMAIN undo <=> d \in DOMAIN tx[t].undo
              /\ d \in DOMAIN tx[t].undo => undo[d] = tx[t].undo[d]
              /\ Done(tx'[t], d) = Done(tx[t], d)
  <2>1. Into(Posted(t), d) = 0 /\ Done(tx[t], d) \in Int
    BY <1>1, <1>2, <1>10, DoneTyped DEF Into
  <2>2. Done(tx'[t], d) = Done(tx[t], d)
    BY <1>8, <1>10, <2>1
  <2> QED BY <1>2, <1>10, <2>2, <1>u DEF Changes, LockInv, c
<1>11. /\ c \in DOMAIN undo
       /\ OnHand(balance'[c]) = OnHand(undo[c]) + Done(tx'[t], c)
  <2>1. Done(tx'[t], c) = Done(tx[t], c) + Posted(t).qty + off /\ Done(tx[t], c) \in Int
    BY <1>1, <1>2, <1>8, DoneTyped DEF Into
  <2>2. OnHand(balance'[c]) = OnHand(balance[c]) + Posted(t).qty + off
    BY <1>2, <1>4, <1>9, TransactionConstants DEF OnHand
  <2>3. CASE c \in DOMAIN tx[t].undo
    <3>1. undo[c] = tx[t].undo[c] /\ c \in DOMAIN undo
      BY <1>2, <1>u, <2>3
    <3>2. OnHand(balance[c]) = OnHand(tx[t].undo[c]) + Done(tx[t], c)
      BY <1>2, <2>3 DEF DoneSoFar
    <3>3. OnHand(tx[t].undo[c]) \in Int
      BY <2>3 DEF LockInv, RequestOK, LocksOK, OnHand
    <3> QED BY <1>3, <2>1, <2>2, <3>1, <3>2, <3>3
  <2>4. CASE c \notin DOMAIN tx[t].undo
    <3>1. undo[c] = balance[c] /\ c \in DOMAIN undo
      BY <1>2, <1>u, <2>4
    <3>2. Done(tx[t], c) = 0
      BY <1>2, <2>4 DEF DoneSoFar
    <3> QED BY <1>3, <2>1, <2>2, <3>1, <3>2
  <2> QED BY <2>3, <2>4
<1>12. ASSUME NEW d \in Cells
       PROVE  IF d \in DOMAIN tx'[t].undo
              THEN OnHand(balance'[d]) = OnHand(tx'[t].undo[d]) + Done(tx'[t], d)
              ELSE Done(tx'[t], d) = 0
  <2>1. CASE d = c
    BY <1>9, <1>11, <2>1
  <2>2. CASE d # c
    BY <1>9, <1>10, <2>2 DEF DoneSoFar
  <2> QED BY <2>1, <2>2
<1> QED BY <1>12 DEF DoneSoFar

LEMMA TakeOutDone ==
  ASSUME LockInv, NEW t \in Requests, TakeOut(t), DoneSoFar(tx[t], balance)
  PROVE  DoneSoFar(tx'[t], balance')
<1> DEFINE row == tx[t].found[tx[t].line]
           c == row.cell
           r == tx[t].found
           m == tx[t].line
<1>1. /\ tx[t].pc = "takeout" /\ r \in Seq(Row) /\ m \in 1..Len(r) /\ r[m] = row
      /\ tx[t].rows = << >> /\ tx[t].missed = << >>
  BY UnderWay DEF TakeOut, Active, InPlace
<1>2. /\ Changes(t, c) /\ row \in Row /\ balance'[c] = OnHand(balance[c]) - row.qty
      /\ tx'[t].found = r /\ tx'[t].rows = << >> /\ tx'[t].missed = << >>
      /\ \/ tx'[t].pc = "takeout" /\ tx'[t].line = m + 1
         \/ tx'[t].pc = "erase" /\ m = Len(r)
  BY TakeOutChanges
<1> HIDE DEF row, r, m
<1>3. c \in Cells /\ row.qty \in Int
  BY <1>2 DEF Row
<1>4. OnHand(balance[c]) \in Int
  BY <1>3 DEF LockInv, OnHand
<1>5. Taken(tx[t]) = m - 1 /\ Taken(tx'[t]) = m
  BY <1>1, <1>2 DEF Taken, m
<1>6. \A d : /\ NetUpto(r, m, d) = NetUpto(r, m - 1, d) + Into(row, d)
             /\ NetUpto(r, m, d) \in Int /\ NetUpto(r, m - 1, d) \in Int
  BY <1>1, RowsAdd
<1>7. \A d : /\ Done(tx[t], d) = 0 - NetUpto(r, m - 1, d)
             /\ Done(tx'[t], d) = 0 - NetUpto(r, m, d)
  <2>1. \A d : Net(<< >>, d) = 0
    BY NetEmpty
  <2> QED BY <1>1, <1>2, <1>5, <1>6, <2>1 DEF Done, r
<1> HIDE DEF c
<1> DEFINE undo == Undo(t, c)
<1>u. /\ \A e \in DOMAIN tx[t].undo : undo[e] = tx[t].undo[e]
      /\ DOMAIN undo = DOMAIN tx[t].undo \cup {c}
      /\ c \notin DOMAIN tx[t].undo => undo[c] = balance[c]
  BY <1>3, UndoFacts DEF Holds
<1> HIDE DEF undo
<1>8. tx'[t].undo = undo
  BY <1>2 DEF Changes, undo
<1>9. ASSUME NEW d \in Cells, d # c
      PROVE  /\ balance'[d] = balance[d]
             /\ d \in DOMAIN undo <=> d \in DOMAIN tx[t].undo
             /\ d \in DOMAIN tx[t].undo => undo[d] = tx[t].undo[d]
             /\ Done(tx'[t], d) = Done(tx[t], d)
  <2>1. Into(row, d) = 0
    BY <1>9 DEF Into, c
  <2>2. Done(tx'[t], d) = Done(tx[t], d)
    BY <1>6, <1>7, <2>1
  <2> QED BY <1>2, <1>3, <1>9, <2>2, <1>u DEF Changes, LockInv
<1>10. /\ c \in DOMAIN undo
       /\ OnHand(balance'[c]) = OnHand(undo[c]) + Done(tx'[t], c)
  <2>1. Into(row, c) = row.qty
    BY DEF Into, c
  <2>2. Done(tx'[t], c) = Done(tx[t], c) - row.qty /\ Done(tx[t], c) \in Int
    BY <1>3, <1>6, <1>7, <2>1
  <2>3. OnHand(balance'[c]) = OnHand(balance[c]) - row.qty
    BY <1>2, <1>3, <1>4, TransactionConstants DEF OnHand
  <2>4. CASE c \in DOMAIN tx[t].undo
    <3>1. undo[c] = tx[t].undo[c] /\ c \in DOMAIN undo
      BY <1>3, <1>u, <2>4
    <3>2. OnHand(balance[c]) = OnHand(tx[t].undo[c]) + Done(tx[t], c)
      BY <1>3, <2>4 DEF DoneSoFar
    <3>3. OnHand(tx[t].undo[c]) \in Int
      BY <2>4 DEF LockInv, RequestOK, LocksOK, OnHand
    <3> QED BY <1>3, <1>4, <2>2, <2>3, <3>1, <3>2, <3>3
  <2>5. CASE c \notin DOMAIN tx[t].undo
    <3>1. undo[c] = balance[c] /\ c \in DOMAIN undo
      BY <1>3, <1>u, <2>5
    <3>2. Done(tx[t], c) = 0
      BY <1>3, <2>5 DEF DoneSoFar
    <3> QED BY <1>3, <1>4, <2>2, <2>3, <3>1, <3>2
  <2> QED BY <2>4, <2>5
<1>11. ASSUME NEW d \in Cells
       PROVE  IF d \in DOMAIN tx'[t].undo
              THEN OnHand(balance'[d]) = OnHand(tx'[t].undo[d]) + Done(tx'[t], d)
              ELSE Done(tx'[t], d) = 0
  <2>1. CASE d = c
    BY <1>8, <1>10, <2>1
  <2>2. CASE d # c
    BY <1>8, <1>9, <2>2 DEF DoneSoFar
  <2> QED BY <2>1, <2>2
<1> QED BY <1>11 DEF DoneSoFar

LEMMA StatementProgress ==
  ASSUME LockInv, ProgressInv, NEW t \in Requests, Statement(t), Active(t)'
  PROVE  DoneSoFar(tx'[t], balance')
<1>0. Active(t) => DoneSoFar(tx[t], balance) /\ InPlace(tx[t]) /\ IsTx(tx[t])
  BY UnderWay DEF ProgressInv
<1>1. ASSUME Rollback(t, "refused") \/ Rollback(t, "failed")
      PROVE  FALSE
  BY <1>1 DEF Rollback, End, Fresh, Active, LockInv, NumberInv
<1>2. CASE NextNumber(t)
  <2>1. /\ tx[t].pc = "number" /\ InPlace(tx[t]) /\ Quiet(t) /\ GoesOnOK(t)
        /\ tx'[t].found = tx[t].found /\ tx'[t].rows = tx[t].rows /\ tx'[t].missed = tx[t].missed
        /\ tx'[t].pc = "read"
    BY <1>0, <1>2, NextNumberQuiet DEF NextNumber, Active
  <2> QED BY <2>1, NotYetDone DEF Quiet, GoesOnOK, InPlace
<1>r. CASE RackOut(t) \/ RackIn(t)
  <2>1. tx[t].pc \in {"rackout", "rackin"} /\ InPlace(tx[t]) /\ IsTx(tx[t])
    BY <1>0, <1>r DEF RackOut, RackIn, Active
  <2>2. PICK at \in {"rackin", "read"} :
          Quiet(t) /\ GoesOnOK(t) /\ tx'[t] = [tx[t] EXCEPT !.pc = at]
    BY <1>1, <1>r, RackOutQuiet, RackInQuiet
  <2>3. /\ tx'[t].found = tx[t].found /\ tx'[t].rows = tx[t].rows /\ tx'[t].missed = tx[t].missed
        /\ tx'[t].pc = at
    BY <2>1, <2>2 DEF IsTx
  <2> QED BY <2>1, <2>2, <2>3, NotYetDone DEF Quiet, GoesOnOK, InPlace
<1>3. CASE ReadBalance(t)
  <2>1. tx[t].pc = "read" /\ Active(t)
    BY <1>3 DEF ReadBalance, Active
  <2>2. Quiet(t) /\ tx'[t] = [tx[t] EXCEPT !.seen = balance[Cell(t)], !.pc = "write"]
    BY <1>1, <1>3, ReadBalanceQuiet
  <2> DEFINE n == balance[Cell(t)]
  <2>3. tx'[t] = [tx[t] EXCEPT !.seen = n, !.pc = "write"]
    BY <2>2
  <2> HIDE DEF n
  <2>4. /\ tx'[t].found = tx[t].found /\ tx'[t].rows = tx[t].rows /\ tx'[t].missed = tx[t].missed
        /\ Taken(tx'[t]) = Taken(tx[t])
    BY <1>0, <2>1, <2>3 DEF IsTx, Taken
  <2> QED BY <1>0, <2>1, <2>2, <2>4, SameDone DEF Quiet
<1>4. CASE WriteBalance(t)
  <2>1. DoneSoFar(tx[t], balance)
    BY <1>0, <1>4 DEF WriteBalance, Active
  <2> QED BY <1>1, <1>4, <2>1, WriteBalanceChanges, WriteDone
<1>5. CASE ReadHeader(t)
  <2>1. tx[t].pc = "header" /\ Quiet(t) /\ GoesOnOK(t)
        /\ tx'[t] = [tx[t] EXCEPT !.pc = "find"]
    BY <1>1, <1>5, ReadHeaderQuiet DEF ReadHeader
  <2>2. tx'[t].pc = "find"
    BY <1>0, <2>1 DEF Active, IsTx
  <2> QED BY <2>1, <2>2, NotYetDone DEF GoesOnOK, InPlace
<1>6. CASE FindRows(t)
  <2>1. /\ Quiet(t) /\ GoesOnOK(t) /\ tx'[t].line = 1
        /\ tx'[t].pc \in {"erase", "check", "takeout"}
        /\ tx'[t].pc = "erase" => tx'[t].found = << >>
        /\ tx'[t].rows = << >> /\ tx'[t].missed = << >>
    BY <1>6, FindRowsQuiet
  <2>2. DOMAIN tx[t].undo = {}
    BY <1>6, UnderWay DEF FindRows, Active, InPlace
  <2>3. Taken(tx'[t]) = 0
    BY <2>1 DEF Taken
  <2> QED BY <2>1, <2>2, <2>3, NothingDone DEF GoesOnOK, Quiet
<1>7. CASE CheckRow(t)
  <2>1. /\ Quiet(t) /\ GoesOnOK(t) /\ tx'[t].rows = << >> /\ tx'[t].missed = << >>
        /\ \/ tx'[t].pc = "check"
           \/ tx'[t].pc = "takeout" /\ tx'[t].line = 1
    BY <1>1, <1>7, CheckRowQuiet
  <2>2. DOMAIN tx[t].undo = {}
    BY <1>7, UnderWay DEF CheckRow, Active, InPlace
  <2>3. Taken(tx'[t]) = 0
    BY <2>1 DEF Taken
  <2> QED BY <2>1, <2>2, <2>3, NothingDone DEF GoesOnOK, Quiet
<1>8. CASE TakeOut(t)
  BY <1>0, <1>8, TakeOutDone DEF TakeOut, Active
<1>9. CASE Erase(t)
  <2>1. tx[t].pc = "erase" /\ Active(t)
    BY <1>9 DEF Erase, Active
  <2>2. PICK at \in {"commit", "read"} : Quiet(t) /\ tx'[t] = [tx[t] EXCEPT !.pc = at]
    BY <1>1, <1>9, EraseQuiet
  <2>3. /\ tx'[t].found = tx[t].found /\ tx'[t].rows = tx[t].rows /\ tx'[t].missed = tx[t].missed
        /\ Taken(tx'[t]) = Taken(tx[t])
    BY <1>0, <2>1, <2>2 DEF IsTx, Taken
  <2> QED BY <1>0, <2>1, <2>2, <2>3, SameDone DEF Quiet
<1>10. CASE Commit(t)
  <2>1. IsTx(tx[t]) /\ tx = [u \in Requests |-> tx[u]]
    BY DEF LockInv, NumberInv, TxOK
  <2>2. tx'[t] = [tx[t] EXCEPT !.pc = "committed", !.undo = << >>]
    BY <1>10, <2>1 DEF Commit
  <2>3. tx'[t].pc = "committed"
    BY <2>1, <2>2 DEF IsTx
  <2> QED BY <2>3 DEF Active
<1> QED BY <1>2, <1>r, <1>3, <1>4, <1>5, <1>6, <1>7, <1>8, <1>9, <1>10 DEF Statement

LEMMA ProgressStep == LockInv /\ ProgressInv /\ [Next]_vars => ProgressInv'
<1> SUFFICES ASSUME LockInv, ProgressInv, [Next]_vars,
                    NEW u \in Requests, Active(u)'
             PROVE  DoneSoFar(tx'[u], balance')
  BY DEF ProgressInv
<1>1. ASSUME NEW t \in Requests, NEW form \in Forms[t], Begin(t, form)
      PROVE  DoneSoFar(tx'[u], balance')
  <2>1. StepOK(t) /\ DoneSoFar(tx'[t], balance')
    BY <1>1, BeginQuiet, BeginDone DEF StepOK
  <2> QED BY <2>1, OthersProgress
<1>2. ASSUME NEW t \in Requests, Statement(t)
      PROVE  DoneSoFar(tx'[u], balance')
  BY <1>2, StatementSorted, StatementProgress, OthersProgress
<1>3. ASSUME NEW t \in Requests, Ends(t)
      PROVE  DoneSoFar(tx'[u], balance')
  <2>1. ~ Active(t)'
    BY <1>3 DEF Ends, Rollback, End, Fresh, Active, LockInv, NumberInv
  <2> QED BY <1>3, <2>1, OthersProgress
<1>4. CASE UNCHANGED vars
  BY <1>4 DEF vars, tables, ProgressInv, Active, DoneSoFar
<1> QED BY <1>1, <1>2, <1>3, <1>4, StepSorted

LEMMA ProgressInit == Init => ProgressInv
BY DEF Init, ProgressInv, Active, Fresh

-----------------------------------------------------------------------------
LEMMA BooksNet == \A r, c : Books!Net(r, c) = Net(r, c)
BY DEF Books!Net, Net, Books!SumTo, SumTo, Books!Totals, Totals

LEMMA CommittedTyped ==
  ASSUME LockInv, NEW c \in Cells
  PROVE  Committed(c) \in Int
<1>1. CASE lock[BalanceRow(c)] = Nobody
  BY <1>1, CellLocks DEF LockInv, OnHand
<1>2. CASE lock[BalanceRow(c)] # Nobody
  <2> DEFINE u == lock[BalanceRow(c)]
  <2>1. u \in Requests /\ Holds(u, c)
    BY <1>2, CellLocks
  <2>2. tx[u].undo[c] \in Int \cup {NoRow}
    BY <2>1 DEF LockInv, RequestOK, LocksOK, Holds
  <2>3. Committed(c) = OnHand(tx[u].undo[c])
    BY <1>2, CellLocks
  <2> HIDE DEF u
  <2> QED BY <2>2, <2>3 DEF OnHand
<1> QED BY <1>1, <1>2

-----------------------------------------------------------------------------
(* A statement that neither posts, finds nor takes out rows.               *)
Plain(t) ==
  /\ Active(t) /\ Quiet(t) /\ GoesOnOK(t)
  /\ tx'[t].found = tx[t].found /\ tx'[t].rows = tx[t].rows /\ tx'[t].missed = tx[t].missed
  /\ tx'[t].form = tx[t].form
  /\ tx'[t].pc = "write" => /\ ReadBalance(t) /\ ~ Short(t) /\ ~ Waiting(t)
                            /\ tx'[t].line = tx[t].line
  /\ tx[t].pc \notin {"find", "takeout", "write", "commit"}
  /\ Works(tx'[t]) /\ tx'[t].pc # "find" => Works(tx[t])

LEMMA PlainOrNot ==
  ASSUME LockInv, NEW t \in Requests, Statement(t)
  PROVE  \/ Plain(t) \/ FindRows(t) \/ TakeOut(t) \/ Ends(t) \/ Commit(t)
         \/ WriteBalance(t) /\ Changes(t, Cell(t))
<1>0. Active(t) => /\ InPlace(tx[t]) /\ IsTx(tx[t]) /\ tx = [u \in Requests |-> tx[u]]
                   /\ Fits(tx[t].pc, tx[t].form)
  BY UnderWay
<1>1. CASE NextNumber(t)
  <2>1. tx[t].pc = "number" /\ Active(t)
    BY <1>1 DEF NextNumber, Active
  <2>2. ~ HasTarget(tx[t].form)
    BY <1>0, <2>1 DEF Fits, HasNumber, HasTarget
  <2> QED BY <1>1, <2>1, <2>2, NextNumberQuiet DEF Plain, Works
<1>r. CASE RackOut(t) \/ RackIn(t)
  <2>1. tx[t].pc \in {"rackout", "rackin"} /\ Active(t) /\ (Rollback(t, "refused") => Ends(t))
    BY <1>r DEF RackOut, RackIn, Active, Ends
  <2>2. ASSUME ~ Rollback(t, "refused")
        PROVE  Plain(t)
    <3>1. PICK at \in {"rackin", "read"} :
            Quiet(t) /\ GoesOnOK(t) /\ tx'[t] = [tx[t] EXCEPT !.pc = at]
      BY <1>r, <2>2, RackOutQuiet, RackInQuiet
    <3>2. /\ tx'[t].found = tx[t].found /\ tx'[t].rows = tx[t].rows
          /\ tx'[t].missed = tx[t].missed /\ tx'[t].form = tx[t].form /\ tx'[t].pc = at
      BY <1>0, <2>1, <3>1 DEF IsTx
    <3>3. ~ HasTarget(tx[t].form)
      BY <1>0, <2>1 DEF Fits, HasTarget
    <3> QED BY <2>1, <3>1, <3>2, <3>3 DEF Plain, Works
  <2> QED BY <2>1, <2>2
<1>2. CASE ReadBalance(t)
  <2>1. tx[t].pc = "read" /\ Active(t) /\ (Rollback(t, "refused") => Ends(t))
    BY <1>2 DEF ReadBalance, Ends, Active
  <2>2. ASSUME ~ Rollback(t, "refused")
        PROVE  Plain(t)
    <3>1. /\ Quiet(t) /\ GoesOnOK(t) /\ ~ Short(t) /\ ~ Waiting(t)
          /\ tx'[t] = [tx[t] EXCEPT !.seen = balance[Cell(t)], !.pc = "write"]
      BY <1>2, <2>2, ReadBalanceQuiet
    <3> DEFINE n == balance[Cell(t)]
    <3>2. tx'[t] = [tx[t] EXCEPT !.seen = n, !.pc = "write"]
      BY <3>1
    <3> HIDE DEF n
    <3>3. /\ tx'[t].found = tx[t].found /\ tx'[t].rows = tx[t].rows
          /\ tx'[t].missed = tx[t].missed /\ tx'[t].form = tx[t].form
          /\ tx'[t].pc = "write" /\ tx'[t].line = tx[t].line
      BY <1>0, <2>1, <3>2 DEF IsTx
    <3> QED BY <1>2, <2>1, <3>1, <3>3 DEF Plain, Works
  <2> QED BY <2>1, <2>2
<1>3. CASE ReadHeader(t)
  <2>1. tx[t].pc = "header" /\ Active(t) /\ (Rollback(t, "refused") => Ends(t))
    BY <1>3 DEF ReadHeader, Ends, Active
  <2>2. ASSUME ~ Rollback(t, "refused")
        PROVE  Plain(t)
    <3>1. Quiet(t) /\ GoesOnOK(t) /\ tx'[t] = [tx[t] EXCEPT !.pc = "find"]
      BY <1>3, <2>2, ReadHeaderQuiet
    <3>2. /\ tx'[t].found = tx[t].found /\ tx'[t].rows = tx[t].rows
          /\ tx'[t].missed = tx[t].missed /\ tx'[t].form = tx[t].form /\ tx'[t].pc = "find"
      BY <1>0, <2>1, <3>1 DEF IsTx
    <3> QED BY <2>1, <3>1, <3>2 DEF Plain
  <2> QED BY <2>1, <2>2
<1>4. CASE CheckRow(t)
  <2>1. tx[t].pc = "check" /\ Active(t) /\ (Rollback(t, "refused") => Ends(t))
    BY <1>4 DEF CheckRow, Ends, Active
  <2>2. ASSUME ~ Rollback(t, "refused")
        PROVE  Plain(t)
    <3>1. HasTarget(tx[t].form) /\ tx[t].rows = << >> /\ tx[t].missed = << >>
      BY <1>0, <2>1 DEF Fits, InPlace
    <3> QED BY <1>4, <2>1, <2>2, <3>1, CheckRowQuiet DEF Plain, Works
  <2> QED BY <2>1, <2>2
<1>5. CASE Erase(t)
  <2>1. /\ tx[t].pc = "erase" /\ Active(t) /\ (Rollback(t, "failed") => Ends(t))
        /\ HasTarget(tx[t].form)
    BY <1>0, <1>5 DEF Erase, Active, Ends, Fits
  <2>2. ASSUME ~ Rollback(t, "failed")
        PROVE  Plain(t)
    <3>1. PICK at \in {"commit", "read"} :
            Quiet(t) /\ GoesOnOK(t) /\ tx'[t] = [tx[t] EXCEPT !.pc = at]
      BY <1>5, <2>2, EraseQuiet
    <3>2. /\ tx'[t].found = tx[t].found /\ tx'[t].rows = tx[t].rows
          /\ tx'[t].missed = tx[t].missed /\ tx'[t].form = tx[t].form /\ tx'[t].pc = at
      BY <1>0, <2>1, <3>1 DEF IsTx
    <3> QED BY <2>1, <3>1, <3>2 DEF Plain, Works
  <2> QED BY <2>1, <2>2
<1>6. CASE WriteBalance(t)
  <2>1. tx[t].pc = "write"
    BY <1>6 DEF WriteBalance
  <2> QED BY <1>6, <2>1, WriteBalanceChanges DEF Ends
<1> QED BY <1>1, <1>r, <1>2, <1>3, <1>4, <1>5, <1>6 DEF Statement

(* What a step of one request leaves of another.                           *)
LEMMA OthersStay ==
  ASSUME LockInv, NEW t \in Requests, NEW u \in Requests, u # t,
         StepOK(t) \/ Ends(t) \/ Commit(t)
  PROVE  tx'[u] = tx[u]
BY OnlyTxOthers DEF StepOK, Quiet, Changes, Ends, Rollback, End, Commit, LockInv, NumberInv

(* What is left of a request that ends.                                    *)
LEMMA EndedTx ==
  ASSUME LockInv, NEW t \in Requests, Ends(t)
  PROVE  /\ tx'[t].pc \in {"refused", "failed"} /\ tx'[t].form.kind = "None"
         /\ tx'[t].undo = << >> /\ UNCHANGED <<rows, booked>>
<1>1. PICK how \in {"refused", "failed"} : Rollback(t, how)
  BY DEF Ends
<1>2. tx = [u \in Requests |-> tx[u]] /\ UNCHANGED <<rows, booked>>
  BY <1>1 DEF LockInv, NumberInv, Rollback
<1> DEFINE ended == [Fresh EXCEPT !.pc = how]
<1>3. tx' = [tx EXCEPT ![t] = ended]
  BY <1>1 DEF Rollback, End
<1>4. ended.pc = how /\ ended.form.kind = "None" /\ ended.undo = << >>
  BY DEF Fresh
<1> HIDE DEF ended
<1>5. tx'[t] = ended
  BY <1>2, <1>3
<1> QED BY <1>1, <1>2, <1>4, <1>5

LEMMA CommittedTx ==
  ASSUME LockInv, NEW t \in Requests, Commit(t)
  PROVE  /\ tx[t].pc = "commit" /\ tx'[t].pc = "committed"
         /\ tx'[t].found = tx[t].found /\ tx'[t].rows = tx[t].rows /\ tx'[t].form = tx[t].form
         /\ tx'[t].undo = << >>
<1>1. IsTx(tx[t]) /\ tx = [u \in Requests |-> tx[u]]
  BY DEF LockInv, NumberInv, TxOK
<1>2. tx[t].pc = "commit" /\ tx'[t] = [tx[t] EXCEPT !.pc = "committed", !.undo = << >>]
  BY <1>1 DEF Commit
<1> QED BY <1>1, <1>2 DEF IsTx

-----------------------------------------------------------------------------
(* What a deletion or an edit has found are the rows its document has,     *)
(* unless another one has committed since.                                 *)
Overtaken(t) ==
  \E u \in Requests \ {t} : /\ tx[u].pc = "committed" /\ HasTarget(tx[u].form)
                            /\ tx[u].form.target = tx[t].form.target
TargetOK(t) ==
  Works(tx[t]) /\ tx[t].pc # "find" => tx[t].found = rows[tx[t].form.target] \/ Overtaken(t)
TargetInv == \A t \in Requests : TargetOK(t)

(* Who is overtaken remains so: what is committed stays.                   *)
LEMMA OvertakenStays ==
  ASSUME LockInv, NEW t \in Requests, StepOK(t) \/ Ends(t) \/ Commit(t),
         NEW u \in Requests, Overtaken(u), tx'[u].form = tx[u].form
  PROVE  Overtaken(u)'
<1>1. PICK v \in Requests \ {u} : /\ tx[v].pc = "committed" /\ HasTarget(tx[v].form)
                                  /\ tx[v].form.target = tx[u].form.target
  BY DEF Overtaken
<1>2. v # t
  BY <1>1, CommittedTx DEF StepOK, GoesOnOK, Ends
<1>3. tx'[v] = tx[v]
  BY <1>2, OthersStay
<1> QED BY <1>1, <1>3 DEF Overtaken

LEMMA TargetStep == LockInv /\ TargetInv /\ [Next]_vars => TargetInv'
<1> SUFFICES ASSUME LockInv, TargetInv, [Next]_vars
             PROVE  TargetInv'
  OBVIOUS
<1>1. ASSUME NEW t \in Requests, StepOK(t) \/ Ends(t), TargetOK(t)'
      PROVE  TargetInv'
  <2>1. UNCHANGED rows
    BY <1>1, EndedTx DEF StepOK, Quiet, Changes
  <2>2. ASSUME NEW u \in Requests, u # t
        PROVE  TargetOK(u)'
    <3>1. tx'[u] = tx[u] /\ TargetOK(u)
      BY <1>1, <2>2, OthersStay DEF TargetInv
    <3>2. Overtaken(u) => Overtaken(u)'
      BY <1>1, <3>1, OvertakenStays
    <3> QED BY <2>1, <3>1, <3>2 DEF TargetOK
  <2> QED BY <1>1, <2>2 DEF TargetInv
<1>2. ASSUME NEW t \in Requests, Ends(t)
      PROVE  TargetInv'
  <2>1. TargetOK(t)'
    BY <1>2, EndedTx DEF TargetOK, Works
  <2> QED BY <1>1, <1>2, <2>1
<1>3. ASSUME NEW t \in Requests, NEW form \in Forms[t], Begin(t, form)
      PROVE  TargetInv'
  <2>1. StepOK(t) /\ tx'[t].pc \in {"number", "header", "rackout"}
    BY <1>3, BeginQuiet DEF StepOK
  <2>2. TargetOK(t)'
    BY <2>1 DEF TargetOK, Works
  <2> QED BY <1>1, <2>1, <2>2
<1>4. ASSUME NEW t \in Requests, Statement(t), StepOK(t), ~ Ends(t), ~ Commit(t)
      PROVE  TargetInv'
  <2>0. UNCHANGED rows /\ TargetOK(t)
    BY <1>4 DEF StepOK, Quiet, Changes, TargetInv
  <2>1. CASE FindRows(t)
    <3>1. tx'[t].found = rows[tx[t].form.target] /\ tx'[t].form = tx[t].form
      BY <2>1, FindRowsQuiet
    <3>2. TargetOK(t)'
      BY <2>0, <3>1 DEF TargetOK
    <3> QED BY <1>1, <1>4, <3>2
  <2>2. ASSUME tx'[t].found = tx[t].found, tx'[t].form = tx[t].form, tx[t].pc # "find",
               Works(tx'[t]) /\ tx'[t].pc # "find" => Works(tx[t])
        PROVE  TargetInv'
    <3>1. Overtaken(t) => Overtaken(t)'
      BY <1>4, <2>2, OvertakenStays
    <3>2. TargetOK(t)'
      BY <2>0, <2>2, <3>1 DEF TargetOK
    <3> QED BY <1>1, <1>4, <3>2
  <2>3. CASE Plain(t)
    BY <2>2, <2>3 DEF Plain
  <2>4. CASE TakeOut(t)
    <3>1. tx[t].pc = "takeout" /\ HasTarget(tx[t].form)
      BY <2>4, UnderWay DEF TakeOut, Active, Fits
    <3>2. tx'[t].found = tx[t].found /\ tx'[t].form = tx[t].form
      BY <2>4, TakeOutChanges
    <3> QED BY <2>2, <3>1, <3>2 DEF Works
  <2>5. CASE WriteBalance(t) /\ Changes(t, Cell(t))
    <3>1. tx[t].pc = "write" /\ ~ Rollback(t, "failed")
      BY <1>4, <2>5 DEF WriteBalance, Ends
    <3>2. tx'[t].found = tx[t].found /\ tx'[t].form = tx[t].form
      BY <2>5, <3>1, WriteBalanceChanges
    <3> QED BY <2>2, <3>1, <3>2 DEF Works
  <2> QED BY <1>4, <2>1, <2>3, <2>4, <2>5, PlainOrNot
<1>5. ASSUME NEW t \in Requests, Commit(t)
      PROVE  TargetInv'
  <2>1. /\ tx[t].pc = "commit" /\ tx'[t].pc = "committed" /\ tx'[t].form = tx[t].form
        /\ rows' = [rows EXCEPT ![Paper(t)] = tx[t].rows] /\ rows \in [Docs -> Seq(Row)]
    BY <1>5, CommittedTx DEF Commit, LockInv
  <2>2. ASSUME NEW u \in Requests, u # t, Works(tx[u]), tx[u].pc # "find"
        PROVE  tx[u].found = rows'[tx[u].form.target] \/ Overtaken(u)'
    <3> DEFINE e == tx[u].form.target
    <3>1. tx'[u] = tx[u] /\ TargetOK(u)
      BY <1>5, <2>2, OthersStay DEF TargetInv
    <3>2. Ever(e) /\ e \in Docs
      <4>1. PaperOK(u) /\ tx[u].form \in Forms[u] /\ HasTarget(tx[u].form)
        BY <2>2, UnderWay DEF LockInv, RequestOK, Works, Active
      <4> QED BY <2>2, <4>1, FormTyped DEF PaperOK
    <3>3. tx[u].found = rows[e] \/ Overtaken(u)
      BY <2>2, <3>1 DEF TargetOK
    <3>4. Overtaken(u) => Overtaken(u)'
      BY <1>5, <3>1, OvertakenStays
    <3>5. CASE Paper(t) # e
      <4> DEFINE d == Paper(t)
      <4>1. rows' = [rows EXCEPT ![d] = tx[t].rows] /\ d # e
        BY <2>1, <3>5
      <4> HIDE DEF d, e
      <4>2. rows'[e] = rows[e]
        BY <2>1, <3>2, <4>1
      <4> QED BY <3>3, <3>4, <4>2 DEF e
    <3>6. CASE Paper(t) = e /\ HasTarget(tx[t].form)
      <4>1. tx[t].form.target = e
        BY <3>6 DEF Paper
      <4> QED BY <2>1, <2>2, <3>1, <3>6, <4>1 DEF Overtaken
    <3>7. CASE Paper(t) = e /\ ~ HasTarget(tx[t].form)
      <4>1. e = t
        BY <3>7 DEF Paper
      <4> QED BY <2>1, <3>2, <4>1, TransactionConstants DEF Ever
    <3> QED BY <3>5, <3>6, <3>7
  <2>3. \A u \in Requests : u # t => TargetOK(u)'
    BY <1>5, <2>2, OthersStay DEF TargetOK
  <2>4. TargetOK(t)'
    BY <2>1 DEF TargetOK, Works
  <2> QED BY <2>3, <2>4 DEF TargetInv
<1>6. CASE UNCHANGED vars
  BY <1>6 DEF vars, tables, TargetInv, TargetOK, Overtaken
<1> QED BY <1>2, <1>3, <1>4, <1>5, <1>6, StepSorted, StatementSorted

LEMMA TargetInit == Init => TargetInv
BY DEF Init, TargetInv, TargetOK, Works, Fresh

-----------------------------------------------------------------------------
(* A commit puts its rows in the place of those that stand, and moves the  *)
(* book by what it had found, posted and overwritten.                      *)
LEMMA CommitParts ==
  ASSUME LockInv, ProgressInv, NEW t \in Requests, Commit(t)
  PROVE  Parts(t)
<1>1. tx[t].pc = "commit" /\ Active(t) /\ rows' = [rows EXCEPT ![Paper(t)] = tx[t].rows]
  BY DEF Commit, Active
<1>2. InPlace(tx[t]) /\ DoneSoFar(tx[t], balance)
  BY <1>1, UnderWay DEF ProgressInv
<1>3. ASSUME NEW c \in Cells
      PROVE  Committed(c)' = Committed(c) + Done(tx[t], c)
  <2>1. Committed(c)' = IF Holds(t, c) THEN OnHand(balance[c]) ELSE Committed(c)
    BY CommitMoves
  <2>2. CASE Holds(t, c)
    <3>1. Committed(c) = OnHand(tx[t].undo[c])
      BY <2>2, CellLocks
    <3>2. OnHand(balance[c]) = OnHand(tx[t].undo[c]) + Done(tx[t], c)
      BY <1>2, <2>2 DEF DoneSoFar, Holds
    <3> QED BY <2>1, <2>2, <3>1, <3>2
  <2>3. CASE ~ Holds(t, c)
    <3>1. Done(tx[t], c) = 0
      BY <1>2, <2>3 DEF DoneSoFar, Holds
    <3>2. Committed(c) \in Int
      BY CommittedTyped
    <3> QED BY <2>1, <2>3, <3>1, <3>2
  <2> QED BY <2>2, <2>3
<1>4. ASSUME NEW c \in Cells
      PROVE  Committed(c)' = Committed(c) - Net(tx[t].found, c) + Net(tx[t].rows, c)
                               + Net(tx[t].missed, c)
  <2>1. NetUpto(tx[t].found, Taken(tx[t]), c) = Net(tx[t].found, c)
    BY <1>1, <1>2, RowsAdd DEF Taken, InPlace
  <2>2. /\ Done(tx[t], c) = Net(tx[t].rows, c) - Net(tx[t].found, c) + Net(tx[t].missed, c)
        /\ Net(tx[t].rows, c) \in Int /\ Net(tx[t].missed, c) \in Int
        /\ Net(tx[t].found, c) \in Int
    BY <1>2, <2>1, DoneTyped DEF Done
  <2> QED BY <1>3, <2>2, CommittedTyped
<1> QED BY <1>1, <1>4 DEF Parts

(* If nothing it read has been overtaken, that is one document's rows and  *)
(* the book by their difference.                                           *)
LEMMA CommitReposts ==
  ASSUME LockInv, ProgressInv, TargetInv, NEW t \in Requests, Commit(t)
  PROVE  Books!Repost(Paper(t)) \/ (Stale(t) /\ Parts(t))
<1> SUFFICES ASSUME ~ Stale(t)
             PROVE  Books!Repost(Paper(t))
  BY CommitParts
<1>1. /\ tx[t].pc = "commit" /\ tx[t].form \in Forms[t] /\ InPlace(tx[t]) /\ PaperOK(t)
      /\ rows \in [Docs -> Seq(Row)]
  BY UnderWay DEF Commit, Active, LockInv, RequestOK
<1> DEFINE d == Paper(t)
           old == tx[t].found
           new == tx[t].rows
<1>2. tx[t].missed = << >>
  BY DEF Stale
<1>3. d \in Docs /\ old = rows[d]
  <2>1. CASE HasTarget(tx[t].form)
    <3>1. d = tx[t].form.target /\ d \in Docs
      BY <1>1, <2>1, FormTyped DEF Paper
    <3>2. old = rows[tx[t].form.target] \/ Overtaken(t)
      BY <1>1, <2>1 DEF TargetInv, TargetOK, Works
    <3>3. Overtaken(t) => old = rows[tx[t].form.target]
      BY <2>1 DEF Stale, Overtaken
    <3> QED BY <3>1, <3>2, <3>3
  <2>2. CASE ~ HasTarget(tx[t].form)
    <3>1. d = t /\ old = << >> /\ rows[t] = << >>
      BY <1>1, <2>2 DEF Paper, InPlace, PaperOK
    <3> QED BY <3>1 DEF Docs
  <2> QED BY <2>1, <2>2
<1>4. /\ rows' = [rows EXCEPT ![d] = new]
      /\ \A c \in Cells : Committed(c)' = Committed(c) - Net(old, c) + Net(new, c)
                                            + Net(tx[t].missed, c)
  BY CommitParts DEF Parts
<1>5. \A c \in Cells : /\ Net(tx[t].missed, c) = 0 /\ Committed(c) \in Int
                       /\ Net(old, c) \in Int /\ Net(new, c) \in Int
  BY <1>1, <1>2, NetEmpty, RowsAdd, CommittedTyped DEF InPlace
<1> HIDE DEF d, old, new
<1>6. rows'[d] = new
  BY <1>1, <1>3, <1>4
<1>7. \A c \in Cells : Committed(c)' = Committed(c) - Net(rows[d], c) + Net(rows'[d], c)
  BY <1>3, <1>4, <1>5, <1>6
<1>8. rows' = [rows EXCEPT ![d] = rows'[d]]
  BY <1>4, <1>6
<1> QED BY <1>7, <1>8, BooksNet DEF Books!Repost, d

LEMMA StepReposts ==
  ASSUME LockInv, ProgressInv, TargetInv, [Next]_vars
  PROVE  [\E t \in Requests : /\ Commits(t)
                              /\ Books!Repost(Paper(t)) \/ (Stale(t) /\ Parts(t))
           ]_(Books!accountVars)
<1>1. ASSUME Stands, UNCHANGED rows
      PROVE  UNCHANGED Books!accountVars
  BY <1>1 DEF Stands, Books!accountVars
<1>2. ASSUME NEW t \in Requests, StepOK(t)
      PROVE  Stands /\ UNCHANGED rows
  BY <1>2, QuietStands, ChangeStands DEF StepOK, Quiet, Changes
<1>3. ASSUME NEW t \in Requests, Ends(t)
      PROVE  Stands /\ UNCHANGED rows
  BY <1>3, EndStands DEF Ends, Rollback
<1>4. ASSUME NEW t \in Requests, NEW form \in Forms[t], Begin(t, form)
      PROVE  Stands /\ UNCHANGED rows
  BY <1>2, <1>4, BeginQuiet DEF StepOK
<1>5. ASSUME NEW t \in Requests, Commit(t)
      PROVE  Commits(t) /\ (Books!Repost(Paper(t)) \/ (Stale(t) /\ Parts(t)))
  BY <1>5, CommitReposts, CommittedTx DEF Commits
<1>6. CASE UNCHANGED vars
  <2>1. UNCHANGED <<balance, lock, tx, rows>>
    BY <1>6 DEF vars, tables
  <2>2. Stands
    BY <2>1, CommittedThen, CellLocks DEF Stands
  <2> QED BY <1>1, <2>1, <2>2
<1> QED BY <1>1, <1>2, <1>3, <1>4, <1>5, <1>6, StepSorted, StatementSorted

(* However the statements of any requests interleave, block, deadlock and  *)
(* fail, the committed books follow the documents, one at a time; where a  *)
(* count, a deletion or an edit has been overtaken since it read, they part*)
(* by just what it read too early, and nothing else can part them          *)
(* (BooksFollowDocuments).                                                 *)
THEOREM BooksAlwaysFollow == Spec => BooksFollowDocuments
<1>1. Init => LockInv /\ ProgressInv /\ TargetInv
  BY LockInit, ProgressInit, TargetInit
<1>2. LockInv /\ ProgressInv /\ TargetInv /\ [Next]_vars
        => (LockInv /\ ProgressInv /\ TargetInv)'
  BY LockStep, ProgressStep, TargetStep
<1>3. LockInv /\ ProgressInv /\ TargetInv /\ [Next]_vars
        => [\E t \in Requests : /\ Commits(t)
                                /\ Books!Repost(Paper(t)) \/ (Stale(t) /\ Parts(t))
           ]_(Books!accountVars)
  BY StepReposts
<1> QED BY <1>1, <1>2, <1>3, PTL DEF Spec, BooksFollowDocuments

-----------------------------------------------------------------------------
(* Who posts a row that puts stock into a cell is a document that gives to *)
(* it, and a deletion or an edit finds such rows only of one that has.     *)
OwnOK(t) ==
  Begun(t) =>
    /\ \A i \in 1..Len(tx[t].rows) :
         tx[t].rows[i].qty > 0 => Gives(tx[t].form, tx[t].rows[i].cell)
    /\ HasTarget(tx[t].form) =>
         \A i \in 1..Len(tx[t].found) :
           tx[t].found[i].qty > 0 => HasPutIn(tx[t].form.target, tx[t].found[i].cell)
OwnInv ==
  /\ \A d \in Docs : \A i \in 1..Len(rows[d]) :
       rows[d][i].qty > 0 => HasPutIn(d, rows[d][i].cell)
  /\ \A t \in Requests : OwnOK(t)

LEMMA GivesPutsIn ==
  ASSUME LockInv, NEW t \in Requests, tx[t].form \in Forms[t], NEW c, Gives(tx[t].form, c)
  PROVE  HasPutIn(Paper(t), c)
BY DEF HasPutIn, Paper

LEMMA OwnStatement ==
  ASSUME LockInv, OwnInv, NEW t \in Requests, Statement(t), ~ Ends(t)
  PROVE  OwnOK(t)'
<1>0. Active(t) => OwnOK(t) /\ Begun(t)
  BY DEF OwnInv, Active, Begun
<1>1. CASE Plain(t)
  BY <1>0, <1>1 DEF Plain, OwnOK
<1>2. CASE FindRows(t)
  <2>1. /\ tx[t].pc = "find" /\ HasTarget(tx[t].form) /\ tx[t].form \in Forms[t]
    BY <1>2, UnderWay DEF FindRows, Active, Fits
  <2>2. /\ tx'[t].found = rows[tx[t].form.target] /\ tx'[t].form = tx[t].form
        /\ tx'[t].rows = << >>
    BY <1>2, FindRowsQuiet
  <2>3. tx[t].form.target \in Docs
    BY <2>1, FormTyped
  <2> QED BY <2>2, <2>3 DEF OwnInv, OwnOK
<1>3. CASE TakeOut(t)
  <2>1. tx[t].pc = "takeout" /\ Active(t)
    BY <1>3 DEF TakeOut, Active
  <2>2. /\ tx'[t].found = tx[t].found /\ tx'[t].form = tx[t].form /\ tx'[t].rows = << >>
    BY <1>3, TakeOutChanges
  <2> QED BY <1>0, <2>1, <2>2 DEF OwnOK
<1>4. CASE WriteBalance(t) /\ Changes(t, Cell(t))
  <2> DEFINE line == tx[t].form.lines[tx[t].line]
             c == Cell(t)
             old == tx[t].rows
  <2>1. /\ tx[t].pc = "write" /\ Active(t) /\ InPlace(tx[t]) /\ ~ Deletes(tx[t].form)
        /\ tx[t].line \in 1..Len(tx[t].form.lines) /\ old \in Seq(Row)
    BY <1>4, UnderWay DEF WriteBalance, Active, InPlace, Fits
  <2>2. /\ tx'[t].form = tx[t].form /\ tx'[t].rows = Booked(t) /\ tx'[t].found = tx[t].found
    <3>1. ~ Rollback(t, "failed")
      BY <2>1 DEF Ends
    <3> QED BY <1>4, <3>1, WriteBalanceChanges
  <2>3. /\ c \in Cells /\ Posted(t) \in Row /\ Posted(t).cell = c /\ c = line.cell
    BY <2>1, LineTyped DEF Cell
  <2>4. tx[t].form.kind # "Count" => Posted(t) = line
    BY DEF Posted
  <2>5. Posted(t).qty > 0 => Gives(tx[t].form, Posted(t).cell)
    BY <2>1, <2>3, <2>4 DEF Gives
  <2>6. \A i \in 1..Len(old) : old[i].qty > 0 => Gives(tx[t].form, old[i].cell)
    BY <1>0, <2>1 DEF OwnOK
  <2> HIDE DEF old, line, c
  <2>7. Booked(t) = old \/ Booked(t) = Append(old, Posted(t))
    BY DEF Booked, old
  <2>8. \A i \in 1..Len(Booked(t)) :
          Booked(t)[i].qty > 0 => Gives(tx[t].form, Booked(t)[i].cell)
    BY <2>1, <2>3, <2>5, <2>6, <2>7
  <2> QED BY <1>0, <2>1, <2>2, <2>8 DEF OwnOK
<1>5. CASE Commit(t)
  <2>1. /\ tx'[t].rows = tx[t].rows /\ tx'[t].form = tx[t].form /\ tx'[t].found = tx[t].found
        /\ Active(t)
    BY <1>5, CommittedTx DEF Active
  <2> QED BY <1>0, <2>1 DEF OwnOK
<1> QED BY <1>1, <1>2, <1>3, <1>4, <1>5, PlainOrNot

LEMMA OwnStep == LockInv /\ OwnInv /\ [Next]_vars => OwnInv'
<1> SUFFICES ASSUME LockInv, OwnInv, [Next]_vars
             PROVE  OwnInv'
  OBVIOUS
<1>1. ASSUME NEW t \in Requests, StepOK(t) \/ Ends(t), OwnOK(t)'
      PROVE  OwnInv'
  <2>1. UNCHANGED rows
    BY <1>1, EndedTx DEF StepOK, Quiet, Changes
  <2>2. \A u \in Requests : u # t => tx'[u] = tx[u]
    BY <1>1, OthersStay
  <2> QED BY <1>1, <2>1, <2>2 DEF OwnInv, OwnOK, Begun
<1>2. ASSUME NEW t \in Requests, Ends(t)
      PROVE  OwnInv'
  <2>1. OwnOK(t)'
    BY <1>2, EndedTx DEF OwnOK, Begun
  <2> QED BY <1>1, <1>2, <2>1
<1>3. ASSUME NEW t \in Requests, NEW form \in Forms[t], Begin(t, form)
      PROVE  OwnInv'
  <2>1. /\ StepOK(t) /\ GoesOnOK(t) /\ tx'[t].pc \in {"number", "header", "rackout"}
        /\ tx'[t].found = << >>
    BY <1>3, BeginQuiet DEF StepOK
  <2>2. tx'[t].rows = << >>
    BY <2>1 DEF GoesOnOK, InPlace
  <2>3. OwnOK(t)'
    BY <2>1, <2>2 DEF OwnOK
  <2> QED BY <1>1, <2>1, <2>3
<1>4. ASSUME NEW t \in Requests, Commit(t)
      PROVE  OwnInv'
  <2>1. /\ tx[t].pc = "commit" /\ Statement(t) /\ ~ Ends(t) /\ Begun(t) /\ OwnOK(t)
        /\ tx[t].form \in Forms[t] /\ rows \in [Docs -> Seq(Row)]
        /\ rows' = [rows EXCEPT ![Paper(t)] = tx[t].rows]
    <3>1. tx'[t].pc = "committed" /\ tx[t].pc = "commit"
      BY <1>4, CommittedTx
    <3> QED BY <1>4, <3>1, EndedTx, UnderWay DEF Statement, Begun, OwnInv, Active, LockInv, Commit
  <2>2. OwnOK(t)'
    BY <2>1, OwnStatement
  <2>3. \A u \in Requests : OwnOK(u)'
    BY <1>4, <2>2, OthersStay DEF OwnInv, OwnOK, Begun
  <2>4. ASSUME NEW d \in Docs, NEW i \in 1..Len(rows'[d]), rows'[d][i].qty > 0
        PROVE  HasPutIn(d, rows'[d][i].cell)
    <3> DEFINE e == Paper(t)
    <3>1. rows' = [rows EXCEPT ![e] = tx[t].rows]
      BY <2>1
    <3>2. \A j \in 1..Len(tx[t].rows) : tx[t].rows[j].qty > 0 => HasPutIn(e, tx[t].rows[j].cell)
      BY <2>1, GivesPutsIn DEF OwnOK
    <3> HIDE DEF e
    <3>3. CASE d = e
      BY <2>1, <2>4, <3>1, <3>2, <3>3
    <3>4. CASE d # e
      BY <2>1, <2>4, <3>1, <3>4 DEF OwnInv
    <3> QED BY <3>3, <3>4
  <2> QED BY <2>3, <2>4 DEF OwnInv
<1>5. ASSUME NEW t \in Requests, Statement(t), StepOK(t)
      PROVE  OwnInv'
  <2>1. CASE Ends(t)
    BY <1>2, <2>1
  <2>2. CASE ~ Ends(t)
    BY <1>1, <1>5, <2>2, OwnStatement
  <2> QED BY <2>1, <2>2
<1>6. CASE UNCHANGED vars
  BY <1>6 DEF vars, tables, OwnInv, OwnOK, Begun
<1> QED BY <1>2, <1>3, <1>4, <1>5, <1>6, StepSorted, StatementSorted

LEMMA OwnInit == Init => OwnInv
<1> SUFFICES ASSUME Init
             PROVE  OwnInv
  OBVIOUS
<1>1. \A t \in Requests : OwnOK(t)
  BY DEF Init, OwnOK, Begun, Fresh
<1>2. ASSUME NEW d \in Docs, NEW i \in 1..Len(rows[d]), rows[d][i].qty > 0
      PROVE  HasPutIn(d, rows[d][i].cell)
  BY <1>2 DEF Init, HasPutIn
<1> QED BY <1>1, <1>2 DEF OwnInv

-----------------------------------------------------------------------------
(* A cell another request than a stock transfer has taken stock out of.    *)
Gone(c) == \E t \in Requests : tx[t].pc = "committed" /\ TakesOut(tx[t].form, c)

(* A transfer that has found enough in c finds it still there, and whoever *)
(* holds c without taking stock out leaves it covered.                     *)
Line(q) == q.form.lines[q.line]
Draws(q, c) == q.pc = "write" /\ q.form.kind = "Move" /\ Line(q).cell = c /\ Line(q).qty < 0
Left(t, c) == IF Holds(t, c) THEN OnHand(balance[c]) ELSE Committed(c)
CoverOK(t, c) ==
  /\ Holds(t, c) /\ ~ TakesOut(tx[t].form, c) =>
       /\ OnHand(balance[c]) >= 0
       /\ ~ MovesOut(tx[t].form, c) => OnHand(balance[c]) >= Committed(c)
  /\ Draws(tx[t], c) => Left(t, c) + Line(tx[t]).qty >= 0
Sound(c) == OnHand(Opening[c]) >= 0 /\ ~ TwoSeries(c)
CoverInv ==
  \A c \in Cells : Sound(c) /\ ~ Gone(c) =>
    Committed(c) >= 0 /\ \A t \in Requests : CoverOK(t, c)

(* Two transfers out of c are never past their draw at a time.             *)
LEMMA OneMove ==
  ASSUME LockInv, NEW c, ~ TwoSeries(c), NEW t \in Requests, NEW u \in Requests,
         tx[t].pc \in {"read", "write", "commit"}, tx[u].pc \in {"read", "write", "commit"},
         MovesOut(tx[t].form, c), MovesOut(tx[u].form, c)
  PROVE  t = u
<1>1. tx[t].form \in Forms[t] /\ tx[u].form \in Forms[u]
  BY UnderWay DEF Active
<1>2. t # u => tx[t].form.series = tx[u].form.series
  BY <1>1 DEF TwoSeries
<1>3. /\ lock[SeriesRow(tx[t].form.series)] = t
      /\ lock[SeriesRow(tx[u].form.series)] = u
  BY DEF LockInv, NumberInv, TxOK, Drawn, HasNumber, MovesOut
<1> QED BY <1>2, <1>3

LEMMA LeftIsThere ==
  ASSUME LockInv, NEW t \in Requests, NEW c \in Cells, lock[BalanceRow(c)] \in {Nobody, t}
  PROVE  Left(t, c) = OnHand(balance[c]) /\ OnHand(balance[c]) \in Int
<1>1. OnHand(balance[c]) \in Int
  BY DEF LockInv, OnHand
<1> QED BY <1>1, CellLocks DEF Left

(* What is gone stays gone.                                                *)
LEMMA GoneStays ==
  ASSUME LockInv, NEW t \in Requests, StepOK(t) \/ Ends(t) \/ Commit(t), NEW c, Gone(c)
  PROVE  Gone(c)'
<1>1. PICK v \in Requests : tx[v].pc = "committed" /\ TakesOut(tx[v].form, c)
  BY DEF Gone
<1>2. v # t
  BY <1>1, CommittedTx DEF StepOK, GoesOnOK, Ends
<1>3. tx'[v] = tx[v]
  BY <1>2, OthersStay
<1> QED BY <1>1, <1>3 DEF Gone

(* What a step that commits nothing leaves of the other requests.          *)
LEMMA OthersCover ==
  ASSUME LockInv, NEW t \in Requests, NEW u \in Requests, u # t, StepOK(t) \/ Ends(t),
         NEW c \in Cells, CoverOK(u, c)
  PROVE  CoverOK(u, c)'
<1>1. tx'[u] = tx[u]
  BY OthersStay
<1>2. Committed(c)' = Committed(c)
  BY QuietStands, ChangeStands, EndStands DEF StepOK, Stands
<1>3. ASSUME Holds(u, c)
      PROVE  balance'[c] = balance[c]
  <2>1. lock[BalanceRow(c)] = u /\ ~ Holds(t, c)
    BY <1>3, CellLocks
  <2>2. ASSUME NEW d \in Cells, Changes(t, d)
        PROVE  balance'[c] = balance[c]
    <3>1. d # c
      BY <2>1, <2>2, ChangedLocks, TransactionConstants
    <3> QED BY <2>2, <3>1 DEF Changes, LockInv
  <2>3. CASE Ends(t)
    BY <2>1, <2>3, RestoredCells DEF Ends
  <2> QED BY <2>2, <2>3 DEF StepOK, Quiet
<1>4. /\ Holds(u, c)' = Holds(u, c) /\ Draws(tx'[u], c) = Draws(tx[u], c)
      /\ Line(tx'[u]) = Line(tx[u])
      /\ TakesOut(tx'[u].form, c) = TakesOut(tx[u].form, c)
      /\ MovesOut(tx'[u].form, c) = MovesOut(tx[u].form, c)
  BY <1>1 DEF Holds
<1>5. Left(u, c)' = Left(u, c)
  BY <1>2, <1>3, <1>4 DEF Left, OnHand
<1> QED BY <1>1, <1>2, <1>3, <1>4, <1>5 DEF CoverOK, OnHand, Draws, Line

(* The step's own request.                                                 *)
LEMMA PlainCovers ==
  ASSUME LockInv, NEW t \in Requests, Plain(t) \/ FindRows(t), NEW c \in Cells, CoverOK(t, c)
  PROVE  CoverOK(t, c)'
<1>1. /\ Quiet(t) /\ tx'[t].form = tx[t].form /\ balance' = balance
      /\ Committed(c)' = Committed(c)
  BY FindRowsQuiet, QuietStands DEF Plain, Quiet, Stands
<1>2. /\ Holds(t, c) <=> Holds(t, c)'
      /\ TakesOut(tx[t].form, c) <=> TakesOut(tx'[t].form, c)
      /\ MovesOut(tx[t].form, c) <=> MovesOut(tx'[t].form, c)
  BY <1>1 DEF Quiet, Holds
<1>3. ASSUME Draws(tx'[t], c)
      PROVE  Left(t, c)' + Line(tx'[t]).qty >= 0
  <2>1. /\ ReadBalance(t) /\ ~ Short(t) /\ ~ Waiting(t) /\ tx'[t].line = tx[t].line
        /\ tx[t].pc = "read"
    BY <1>3, FindRowsQuiet DEF Draws, Plain, ReadBalance
  <2>2. Line(tx'[t]) = Line(tx[t]) /\ tx[t].form.kind = "Move"
        /\ Line(tx[t]).qty < 0 /\ Cell(t) = c /\ Line(tx[t]) \in Row
    BY <1>1, <1>3, <2>1, LineTyped DEF Draws, Line, Cell
  <2>3. lock[BalanceRow(c)] \in {Nobody, t}
    BY <2>1, <2>2 DEF Waiting, Needs, Free, BalanceRow
  <2>4. Left(t, c) = OnHand(balance[c]) /\ OnHand(balance[c]) \in Int
    BY <2>3, LeftIsThere
  <2>5. Left(t, c)' = Left(t, c)
    BY <1>1, <1>2 DEF Left, OnHand
  <2>6. ~ (OnHand(balance[c]) + Line(tx[t]).qty < 0)
    BY <2>1, <2>2 DEF Short, Line
  <2>7. Line(tx[t]).qty \in Int
    BY <2>2 DEF Row
  <2> HIDE DEF Line, Left
  <2> QED BY <2>2, <2>4, <2>5, <2>6, <2>7
<1> QED BY <1>1, <1>2, <1>3 DEF CoverOK, OnHand, Draws

LEMMA WriteCovers ==
  ASSUME LockInv, NEW t \in Requests, WriteBalance(t), Changes(t, Cell(t)), ~ Ends(t),
         NEW c \in Cells, Committed(c) >= 0, CoverOK(t, c)
  PROVE  CoverOK(t, c)'
<1> DEFINE line == Line(tx[t])
           form == tx[t].form
<1>1. /\ tx[t].pc = "write" /\ ~ Rollback(t, "failed") /\ ~ Deletes(form) /\ form \in Forms[t]
      /\ tx[t].line \in 1..Len(form.lines)
  BY UnderWay DEF WriteBalance, Ends, InPlace, Active, Fits
<1>2. /\ balance'[Cell(t)] = Written(t) /\ tx'[t].form = form /\ tx'[t].pc \in {"read", "commit"}
  BY <1>1, WriteBalanceChanges
<1>3. Cell(t) \in Cells /\ line \in Row /\ line.cell = Cell(t)
  BY <1>1, LineTyped DEF Line, Cell
<1>4. Committed(c)' = Committed(c) /\ Committed(c) \in Int
  BY <1>3, ChangeStands, CommittedTyped DEF Stands
<1>5. ~ Draws(tx'[t], c)
  BY <1>2 DEF Draws
<1>6. /\ TakesOut(form, c) <=> TakesOut(tx'[t].form, c)
      /\ MovesOut(form, c) <=> MovesOut(tx'[t].form, c)
  BY <1>2
<1>7. CASE c # Cell(t)
  <2>1. balance'[c] = balance[c]
    BY <1>3, <1>7 DEF Changes, LockInv
  <2>2. Holds(t, c)' <=> Holds(t, c)
    <3> DEFINE undo == Undo(t, Cell(t))
    <3>1. tx'[t].undo = undo
      BY DEF Changes
    <3>2. DOMAIN undo = DOMAIN tx[t].undo \cup {Cell(t)}
      BY <1>3, UndoFacts
    <3> HIDE DEF undo
    <3> QED BY <1>7, <3>1, <3>2 DEF Holds
  <2> QED BY <1>4, <1>5, <1>6, <2>1, <2>2 DEF CoverOK, OnHand
<1>8. CASE c = Cell(t)
  <2>1. lock[BalanceRow(c)] \in {Nobody, t}
    BY <1>3, <1>8, ChangedLocks
  <2>2. Left(t, c) = OnHand(balance[c]) /\ OnHand(balance[c]) \in Int
    BY <2>1, LeftIsThere
  <2>3. line.qty \in Int
    BY <1>3 DEF Row
  <2>4. form.kind # "Count" => Written(t) = OnHand(balance[c]) + line.qty
    BY <1>3, <1>8 DEF Written, Line
  <2>5. OnHand(balance'[c]) = Written(t) /\ Written(t) \in Int
    <3>1. Written(t) \in Int
      BY <1>1, LineTyped
    <3> QED BY <1>2, <1>8, <3>1, TransactionConstants DEF OnHand
  <2>6. ASSUME ~ TakesOut(form, c)
        PROVE  Written(t) >= 0 /\ (~ MovesOut(form, c) => Written(t) >= Committed(c))
    <3>1. form.kind # "Count"
      BY <1>1, <1>3, <1>8, <2>6 DEF TakesOut, Line
    <3>2. line.qty < 0 => Lowers(form, c)
      BY <1>1, <1>3, <1>8 DEF Lowers, Line
    <3>3. line.qty < 0 => MovesOut(form, c)
      <4>1. form.kind \in {"Add", "Count", "Move", "RackMove", "Edit"}
        BY <1>1, FormTyped DEF Deletes
      <4> QED BY <2>6, <3>1, <3>2, <4>1 DEF TakesOut, MovesOut
    <3>4. /\ OnHand(balance[c]) >= 0
          /\ ~ MovesOut(form, c) => OnHand(balance[c]) >= Committed(c)
      BY <1>4, <2>2, <2>6 DEF CoverOK, Left
    <3>5. line.qty < 0 => OnHand(balance[c]) + line.qty >= 0
      <4>1. line.qty < 0 => Draws(tx[t], c)
        BY <1>1, <1>3, <1>8, <3>3 DEF Draws, MovesOut
      <4> QED BY <2>2, <4>1 DEF CoverOK
    <3> HIDE DEF form, line
    <3> QED BY <1>4, <2>2, <2>3, <2>4, <3>1, <3>3, <3>4, <3>5
  <2> HIDE DEF form
  <2> QED BY <1>4, <1>5, <1>6, <2>5, <2>6 DEF CoverOK, OnHand
<1> QED BY <1>7, <1>8

LEMMA TakeOutCovers ==
  ASSUME LockInv, OwnInv, NEW t \in Requests, TakeOut(t),
         NEW c \in Cells, Committed(c) >= 0, CoverOK(t, c)
  PROVE  CoverOK(t, c)'
<1> DEFINE row == tx[t].found[tx[t].line]
           form == tx[t].form
<1>1. /\ tx[t].pc = "takeout" /\ HasTarget(form) /\ InPlace(tx[t])
  BY UnderWay DEF TakeOut, Active, Fits
<1>2. /\ Changes(t, row.cell) /\ row \in Row
      /\ balance'[row.cell] = OnHand(balance[row.cell]) - row.qty
      /\ tx'[t].form = form /\ tx'[t].pc \in {"takeout", "erase"}
  BY TakeOutChanges
<1>3. row.qty > 0 => TakesOut(form, row.cell)
  BY <1>1 DEF OwnInv, OwnOK, Begun, InPlace, TakesOut
<1> HIDE DEF row
<1>4. row.cell \in Cells /\ row.qty \in Int
  BY <1>2 DEF Row
<1>5. Committed(c)' = Committed(c) /\ Committed(c) \in Int
  BY <1>2, <1>4, ChangeStands, CommittedTyped DEF Stands
<1>6. ~ Draws(tx'[t], c)
  BY <1>2 DEF Draws
<1>7. /\ TakesOut(form, c) <=> TakesOut(tx'[t].form, c)
      /\ MovesOut(form, c) <=> MovesOut(tx'[t].form, c)
      /\ ~ MovesOut(form, c)
  BY <1>1, <1>2 DEF MovesOut, HasTarget
<1>8. CASE c # row.cell
  <2>1. balance'[c] = balance[c]
    BY <1>2, <1>4, <1>8 DEF Changes, LockInv
  <2>2. Holds(t, c)' <=> Holds(t, c)
    <3> DEFINE undo == Undo(t, row.cell)
    <3>1. tx'[t].undo = undo
      BY <1>2 DEF Changes
    <3>2. DOMAIN undo = DOMAIN tx[t].undo \cup {row.cell}
      BY <1>4, UndoFacts
    <3> HIDE DEF undo
    <3> QED BY <1>8, <3>1, <3>2 DEF Holds
  <2> QED BY <1>5, <1>6, <1>7, <2>1, <2>2 DEF CoverOK, OnHand
<1>9. CASE c = row.cell
  <2>1. lock[BalanceRow(c)] \in {Nobody, t}
    BY <1>2, <1>4, <1>9, ChangedLocks
  <2>2. Left(t, c) = OnHand(balance[c]) /\ OnHand(balance[c]) \in Int
    BY <2>1, LeftIsThere
  <2>3. OnHand(balance'[c]) = OnHand(balance[c]) - row.qty
    BY <1>2, <1>4, <1>9, <2>2, TransactionConstants DEF OnHand
  <2>4. ASSUME ~ TakesOut(form, c)
        PROVE  OnHand(balance'[c]) >= 0 /\ OnHand(balance'[c]) >= Committed(c)
    <3>1. row.qty <= 0
      <4>1. ~ (row.qty > 0)
        BY <1>3, <1>9, <2>4
      <4> QED BY <1>4, <4>1
    <3>2. OnHand(balance[c]) >= 0 /\ OnHand(balance[c]) >= Committed(c)
      BY <1>5, <1>7, <2>2, <2>4 DEF CoverOK, Left
    <3> QED BY <1>4, <1>5, <2>2, <2>3, <3>1, <3>2
  <2> HIDE DEF form
  <2> QED BY <1>5, <1>6, <1>7, <2>4 DEF CoverOK, OnHand
<1> QED BY <1>8, <1>9

LEMMA CommitCovers ==
  ASSUME LockInv, CoverInv, NEW t \in Requests, Commit(t),
         NEW c \in Cells, Sound(c), ~ Gone(c), ~ Gone(c)', NEW u \in Requests
  PROVE  Committed(c)' >= 0 /\ CoverOK(u, c)'
<1>1. /\ tx[t].pc = "commit" /\ tx'[t].pc = "committed" /\ tx'[t].form = tx[t].form
      /\ tx'[t].undo = << >> /\ balance' = balance /\ tx[t].form \in Forms[t] /\ Begun(t)
  BY CommittedTx, UnderWay DEF Active, Begun, Commit
<1>2. ~ TakesOut(tx[t].form, c)
  BY <1>1 DEF Gone
<1>3. Committed(c)' = IF Holds(t, c) THEN OnHand(balance[c]) ELSE Committed(c)
  BY CommitMoves
<1>4. Committed(c) >= 0 /\ CoverOK(t, c) /\ CoverOK(u, c)
      /\ Committed(c) \in Int /\ OnHand(balance[c]) \in Int
  BY CommittedTyped DEF CoverInv, LockInv, OnHand
<1>5. Committed(c)' >= 0
  BY <1>2, <1>3, <1>4 DEF CoverOK
<1>6. CASE u = t
  <2>1. ~ Holds(u, c)' /\ ~ Draws(tx'[u], c)
    BY <1>1, <1>6 DEF Holds, Draws
  <2> QED BY <1>5, <2>1 DEF CoverOK
<1>7. CASE u # t
  <2>1. tx'[u] = tx[u]
    BY <1>7, OthersStay
  <2>2. /\ Holds(u, c)' <=> Holds(u, c)
        /\ Draws(tx'[u], c) <=> Draws(tx[u], c)
        /\ Line(tx'[u]) = Line(tx[u])
        /\ TakesOut(tx'[u].form, c) <=> TakesOut(tx[u].form, c)
        /\ MovesOut(tx'[u].form, c) <=> MovesOut(tx[u].form, c)
    BY <2>1 DEF Holds
  <2>3. Holds(u, c) => ~ Holds(t, c)
    BY <1>7, CellLocks
  <2>4. ASSUME Draws(tx[u], c), Holds(t, c)
        PROVE  OnHand(balance[c]) >= Committed(c)
    <3>1. /\ tx[u].pc = "write" /\ InPlace(tx[u])
      BY <2>4, UnderWay DEF Draws, Active
    <3>2. MovesOut(tx[u].form, c)
      BY <2>4, <3>1 DEF Draws, Line, MovesOut, Lowers, InPlace
    <3>3. ~ MovesOut(tx[t].form, c)
      BY <1>1, <1>7, <3>1, <3>2, OneMove DEF Sound
    <3> QED BY <1>2, <1>4, <2>4, <3>3 DEF CoverOK
  <2>5. Draws(tx[u], c) => Line(tx[u]).qty \in Int
    <3>1. Draws(tx[u], c) => Line(tx[u]) \in Row
      BY LineTyped DEF Draws, Line
    <3> QED BY <3>1 DEF Row
  <2>6. Draws(tx[u], c) => Left(u, c)' + Line(tx[u]).qty >= 0
    <3>1. Left(u, c)' = IF Holds(u, c) THEN OnHand(balance[c]) ELSE Committed(c)'
      BY <1>1, <2>2 DEF Left, OnHand
    <3> HIDE DEF Line, Draws
    <3> QED BY <1>3, <1>4, <2>3, <2>4, <2>5, <3>1 DEF CoverOK, Left
  <2>7. Holds(u, c) => OnHand(balance[c])' = OnHand(balance[c]) /\ Committed(c)' = Committed(c)
    BY <1>1, <1>3, <2>3 DEF OnHand
  <2>8. Holds(u, c)' /\ ~ TakesOut(tx'[u].form, c) =>
          /\ OnHand(balance'[c]) >= 0
          /\ ~ MovesOut(tx'[u].form, c) => OnHand(balance'[c]) >= Committed(c)'
    BY <1>1, <1>4, <2>2, <2>7 DEF CoverOK
  <2>9. Draws(tx'[u], c) => Left(u, c)' + Line(tx'[u]).qty >= 0
    <3> HIDE DEF Draws, Left, Line
    <3> QED BY <2>2, <2>6
  <2> QED BY <1>5, <2>8, <2>9 DEF CoverOK, OnHand, TakesOut
<1> QED BY <1>5, <1>6, <1>7

LEMMA CoverStep == LockInv /\ OwnInv /\ CoverInv /\ [Next]_vars => CoverInv'
<1> SUFFICES ASSUME LockInv, OwnInv, CoverInv, [Next]_vars,
                    NEW c \in Cells, Sound(c), ~ Gone(c)'
             PROVE  Committed(c)' >= 0 /\ \A u \in Requests : CoverOK(u, c)'
  BY DEF CoverInv, Sound
<1>1. ASSUME NEW t \in Requests, StepOK(t) \/ Ends(t),
             Committed(c) >= 0 /\ CoverOK(t, c) => CoverOK(t, c)'
      PROVE  Committed(c)' >= 0 /\ \A u \in Requests : CoverOK(u, c)'
  <2>1. Committed(c) >= 0 /\ \A u \in Requests : CoverOK(u, c)
    BY <1>1, GoneStays DEF CoverInv
  <2>2. Committed(c)' = Committed(c)
    BY <1>1, QuietStands, ChangeStands, EndStands DEF StepOK, Stands
  <2> QED BY <1>1, <2>1, <2>2, OthersCover
<1>2. ASSUME NEW t \in Requests, Ends(t)
      PROVE  Committed(c)' >= 0 /\ \A u \in Requests : CoverOK(u, c)'
  <2>1. CoverOK(t, c)'
    BY <1>2, EndedTx DEF CoverOK, Holds, Draws
  <2> QED BY <1>1, <1>2, <2>1
<1>3. ASSUME NEW t \in Requests, NEW form \in Forms[t], Begin(t, form)
      PROVE  Committed(c)' >= 0 /\ \A u \in Requests : CoverOK(u, c)'
  <2>1. /\ StepOK(t) /\ tx'[t].pc \in {"number", "header", "rackout"} /\ DOMAIN tx'[t].undo = {}
    BY <1>3, BeginQuiet DEF StepOK, GoesOnOK, InPlace
  <2>2. CoverOK(t, c)'
    BY <2>1 DEF CoverOK, Holds, Draws
  <2> QED BY <1>1, <2>1, <2>2
<1>4. ASSUME NEW t \in Requests, Commit(t)
      PROVE  Committed(c)' >= 0 /\ \A u \in Requests : CoverOK(u, c)'
  BY <1>4, GoneStays, CommitCovers
<1>5. ASSUME NEW t \in Requests, Statement(t), StepOK(t), ~ Ends(t), ~ Commit(t)
      PROVE  Committed(c)' >= 0 /\ \A u \in Requests : CoverOK(u, c)'
  <2>1. ~ Gone(c)
    BY <1>5, GoneStays
  <2>2. Committed(c) >= 0 /\ CoverOK(t, c)
    BY <2>1 DEF CoverInv
  <2>3. CoverOK(t, c)'
    BY <1>5, <2>2, PlainOrNot, PlainCovers, WriteCovers, TakeOutCovers
  <2> QED BY <1>1, <1>5, <2>3
<1>6. CASE UNCHANGED vars
  <2>1. UNCHANGED <<balance, lock, tx>>
    BY <1>6 DEF vars, tables
  <2>2. Committed(c)' = Committed(c) /\ (Gone(c)' <=> Gone(c))
    BY <2>1 DEF Committed, Gone, OnHand
  <2>3. \A u \in Requests : CoverOK(u, c)' <=> CoverOK(u, c)
    BY <2>1, <2>2 DEF CoverOK, Holds, OnHand, Draws, Left, Line
  <2> QED BY <2>2, <2>3 DEF CoverInv
<1> QED BY <1>2, <1>3, <1>4, <1>5, <1>6, StepSorted, StatementSorted

LEMMA CoverInit == Init => CoverInv
<1> SUFFICES ASSUME Init, NEW c \in Cells, Sound(c)
             PROVE  Committed(c) >= 0 /\ \A t \in Requests : CoverOK(t, c)
  BY DEF CoverInv
<1>1. \A t \in Requests : CoverOK(t, c)
  BY DEF Init, CoverOK, Holds, Draws, Fresh
<1>2. LockInv
  BY LockInit
<1>3. lock[BalanceRow(c)] = Nobody
  BY BalanceRows DEF Init
<1>4. Committed(c) = OnHand(Opening[c])
  BY <1>2, <1>3, CellLocks DEF Init
<1> QED BY <1>1, <1>4 DEF Sound

LEMMA CoverImplies == LockInv /\ CoverInv => MovesNeverOverdraw
<1> SUFFICES ASSUME LockInv, CoverInv, NEW c \in Cells, OnHand(balance[c]) < 0,
                    ~ (OnHand(Opening[c]) < 0), ~ TwoSeries(c),
                    \A t \in Requests : ~ TakesOut(tx[t].form, c)
             PROVE  FALSE
  BY DEF MovesNeverOverdraw
<1>1. ~ Gone(c) /\ OnHand(balance[c]) \in Int
  BY DEF Gone, LockInv, OnHand
<1>s. Sound(c)
  BY TransactionConstants DEF Sound, OnHand
<1>2. Committed(c) >= 0 /\ \A t \in Requests : CoverOK(t, c)
  BY <1>1, <1>s DEF CoverInv
<1>3. CASE lock[BalanceRow(c)] = Nobody
  BY <1>1, <1>2, <1>3, CellLocks
<1>4. CASE lock[BalanceRow(c)] # Nobody
  <2>1. PICK t \in Requests : Holds(t, c)
    BY <1>4, CellLocks
  <2> QED BY <1>1, <1>2, <2>1 DEF CoverOK
<1> QED BY <1>3, <1>4

(* No stock transfer overdraws a godown, whatever runs beside it and fails:*)
(* a balance below zero was below zero before, or is owed to another kind  *)
(* of request that took stock out, or to transfers that drew from two      *)
(* series (MovesNeverOverdraw).                                            *)
THEOREM TransfersAreCovered == Spec => []MovesNeverOverdraw
<1>1. Init => LockInv /\ OwnInv /\ CoverInv
  BY LockInit, OwnInit, CoverInit
<1>2. LockInv /\ OwnInv /\ CoverInv /\ [Next]_vars => (LockInv /\ OwnInv /\ CoverInv)'
  BY LockStep, OwnStep, CoverStep
<1>3. LockInv /\ CoverInv => MovesNeverOverdraw
  BY CoverImplies
<1> QED BY <1>1, <1>2, <1>3, PTL DEF Spec
=============================================================================
