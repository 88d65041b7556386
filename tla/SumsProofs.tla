----------------------------- MODULE SumsProofs -----------------------------
(***************************************************************************)
(* What a ledger needs to know of the sums of module Sums: a sum of        *)
(* integers is an integer, a sum of zeroes is zero, changing one entry     *)
(* changes the sum by exactly the difference, and the rows of a document   *)
(* move what its first rows move and then each of the others.  Induction is*)
(* used in the form of a set: a set that holds 0 and is closed under       *)
(* successor up to n holds all of 0..n (SetInduction).                     *)
(***************************************************************************)
EXTENDS Sums, WellFoundedInduction, TLAPS

(* Every non-empty set of naturals has a least element. *)
LEMMA LeastNatural ==
  ASSUME NEW S \in SUBSET Nat, S # {}
  PROVE  \E n \in S : \A m \in S : n <= m
<1>1. IsWellFoundedOn(OpToRel(<, Nat), Nat)
  BY NatLessThanWellFounded
<1>2. PICK n \in S : \A m \in S : ~ (<<m, n>> \in OpToRel(<, Nat))
  BY <1>1, WFMin
<1>3. \A m \in S : ~ (m < n)
  BY <1>2 DEF OpToRel
<1> QED
  BY <1>3

(* Induction up to n over the members of a set. *)
LEMMA SetInduction ==
  ASSUME NEW n \in Nat, NEW S,
         0 \in S,
         \A i \in 1..n : i - 1 \in S => i \in S
  PROVE  \A i \in 0..n : i \in S
<1> DEFINE Bad == {i \in 0..n : i \notin S}
<1>1. SUFFICES ASSUME Bad # {} PROVE FALSE
  OBVIOUS
<1>a. Bad \in SUBSET Nat
  OBVIOUS
<1>2. PICK b \in Bad : \A m \in Bad : b <= m
  BY <1>1, <1>a, LeastNatural, Zenon
<1>3. b \in 1..n /\ b - 1 \in 0..n
  BY <1>2
<1>4. b - 1 \notin Bad
  BY <1>2, <1>3
<1> QED
  BY <1>2, <1>3, <1>4

(* A function of running totals exists up to every k in 0..n. *)
LEMMA TotalsExist ==
  ASSUME NEW n \in Nat, NEW f
  PROVE  \E s : s = [i \in 0..n |-> IF i = 0 THEN 0 ELSE s[i - 1] + f[i]]
<1> DEFINE Upto(k) ==
      \E s : s = [i \in 0..k |-> IF i = 0 THEN 0 ELSE s[i - 1] + f[i]]
<1> DEFINE S == {k \in 0..n : Upto(k)}
<1>1. 0 \in S
  <2>1. [i \in 0..0 |-> 0]
          = [i \in 0..0 |-> IF i = 0 THEN 0 ELSE [j \in 0..0 |-> 0][i - 1] + f[i]]
    OBVIOUS
  <2>2. Upto(0)
    BY <2>1
  <2> QED
    BY <2>2
<1>2. ASSUME NEW k \in 1..n, k - 1 \in S PROVE k \in S
  <2>1. PICK s : s = [i \in 0..(k - 1) |-> IF i = 0 THEN 0 ELSE s[i - 1] + f[i]]
    BY <1>2
  <2> DEFINE t == [i \in 0..k |-> IF i = k THEN s[k - 1] + f[k] ELSE s[i]]
  <2>2. ASSUME NEW i \in 0..k
        PROVE  t[i] = IF i = 0 THEN 0 ELSE t[i - 1] + f[i]
    <3>1. CASE i = k
      <4>1. t[k - 1] = s[k - 1] /\ k # 0
        OBVIOUS
      <4> QED
        BY <3>1, <4>1
    <3>2. CASE i # k /\ i = 0
      BY <3>2, <2>1
    <3>3. CASE i # k /\ i # 0
      <4>1. i \in 0..(k - 1) /\ i - 1 \in 0..(k - 1) /\ i - 1 # k
        BY <3>3
      <4>2. t[i] = s[i] /\ t[i - 1] = s[i - 1]
        BY <4>1, <3>3
      <4>3. s[i] = s[i - 1] + f[i]
        BY <4>1, <3>3, <2>1
      <4> QED
        BY <4>2, <4>3, <3>3
    <3> QED
      BY <3>1, <3>2, <3>3
  <2>3. t = [i \in 0..k |-> IF i = 0 THEN 0 ELSE t[i - 1] + f[i]]
    BY <2>2
  <2>4. Upto(k)
    BY <2>3
  <2> QED
    BY <2>4
<1> HIDE DEF S
<1>3. \A i \in 0..n : i \in S
  BY <1>1, <1>2, SetInduction
<1>4. n \in S
  BY <1>3
<1> QED
  BY <1>4 DEF S

LEMMA TotalsDef ==
  ASSUME NEW n \in Nat, NEW f
  PROVE  Totals(f, n) = [i \in 0..n |-> IF i = 0 THEN 0 ELSE Totals(f, n)[i - 1] + f[i]]
  BY TotalsExist DEF Totals

LEMMA TotalsStep ==
  ASSUME NEW n \in Nat, NEW f
  PROVE  /\ Totals(f, n)[0] = 0
         /\ \A i \in 1..n : Totals(f, n)[i] = Totals(f, n)[i - 1] + f[i]
<1> DEFINE T == Totals(f, n)
<1>1. T = [i \in 0..n |-> IF i = 0 THEN 0 ELSE T[i - 1] + f[i]]
  BY TotalsDef
<1> HIDE DEF T
<1>2. T[0] = 0
  BY <1>1
<1>3. ASSUME NEW i \in 1..n PROVE T[i] = T[i - 1] + f[i]
  BY <1>1
<1> QED
  BY <1>2, <1>3 DEF T

LEMMA TotalsType ==
  ASSUME NEW n \in Nat, NEW f, \A i \in 1..n : f[i] \in Int
  PROVE  \A i \in 0..n : Totals(f, n)[i] \in Int
<1> DEFINE T == Totals(f, n)
           S == {i \in 0..n : T[i] \in Int}
<1>1. 0 \in S
  BY TotalsStep
<1>2. ASSUME NEW i \in 1..n, i - 1 \in S PROVE i \in S
  BY <1>2, TotalsStep
<1> HIDE DEF S
<1>3. \A i \in 0..n : i \in S
  BY <1>1, <1>2, SetInduction
<1> QED
  BY <1>3 DEF S

(* A sum of integers is an integer. *)
LEMMA SumType ==
  ASSUME NEW n \in Nat, NEW f, \A i \in 1..n : f[i] \in Int
  PROVE  SumTo(f, n) \in Int
  BY TotalsType DEF SumTo

(* A sum of zeroes is zero. *)
LEMMA SumZero ==
  ASSUME NEW n \in Nat, NEW f, \A i \in 1..n : f[i] = 0
  PROVE  SumTo(f, n) = 0
<1> DEFINE T == Totals(f, n)
           S == {i \in 0..n : T[i] = 0}
<1>1. 0 \in S
  BY TotalsStep
<1>2. ASSUME NEW i \in 1..n, i - 1 \in S PROVE i \in S
  BY <1>2, TotalsStep
<1> HIDE DEF S
<1>3. \A i \in 0..n : i \in S
  BY <1>1, <1>2, SetInduction
<1> QED
  BY <1>3 DEF S, SumTo

(* Changing the entry d of f into that of h moves the sum by the difference. *)
LEMMA SumUpdate ==
  ASSUME NEW n \in Nat, NEW f, NEW h, NEW d \in 1..n,
         \A i \in 1..n : f[i] \in Int /\ h[i] \in Int,
         \A i \in 1..n : i # d => h[i] = f[i]
  PROVE  SumTo(h, n) = SumTo(f, n) + (h[d] - f[d])
<1> DEFINE F == Totals(f, n)
           H == Totals(h, n)
           S == {i \in 0..n : H[i] = F[i] + (IF i < d THEN 0 ELSE h[d] - f[d])}
<1>1. \A i \in 0..n : F[i] \in Int /\ H[i] \in Int
  BY TotalsType
<1>2. 0 \in S
  BY TotalsStep, <1>1
<1>3. ASSUME NEW i \in 1..n, i - 1 \in S PROVE i \in S
  <2>1. F[i] = F[i - 1] + f[i] /\ H[i] = H[i - 1] + h[i]
    BY TotalsStep
  <2>2. H[i - 1] = F[i - 1] + (IF i - 1 < d THEN 0 ELSE h[d] - f[d])
    BY <1>3
  <2>3. F[i - 1] \in Int /\ H[i - 1] \in Int
    BY <1>1
  <2> HIDE DEF F, H
  <2>4. CASE i < d
    BY <2>1, <2>2, <2>3, <2>4
  <2>5. CASE i = d
    BY <2>1, <2>2, <2>3, <2>5
  <2>6. CASE i > d
    BY <2>1, <2>2, <2>3, <2>6
  <2> QED
    BY <2>4, <2>5, <2>6
<1> HIDE DEF S
<1>4. \A i \in 0..n : i \in S
  BY <1>2, <1>3, SetInduction
<1>5. n \in S
  BY <1>4
<1> QED
  BY <1>5 DEF S, SumTo

(* Totals that agree up to m are the same up to m. *)
LEMMA TotalsPrefix ==
  ASSUME NEW n \in Nat, NEW m \in 0..n, NEW f, NEW g, \A i \in 1..m : g[i] = f[i]
  PROVE  Totals(g, m)[m] = Totals(f, n)[m]
<1> DEFINE F == Totals(f, n)
           G == Totals(g, m)
           S == {i \in 0..m : G[i] = F[i]}
<1>1. /\ G[0] = 0 /\ F[0] = 0
      /\ \A i \in 1..m : G[i] = G[i - 1] + g[i] /\ F[i] = F[i - 1] + f[i]
  BY TotalsStep
<1> HIDE DEF F, G
<1>2. 0 \in S
  BY <1>1
<1>3. ASSUME NEW i \in 1..m, i - 1 \in S PROVE i \in S
  BY <1>1, <1>3
<1> HIDE DEF S
<1>4. \A i \in 0..m : i \in S
  BY <1>2, <1>3, SetInduction
<1>5. m \in S
  BY <1>4
<1> QED BY <1>5 DEF S, F, G

-----------------------------------------------------------------------------
(* The rows of a document, each of a quantity in a cell of C. *)
Rows(C) == [cell : C, qty : Int]

LEMMA NetTyped ==
  ASSUME NEW C, NEW rows \in Seq(Rows(C)), NEW c
  PROVE  Net(rows, c) \in Int
<1> DEFINE f == [i \in 1..Len(rows) |-> IF rows[i].cell = c THEN rows[i].qty ELSE 0]
<1>1. Len(rows) \in Nat /\ \A i \in 1..Len(rows) : rows[i] \in Rows(C)
  OBVIOUS
<1>2. \A i \in 1..Len(rows) : f[i] \in Int
  BY <1>1 DEF Rows
<1>3. SumTo(f, Len(rows)) \in Int
  <2> HIDE DEF f
  <2> QED BY <1>1, <1>2, SumType
<1> QED BY <1>3 DEF Net

LEMMA NetEmpty == \A c : Net(<< >>, c) = 0
<1> SUFFICES ASSUME NEW c PROVE Net(<< >>, c) = 0
  OBVIOUS
<1> DEFINE f == [i \in 1..Len(<< >>) |-> IF << >>[i].cell = c THEN << >>[i].qty ELSE 0]
<1>1. Len(<< >>) = 0
  OBVIOUS
<1>2. SumTo(f, 0) = 0
  <2>1. \A i \in 1..0 : f[i] = 0
    OBVIOUS
  <2> HIDE DEF f
  <2> QED BY <2>1, SumZero
<1> QED BY <1>1, <1>2 DEF Net

(* What the first rows of a document move into a cell, row by row. *)
NetUpto(rows, m, c) == Net(SubSeq(rows, 1, m), c)
Into(row, c) == IF row.cell = c THEN row.qty ELSE 0

LEMMA NetStepwise ==
  ASSUME NEW C, NEW rows \in Seq(Rows(C)), NEW c
  PROVE  /\ NetUpto(rows, 0, c) = 0
         /\ NetUpto(rows, Len(rows), c) = Net(rows, c)
         /\ \A m \in 1..Len(rows) :
              /\ NetUpto(rows, m, c) = NetUpto(rows, m - 1, c) + Into(rows[m], c)
              /\ NetUpto(rows, m, c) \in Int /\ NetUpto(rows, m - 1, c) \in Int
<1> DEFINE n == Len(rows)
           f == [i \in 1..n |-> IF rows[i].cell = c THEN rows[i].qty ELSE 0]
           F == Totals(f, n)
<1>0. n \in Nat /\ \A i \in 1..n : rows[i] \in Rows(C)
  OBVIOUS
<1>1. ASSUME NEW m \in 0..n
      PROVE  NetUpto(rows, m, c) = F[m]
  <2> DEFINE r == SubSeq(rows, 1, m)
             g == [i \in 1..Len(r) |-> IF r[i].cell = c THEN r[i].qty ELSE 0]
  <2>1. Len(r) = m /\ \A i \in 1..m : r[i] = rows[i]
    BY <1>0
  <2>2. \A i \in 1..m : g[i] = f[i]
    BY <1>0, <2>1
  <2>3. NetUpto(rows, m, c) = Totals(g, m)[m]
    BY <2>1 DEF NetUpto, Net, SumTo
  <2> HIDE DEF f, g, n
  <2> QED BY <1>0, <2>2, <2>3, TotalsPrefix
<1>2. Net(rows, c) = F[n]
  BY DEF Net, SumTo
<1>3. \A i \in 1..n : f[i] = Into(rows[i], c) /\ f[i] \in Int
  BY <1>0 DEF Into, Rows
<1> HIDE DEF f, n
<1>4. F[0] = 0 /\ \A i \in 1..n : F[i] = F[i - 1] + f[i]
  BY <1>0, TotalsStep
<1>5. \A i \in 0..n : F[i] \in Int
  BY <1>0, <1>3, TotalsType
<1> HIDE DEF F
<1>6. NetUpto(rows, 0, c) = 0 /\ NetUpto(rows, n, c) = Net(rows, c)
  BY <1>0, <1>1, <1>2, <1>4
<1>7. ASSUME NEW m \in 1..n
      PROVE  /\ NetUpto(rows, m, c) = NetUpto(rows, m - 1, c) + Into(rows[m], c)
             /\ NetUpto(rows, m, c) \in Int /\ NetUpto(rows, m - 1, c) \in Int
  <2>1. m \in 0..n /\ m - 1 \in 0..n
    BY <1>0
  <2>2. NetUpto(rows, m, c) = F[m] /\ NetUpto(rows, m - 1, c) = F[m - 1]
    BY <1>1, <2>1
  <2> QED BY <1>3, <1>4, <1>5, <2>1, <2>2
<1> QED BY <1>6, <1>7 DEF n

(* A row added at the end moves what it says.                              *)
LEMMA NetAppend ==
  ASSUME NEW C, NEW rows \in Seq(Rows(C)), NEW row \in Rows(C), NEW c
  PROVE  /\ Net(Append(rows, row), c) = Net(rows, c) + Into(row, c)
         /\ Append(rows, row) \in Seq(Rows(C))
<1> DEFINE r == Append(rows, row)
           n == Len(rows)
<1>1. r \in Seq(Rows(C)) /\ Len(r) = n + 1 /\ n \in Nat /\ r[n + 1] = row
  OBVIOUS
<1>2. SubSeq(r, 1, n) = rows
  BY <1>1
<1>3. NetUpto(r, n, c) = Net(rows, c)
  BY <1>2 DEF NetUpto
<1> HIDE DEF r, n
<1>4. /\ n + 1 \in 1..Len(r) /\ (n + 1) - 1 = n
      /\ NetUpto(r, n + 1, c) = NetUpto(r, (n + 1) - 1, c) + Into(r[n + 1], c)
      /\ NetUpto(r, Len(r), c) = Net(r, c)
  BY <1>1, NetStepwise
<1> QED BY <1>1, <1>3, <1>4 DEF r, n
=============================================================================
