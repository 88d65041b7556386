-------------------------------- MODULE Sums --------------------------------
(***************************************************************************)
(* The sum of a function over 1..n, and what the rows of a document move.  *)
(* The sum is a recursive function, not a fold over a set, so that its     *)
(* value can be reasoned about: module SumsProofs shows what adding up,    *)
(* clearing and changing one entry does to it.                             *)
(***************************************************************************)
EXTENDS Integers, Sequences

(* The running totals 0, f[1], f[1] + f[2], ... of f up to n. *)
Totals(f, n) ==
  LET s[i \in 0..n] == IF i = 0 THEN 0 ELSE s[i - 1] + f[i] IN s

SumTo(f, n) == Totals(f, n)[n]

(* The net quantity that a sequence of rows moves into a cell. *)
Net(rows, c) ==
  SumTo([i \in 1..Len(rows) |-> IF rows[i].cell = c THEN rows[i].qty ELSE 0], Len(rows))
=============================================================================
