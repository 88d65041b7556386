---- MODULE MCSalesPapers ----
EXTENDS SalesPapers, TLC
Symmetry == {i @@ r : i \in Permutations(Ids), r \in Permutations(Requests)}
====
