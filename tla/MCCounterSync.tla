--------------------------- MODULE MCCounterSync ---------------------------
(***************************************************************************)
(* Instances of CounterSync for TLC.                                       *)
(***************************************************************************)
EXTENDS CounterSync, TLC

CONSTANTS p1, p2

(* Passes are interchangeable; used only where no liveness is checked. *)
PassSymmetry == Permutations(Passes)
=============================================================================
