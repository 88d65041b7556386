---------------------------- MODULE MCPageForms ----------------------------
(***************************************************************************)
(* Instances of PageForms for TLC.                                         *)
(***************************************************************************)
EXTENDS PageForms

(* Every page with a form.                                                 *)
Formed == {p \in AllPages : PageOf[p].form # Plain}

(* Any idle slot takes the next save.                                      *)
SlotSymmetry == Permutations(Slots)
=============================================================================
