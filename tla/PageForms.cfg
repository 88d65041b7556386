\* Every form of the client, two saves under way.
SPECIFICATION Spec
CONSTANTS
  Mounted <- Formed
  Slots = {s1, s2}
SYMMETRY SlotSymmetry
INVARIANTS
  TypeOK
  DraftBookedOnce
  EditsStayOnTheirRow
  DependentsFit
