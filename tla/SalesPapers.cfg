CONSTANTS
  Ids = {a, b, c}
  Requests = {r1, r2}
  NoPaper = NoPaper
  MaxClashes = 1
  Kinds = {"Quotation", "SalesOrder", "Invoice", "WorkOrder", "JobCard", "Waybill"}
SPECIFICATION Spec
SYMMETRY Symmetry
INVARIANTS TypeOK NoStrandedPaper BilledOnce StatusFollowsPapers NumbersOnRecord
PROPERTY ConvertedStays
CHECK_DEADLOCK FALSE
