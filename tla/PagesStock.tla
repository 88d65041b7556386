----------------------------- MODULE PagesStock -----------------------------
(***************************************************************************)
(* The pages of features/inventory, features/cutting and                   *)
(* features/production.  A form with several lines has one line here: what *)
(* it needs is what a line needs to be among those sent.                   *)
(***************************************************************************)
EXTENDS PageShape

(* StockOpeningPage.                                                       *)
OpeningForm ==
  [Toggled EXCEPT !.needs = {"godown", "product", "qty"}, !.kept = {"godown"},
     !.create = "createStockOpening"]
OpeningList ==
  Listing({"listStockOpenings", "listGodowns", "listProducts"}, {"deleteStockOpening"})

(* StockAdjustmentsPage: a counted quantity may be zero.                   *)
AdjustmentForm ==
  [Toggled EXCEPT !.needs = {"godown", "product"}, !.kept = {"godown"},
     !.create = "createAdjustment"]
AdjustmentList ==
  Listing({"listAdjustments", "listGodowns", "listProducts"}, {"deleteAdjustment"})

(* StockTransfersPage: two different godowns; transfers are not deleted.   *)
TransferForm ==
  [Toggled EXCEPT !.needs = {"from", "to", "line"}, !.kept = {"from", "to"},
     !.differ = {<<"from", "to">>}, !.create = "createTransfer"]
TransferList == Listing({"listTransfers", "listGodowns", "listProducts"}, {})

(* OffcutsPage.                                                            *)
OffcutForm ==
  [Toggled EXCEPT !.needs = {"product", "size", "godown"}, !.create = "createOffcut"]
OffcutList == Listing({"listOffcuts", "listGodowns", "listProducts"}, {"deleteOffcut"})

(* RackStockPage has a form for a count and one for a transfer; choosing   *)
(* the other one, like Cancel, empties it.                                 *)
RackCountForm ==
  [Plain EXCEPT !.needs = {"product", "rack"}, !.create = "adjustRackStock"]
RackMoveForm ==
  [Plain EXCEPT !.needs = {"product", "from", "to"}, !.differ = {<<"from", "to">>},
     !.create = "transferRackStock"]
RackStockList == Listing({"listRackStock", "listProducts", "listRacks"}, {"deleteRackStock"})

(* StockPage.                                                              *)
StockList == Listing({"stockEnquiry", "listGodowns"}, {})

(* CuttingPlansPage: a saved plan shows its result over an emptied form.   *)
CuttingPlanForm ==
  [Toggled EXCEPT !.needs = {"line"}, !.extra = {"order"}, !.kept = {"order"},
     !.create = "createCuttingPlan", !.after = "stays"]
CuttingPlanList ==
  Listing({"listCuttingPlans", "listProducts", "listSalesOrders"}, {"deleteCuttingPlan"})

(* CuttingEntryCreatePage: choosing a quotation empties the lines and asks *)
(* for its products; whichever answer comes last is what the lines offer.  *)
(* The server looks up every quotation line it is sent.                    *)
CuttingEntryForm ==
  [Plain EXCEPT !.needs = {"quotation", "product", "godown"},
     !.of = {<<"product", "quotation">>}, !.source = "last", !.checked = TRUE,
     !.create = "createCuttingEntry", !.after = "leaves"]
CuttingEntryChoices ==
  Listing({"listQuotations", "listGodowns", "listRacks", "listRackStock"}, {})

(* CuttingEntryListPage and CuttingEntryViewPage.                          *)
CuttingEntryList == Listing({"listCuttingEntries"}, {})
CuttingEntryView ==
  [Bare EXCEPT !.shows = {"getCuttingEntry"},
     !.acts = {"deleteCuttingEntry", "deleteCuttingEntryDesign", "uploadCuttingEntryDesign"},
     !.asks = {"deleteCuttingEntry", "deleteCuttingEntryDesign"}]

(* WorkOrdersPage: a work order needs no sales order.                      *)
WorkOrderForm == [Toggled EXCEPT !.extra = {"order"}, !.create = "createWorkOrder"]
WorkOrderList == Listing({"listWorkOrders", "listSalesOrders"}, {"deleteWorkOrder"})

(* JobCardsPage: the form, and under a pending card the quantities it      *)
(* finishes with, whose button is never disabled.                          *)
JobCardForm ==
  [Toggled EXCEPT !.needs = {"workOrder", "product", "qtyIn"}, !.create = "createJobCard"]
FinishForm == [Plain EXCEPT !.update = "finishJobCard", !.busy = "never"]
JobCardList == Listing({"listJobCards", "listProducts", "listWorkOrders"}, {"deleteJobCard"})

(* FurnaceBatchesPage.                                                     *)
FurnaceForm ==
  [Toggled EXCEPT !.needs = {"thickness", "utilisation"}, !.create = "createFurnaceBatch"]
FurnaceList == Listing({"listFurnaceBatches"}, {"deleteFurnaceBatch"})
=============================================================================
