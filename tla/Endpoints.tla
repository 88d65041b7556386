----------------------------- MODULE Endpoints -----------------------------
(***************************************************************************)
(* The calls of the client (the ...Api.ts files) as data: for a query the  *)
(* tags its answer is kept under and the tables of the server it comes     *)
(* from, for a mutation the tags it calls invalid and the tables it        *)
(* writes.  A document's header and lines are one table; a name a list     *)
(* only repeats (a customer's, a product's) is not counted as read, the    *)
(* rows that decide whether Delete is offered are.                         *)
(***************************************************************************)
EXTENDS TLC, Naturals

(* A tag without an id hits all answers under its type; one with the id of *)
(* a record only those provided with that id.                              *)
Every(types) == types \X {"any"}
This(type) == {<<type, "this">>}
Hits(t, u) == t[1] = u[1] /\ (t[2] = "any" \/ u[2] = "this")

AsksBy(ts, tables) == [kind |-> "query", tags |-> ts, tables |-> tables]
DoesBy(ts, tables) == [kind |-> "mutation", tags |-> ts, tables |-> tables]
Asks(types, tables) == AsksBy(Every(types), tables)
Does(types, tables) == DoesBy(Every(types), tables)
Own(type) == Asks({type}, {type})
Tells(type) == Does({type}, {type})

Stock == {"StockBalance", "StockMovement"}
ProductUses ==
  {"Quotation", "SalesOrder", "Invoice", "PurchaseOrder", "Grn", "PurchaseInvoice", "CuttingPlan",
   "JobCard", "StockAdjustment", "StockTransfer", "Offcut", "RackStock"} \cup Stock
CustomerUses == {"Quotation", "SalesOrder", "Invoice", "Voucher", "Complaint"}
SupplierUses == {"PurchaseOrder", "PurchaseInvoice", "Voucher", "EwayBill"}

(* Master data.                                                            *)
mastersApi ==
  [getCompany |-> Own("Company"), updateCompany |-> Tells("Company"),
   listProducts |-> Asks({"Product"}, {"Product"} \cup ProductUses),
   createProduct |-> Does({"Product", "Stock", "StockOpening"}, {"Product", "StockOpening"} \cup Stock),
   updateProduct |-> Tells("Product"),
   deleteProduct |-> Does({"Product"}, {"Product", "RackStock", "StockBalance"}),
   listCustomers |-> Asks({"Customer"}, {"Customer"} \cup CustomerUses),
   createCustomer |-> Tells("Customer"), updateCustomer |-> Tells("Customer"),
   deleteCustomer |-> Tells("Customer"),
   listTransporters |-> Own("Transporter"), listVehicles |-> Asks({}, {"Vehicle"}),
   listCategories |-> Asks({"Category"}, {"Category", "SubCategory", "Product"}),
   createCategory |-> Tells("Category"),
   updateCategory |-> Does({"Category", "SubCategory"}, {"Category"}),
   deleteCategory |-> Tells("Category"),
   listSubCategories |-> Asks({"SubCategory"}, {"SubCategory", "Category", "Product"}),
   createSubCategory |-> Does({"SubCategory", "Category"}, {"SubCategory"}),
   updateSubCategory |-> Does({"SubCategory", "Category"}, {"SubCategory"}),
   deleteSubCategory |-> Does({"SubCategory", "Category"}, {"SubCategory"}),
   listTypes |-> Asks({"Type"}, {"Type", "Product"}), listActiveTypes |-> Own("Type"),
   createType |-> Tells("Type"), updateType |-> Tells("Type"),
   deactivateType |-> Tells("Type"), activateType |-> Tells("Type")]

(* Users and roles, the gateways' log, the session, staff, notifications.  *)
adminApi ==
  [listPermissions |-> Asks({}, {"Permission"}), listRoles |-> Own("Role"),
   updateRolePermissions |-> Tells("Role"), listUsers |-> Own("User"),
   createUser |-> Tells("User"), updateUserRoles |-> Tells("User"),
   deactivateUser |-> Tells("User"), activateUser |-> Tells("User")]
integrationApi == [listGatewayLogs |-> Asks({}, {"GatewayLog"})]
authApi ==
  [me |-> Asks({}, {"User"}), login |-> Does({}, {"User"}), logoutApi |-> Does({}, {}),
   mfaSetup |-> Does({}, {"User"}), mfaEnable |-> Does({}, {"User"}),
   mfaDisable |-> Does({}, {"User"}), changePassword |-> Does({}, {"User"}),
   unlockUser |-> Tells("User")]
hrApi ==
  [listEmployees |-> Own("Employee"), createEmployee |-> Tells("Employee"),
   deactivateEmployee |-> Does({"Employee"}, {"Employee", "User"}),
   listAttendance |-> Own("Attendance"), markAttendance |-> Tells("Attendance"),
   deleteAttendance |-> Tells("Attendance")]
notificationsApi ==
  [listNotifications |-> Own("Notification"), markNotificationRead |-> Tells("Notification"),
   markAllNotificationsRead |-> Tells("Notification"), deleteNotification |-> Tells("Notification")]

(* Stock, cutting, production.                                             *)
inventoryApi ==
  [listGodowns |-> Asks({"Godown"}, {"Godown", "Rack"}),
   getGodown |-> AsksBy(This("Godown") \cup Every({"Rack"}), {"Godown", "Rack"}),
   createGodown |-> Tells("Godown"), updateGodown |-> Tells("Godown"), listRacks |-> Own("Rack"),
   createRack |-> Does({"Rack", "Godown"}, {"Rack"}),
   updateRack |-> Does({"Rack", "Godown"}, {"Rack"}),
   listRackStock |-> Own("RackStock"), adjustRackStock |-> Tells("RackStock"),
   transferRackStock |-> Does({"RackStock", "Stock"}, {"RackStock"} \cup Stock),
   deleteRackStock |-> Does({"RackStock", "Product"}, {"RackStock"}),
   stockEnquiry |-> Asks({"Stock"}, {"StockBalance"}),
   listStockOpenings |-> Own("StockOpening"),
   createStockOpening |-> Does({"StockOpening", "Stock"}, {"StockOpening"} \cup Stock),
   deleteStockOpening |-> Does({"StockOpening", "Stock"}, {"StockOpening"} \cup Stock),
   listAdjustments |-> Own("StockAdjustment"),
   createAdjustment |-> Does({"StockAdjustment", "Stock"}, {"StockAdjustment"} \cup Stock),
   deleteAdjustment |-> Does({"StockAdjustment", "Stock"}, {"StockAdjustment"} \cup Stock),
   listTransfers |-> Own("StockTransfer"),
   createTransfer |-> Does({"StockTransfer", "Stock"}, {"StockTransfer"} \cup Stock),
   listOffcuts |-> Own("Offcut"), createOffcut |-> Tells("Offcut"),
   deleteOffcut |-> Tells("Offcut")]
cuttingApi ==
  [listCuttingPlans |-> Own("CuttingPlan"), createCuttingPlan |-> Tells("CuttingPlan"),
   deleteCuttingPlan |-> Does({"CuttingPlan", "SalesOrder"}, {"CuttingPlan"})]
cuttingEntryApi ==
  [listCuttingEntries |-> Own("CuttingEntry"),
   getCuttingEntry |-> AsksBy(This("CuttingEntry"), {"CuttingEntry"}),
   createCuttingEntry |->
     Does({"CuttingEntry", "Stock"}, {"CuttingEntry", "RackStock"} \cup Stock),
   deleteCuttingEntry |->
     Does({"CuttingEntry", "Stock"}, {"CuttingEntry", "RackStock"} \cup Stock),
   uploadCuttingEntryDesign |-> DoesBy(This("CuttingEntry"), {"CuttingEntry"}),
   deleteCuttingEntryDesign |-> DoesBy(This("CuttingEntry"), {"CuttingEntry"})]
productionApi ==
  [listWorkOrders |-> Asks({"WorkOrder"}, {"WorkOrder", "JobCard"}),
   createWorkOrder |-> Does({"WorkOrder", "SalesOrder"}, {"WorkOrder", "SalesOrder"}),
   deleteWorkOrder |-> Does({"WorkOrder", "SalesOrder"}, {"WorkOrder", "SalesOrder"}),
   listJobCards |-> Own("JobCard"),
   createJobCard |-> Does({"JobCard", "WorkOrder"}, {"JobCard", "WorkOrder"}),
   finishJobCard |-> Tells("JobCard"),
   deleteJobCard |-> Does({"JobCard", "WorkOrder"}, {"JobCard", "WorkOrder"}),
   listFurnaceBatches |-> Own("FurnaceBatch"), createFurnaceBatch |-> Tells("FurnaceBatch"),
   deleteFurnaceBatch |-> Tells("FurnaceBatch")]

(* Purchase.                                                               *)
PurchaseWrites == {"PurchaseInvoice", "EwayBill"} \cup Stock
purchaseApi ==
  [listSuppliers |-> Asks({"Supplier"}, {"Supplier"} \cup SupplierUses),
   createSupplier |-> Tells("Supplier"), updateSupplier |-> Tells("Supplier"),
   deleteSupplier |-> Tells("Supplier"),
   listPurchaseOrders |-> Asks({"PurchaseOrder"}, {"PurchaseOrder", "Grn"}),
   getPurchaseOrder |-> AsksBy(This("PurchaseOrder"), {"PurchaseOrder", "Grn"}),
   createPurchaseOrder |-> Tells("PurchaseOrder"), deletePurchaseOrder |-> Tells("PurchaseOrder"),
   listGrns |-> Asks({"Grn"}, {"Grn", "PurchaseInvoice"}),
   getGrn |-> AsksBy(This("Grn"), {"Grn", "PurchaseInvoice"}),
   createGrn |-> Does({"Grn", "Stock", "PurchaseOrder"}, {"Grn"} \cup Stock),
   deleteGrn |-> Does({"Grn", "Stock", "PurchaseOrder"}, {"Grn"} \cup Stock),
   listPurchaseInvoices |-> Own("PurchaseInvoice"),
   getPurchaseInvoice |-> AsksBy(This("PurchaseInvoice"), {"PurchaseInvoice"}),
   createPurchaseInvoice |-> Does({"PurchaseInvoice", "Grn", "Stock", "EwayBill"}, PurchaseWrites),
   updatePurchaseInvoice |->
     DoesBy(Every({"PurchaseInvoice", "EwayBill"}) \cup This("PurchaseInvoice"), PurchaseWrites),
   deletePurchaseInvoice |-> Does({"PurchaseInvoice", "Grn", "Stock", "EwayBill"}, PurchaseWrites),
   listEwayBills |-> Asks({"EwayBill"}, {"EwayBill", "PurchaseInvoice"}),
   createEwayBill |-> Tells("EwayBill"), deleteEwayBill |-> Tells("EwayBill")]

(* Sales, dispatch, finance, complaints, dashboard, reports.               *)
InvoiceUses == {"Invoice", "Voucher", "Waybill", "Complaint"}
salesApi ==
  [listInvoices |-> Asks({"Invoice"}, InvoiceUses),
   getInvoice |-> AsksBy(This("Invoice"), InvoiceUses),
   createInvoice |-> Does({"Invoice", "Dashboard", "SalesOrder"}, {"Invoice", "Offcut"} \cup Stock),
   cancelInvoice |-> Does({"Invoice", "Dashboard", "SalesOrder"}, {"Invoice"}),
   deleteInvoice |-> Does({"Invoice", "Dashboard", "SalesOrder"}, {"Invoice"} \cup Stock),
   generateEInvoice |-> DoesBy(This("Invoice"), {"Invoice", "GatewayLog"}),
   cancelEInvoice |-> DoesBy(This("Invoice"), {"Invoice", "GatewayLog"})]
OrderUses == {"SalesOrder", "CuttingPlan", "Invoice", "WorkOrder"}
salesExtraApi ==
  [listQuotations |-> Asks({"Quotation"}, {"Quotation", "SalesOrder"}),
   getQuotation |-> AsksBy(This("Quotation"), {"Quotation", "SalesOrder"}),
   createQuotation |-> Does({"Quotation"}, {"Quotation", "Customer"}),
   updateQuotation |-> DoesBy(Every({"Quotation"}) \cup This("Quotation"), {"Quotation"}),
   deleteQuotation |-> Tells("Quotation"),
   getQuotationCuttingProducts |-> AsksBy(This("Quotation"), {"Quotation"}),
   listSalesOrders |-> Asks({"SalesOrder"}, OrderUses),
   getSalesOrder |-> Asks({"SalesOrder"}, OrderUses),
   createSalesOrder |-> Does({"SalesOrder", "Quotation"}, {"SalesOrder", "Quotation"}),
   deleteSalesOrder |-> Does({"SalesOrder", "Quotation"}, {"SalesOrder"})]
counterBillingApi ==
  [listCounterInvoices |-> Own("CounterInvoice"),
   createCounterInvoice |-> Does({"CounterInvoice", "Stock", "Dashboard"},
                                 {"CounterInvoice", "Invoice", "Offcut"} \cup Stock)]
dispatchApi ==
  [listWaybills |-> Own("Waybill"), getWaybill |-> AsksBy(This("Waybill"), {"Waybill"}),
   createWaybill |-> Does({"Waybill", "Dashboard"}, {"Waybill"}),
   cancelWaybill |-> Tells("Waybill"),
   generateEwayBill |-> DoesBy(This("Waybill"), {"Waybill", "Invoice", "GatewayLog"}),
   cancelEwayBill |-> DoesBy(This("Waybill"), {"Waybill", "GatewayLog"}),
   deleteWaybill |-> Tells("Waybill")]
financeApi ==
  [listVouchers |-> Own("Voucher"), getVoucher |-> AsksBy(This("Voucher"), {"Voucher"}),
   createVoucher |-> Tells("Voucher"), createVoucherSplit |-> Tells("Voucher"),
   updateVoucher |-> DoesBy(Every({"Voucher"}) \cup This("Voucher"), {"Voucher"}),
   deleteVoucher |-> Tells("Voucher"),
   listExpenses |-> Own("Expense"), createExpense |-> Tells("Expense"),
   receivables |-> Asks({}, {"Invoice", "Voucher"})]
crmApi ==
  [listComplaints |-> Own("Complaint"), createComplaint |-> Tells("Complaint"),
   resolveComplaint |-> Tells("Complaint"), deleteComplaint |-> Tells("Complaint")]
dashboardApi ==
  [getSummary |-> Asks({"Dashboard"}, {"Invoice", "Customer", "Product", "Waybill"})]
reportsApi ==
  [stockSummary |-> Asks({}, {"StockBalance"}), stockGodownSummary |-> Asks({}, {"StockBalance"}),
   stockRackDetail |-> Asks({}, {"StockBalance", "RackStock"}),
   inventoryStatus |-> Asks({}, {"StockBalance", "Offcut"}),
   salesRegister |-> Asks({}, {"Invoice"}), collectionRegister |-> Asks({}, {"Invoice", "Voucher"}),
   receivablesAgeing |-> Asks({}, {"Invoice"}),
   customerTransactions |-> Asks({}, {"Invoice", "Voucher"})]

EndpointOf ==
  mastersApi @@ adminApi @@ integrationApi @@ authApi @@ hrApi @@ notificationsApi
    @@ inventoryApi @@ cuttingApi @@ cuttingEntryApi @@ productionApi @@ purchaseApi
    @@ salesApi @@ salesExtraApi @@ counterBillingApi @@ dispatchApi @@ financeApi
    @@ crmApi @@ dashboardApi @@ reportsApi
Queries == {e \in DOMAIN EndpointOf : EndpointOf[e].kind = "query"}
Mutations == DOMAIN EndpointOf \ Queries

(* Mutation m changes what query q shows; it says so.                      *)
Changes(m, q) == EndpointOf[m].tables \cap EndpointOf[q].tables # {}
Told(m, q) == \E t \in EndpointOf[m].tags, u \in EndpointOf[q].tags : Hits(t, u)
=============================================================================
