----------------------------- MODULE PagesTrade -----------------------------
(***************************************************************************)
(* The pages of features/purchase, sales, dispatch, finance and crm, the   *)
(* dashboard and the reports.  A form with several lines has one line      *)
(* here: what it needs is what a line needs to be among those sent.        *)
(***************************************************************************)
EXTENDS PageShape

(* PurchaseOrdersPage.                                                     *)
PurchaseOrderForm ==
  [Toggled EXCEPT !.needs = {"supplier", "line"}, !.kept = {"supplier"},
     !.create = "createPurchaseOrder"]
PurchaseOrderList ==
  Listing({"listPurchaseOrders", "listSuppliers", "listProducts"}, {"deletePurchaseOrder"})
PurchaseOrderView == Listing({"getPurchaseOrder"}, {})

(* GrnPage: choosing an order fetches it, and its answer, whichever order  *)
(* has been chosen since, becomes the lines.                               *)
GrnForm ==
  [Toggled EXCEPT !.needs = {"order", "lines"}, !.of = {<<"lines", "order">>},
     !.source = "filled", !.create = "createGrn"]
GrnList == Listing({"listGrns", "listPurchaseOrders"}, {"deleteGrn"})
GrnView == Listing({"getGrn"}, {})

(* EwayBillsPage.                                                          *)
EwayBillForm ==
  [Toggled EXCEPT !.needs = {"number", "supplier", "date"}, !.key = {"number"},
     !.create = "createEwayBill"]
EwayBillList == Listing({"listEwayBills", "listSuppliers"}, {"deleteEwayBill"})

(* PurchaseInvoiceCreatePage: the bills offered are asked for the supplier *)
(* chosen; until they come, those of the supplier before are on show.      *)
PurchaseInvoiceForm ==
  [Plain EXCEPT !.needs = {"supplier", "line"}, !.extra = {"bill"},
     !.of = {<<"bill", "supplier">>}, !.source = "previous",
     !.create = "createPurchaseInvoice", !.after = "leaves"]
PurchaseInvoiceChoices ==
  Listing({"listSuppliers", "listPurchaseOrders", "listGrns", "listProducts",
           "listEwayBills"}, {})

(* PurchaseInvoiceViewPage: one invoice, and a form for it.                *)
PurchaseInvoiceEdit ==
  [Plain EXCEPT !.needs = {"line"}, !.update = "updatePurchaseInvoice"]
PurchaseInvoiceView ==
  Listing({"getPurchaseInvoice", "listProducts", "listEwayBills"}, {})

(* PurchaseInvoicesPage.                                                   *)
PurchaseInvoiceList == Listing({"listPurchaseInvoices"}, {"deletePurchaseInvoice"})

-----------------------------------------------------------------------------
(* QuotationsPage: an edit fetches the quotation first and then replaces   *)
(* whatever form is open, but not the item that is being entered.  A trip  *)
(* for a new product comes back to that item.                              *)
QuotationForm ==
  [Plain EXCEPT !.needs = {"customer", "line"}, !.create = "createQuotation",
     !.update = "updateQuotation", !.edit = "fetched", !.trips = {"customer"},
     !.items = {"line"}]
QuotationList ==
  [Bare EXCEPT !.shows = {"listQuotations", "listCustomers", "listProducts"},
     !.acts = {"createSalesOrder", "deleteQuotation"}, !.asks = {"deleteQuotation"}]
QuotationView == Listing({"getQuotation", "getCompany"}, {})

(* SalesOrdersPage: an order is turned into an invoice at one click.       *)
SalesOrderForm ==
  [Toggled EXCEPT !.needs = {"customer", "line"}, !.create = "createSalesOrder",
     !.trips = {"customer", "line"}]
SalesOrderList ==
  [Bare EXCEPT !.shows = {"listSalesOrders", "listCustomers", "listProducts"},
     !.acts = {"createInvoice", "deleteSalesOrder"}, !.asks = {"deleteSalesOrder"}]
SalesOrderView == Listing({"getSalesOrder", "getCompany"}, {})

(* InvoiceCreatePage: the vehicles are asked for the transporter chosen.   *)
InvoiceForm ==
  [Plain EXCEPT !.needs = {"customer", "line"}, !.extra = {"transporter", "vehicle"},
     !.of = {<<"vehicle", "transporter">>}, !.source = "previous",
     !.create = "createInvoice", !.after = "leaves", !.trips = {"customer", "line"}]
InvoiceChoices ==
  Listing({"listCustomers", "listProducts", "listTransporters", "listVehicles"}, {})

(* InvoiceListPage, and InvoiceViewPage, which asks for a reason to cancel *)
(* the e-invoice.                                                          *)
InvoiceList == Listing({"listInvoices"}, {"deleteInvoice"})
InvoiceView ==
  [Bare EXCEPT !.shows = {"getInvoice", "getCompany"},
     !.acts = {"generateEInvoice", "cancelEInvoice"}, !.asks = {"cancelEInvoice"}]

(* PaymentTransactionsPage: one form for new payments, another for edits,  *)
(* each with its own button.                                               *)
PaymentForm ==
  [Plain EXCEPT !.needs = {"customer", "amount"}, !.extra = {"invoice"},
     !.of = {<<"invoice", "customer">>}, !.checked = TRUE, !.busy = "own",
     !.create = "createVoucherSplit"]
PaymentEdit ==
  [Plain EXCEPT !.needs = {"customer", "amount"}, !.extra = {"invoice", "cheque", "reference"},
     !.with = {<<"cheque", "reference">>}, !.of = {<<"invoice", "customer">>},
     !.checked = TRUE, !.busy = "own", !.update = "updateVoucher"]
PaymentList == Listing({"listVouchers", "listCustomers", "listInvoices"}, {"deleteVoucher"})

-----------------------------------------------------------------------------
(* WaybillCreatePage: the vehicles are asked for the transporter chosen;   *)
(* an invoice has one waybill.                                             *)
WaybillForm ==
  [Plain EXCEPT !.needs = {"invoice"}, !.key = {"invoice"},
     !.extra = {"transporter", "vehicle"}, !.of = {<<"vehicle", "transporter">>},
     !.source = "previous", !.create = "createWaybill", !.after = "leaves"]
WaybillChoices == Listing({"listInvoices", "listTransporters", "listVehicles"}, {})

(* WaybillListPage and WaybillViewPage.                                    *)
WaybillList == Listing({"listWaybills"}, {"deleteWaybill"})
WaybillView ==
  [Bare EXCEPT !.shows = {"getWaybill", "getCompany"},
     !.acts = {"generateEwayBill", "cancelEwayBill"}, !.asks = {"cancelEwayBill"}]

-----------------------------------------------------------------------------
(* VouchersPage: the party is a customer or a supplier by the type, and    *)
(* the server takes the number as it comes.                                *)
VoucherForm ==
  [Toggled EXCEPT !.needs = {"type", "party", "amount"}, !.of = {<<"party", "type">>},
     !.kept = {"type"}, !.create = "createVoucher"]
VoucherList == Listing({"listVouchers", "listCustomers", "listSuppliers"}, {})

(* ExpensesPage.                                                           *)
ExpenseForm == [Toggled EXCEPT !.needs = {"category", "amount"}, !.create = "createExpense"]
ExpenseList == Listing({"listExpenses"}, {})

(* ReceivablesPage.                                                        *)
ReceivablesList == Listing({"receivables"}, {})

(* ComplaintsPage: a complaint that is open is resolved at one click.      *)
ComplaintForm ==
  [Toggled EXCEPT !.needs = {"customer", "subject"}, !.create = "createComplaint"]
ComplaintList ==
  [Bare EXCEPT !.shows = {"listComplaints", "listCustomers"},
     !.acts = {"resolveComplaint", "deleteComplaint"}, !.asks = {"deleteComplaint"}]

(* DashboardPage.                                                          *)
DashboardList == Listing({"getSummary"}, {})

(* ReportsPage: each tab's query runs while its tab is open.               *)
ReportList ==
  Listing({"stockSummary", "stockGodownSummary", "stockRackDetail", "inventoryStatus",
           "salesRegister", "collectionRegister", "receivablesAgeing",
           "customerTransactions", "listCustomers"}, {})
=============================================================================
