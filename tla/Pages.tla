------------------------------- MODULE Pages -------------------------------
(***************************************************************************)
(* The pages of the client by the name of their component: the form and    *)
(* the list of each.  Pages with two forms have two entries.               *)
(***************************************************************************)
EXTENDS TLC, PagesMasters, PagesStock, PagesTrade

At(f, l) == [form |-> f, list |-> l]

MastersPages ==
  [categories |-> At(CategoryForm, CategoryList),
   subCategories |-> At(SubCategoryForm, SubCategoryList),
   types |-> At(TypeForm, TypeList), products |-> At(ProductForm, ProductList),
   customers |-> At(CustomerForm, CustomerList), suppliers |-> At(SupplierForm, SupplierList),
   godowns |-> At(GodownForm, GodownList), godown |-> At(GodownPanel, GodownPanelList),
   racks |-> At(RackForm, RackList), rack |-> At(RackEdit, RackList),
   company |-> At(CompanyForm, CompanyList),
   employees |-> At(EmployeeForm, EmployeeList),
   attendance |-> At(AttendanceForm, AttendanceList),
   users |-> At(UserForm, UserList), roles |-> At(RoleForm, RoleList),
   log |-> At(Plain, LogList)]

StockPages ==
  [openings |-> At(OpeningForm, OpeningList),
   adjustments |-> At(AdjustmentForm, AdjustmentList),
   transfers |-> At(TransferForm, TransferList), offcuts |-> At(OffcutForm, OffcutList),
   rackCount |-> At(RackCountForm, RackStockList),
   rackMove |-> At(RackMoveForm, RackStockList), stock |-> At(Plain, StockList),
   plans |-> At(CuttingPlanForm, CuttingPlanList),
   cutting |-> At(CuttingEntryForm, CuttingEntryChoices),
   cuttingEntries |-> At(Plain, CuttingEntryList),
   cuttingEntry |-> At(Plain, CuttingEntryView),
   workOrders |-> At(WorkOrderForm, WorkOrderList), jobCards |-> At(JobCardForm, JobCardList),
   finish |-> At(FinishForm, JobCardList), batches |-> At(FurnaceForm, FurnaceList)]

TradePages ==
  [orders |-> At(PurchaseOrderForm, PurchaseOrderList), order |-> At(Plain, PurchaseOrderView),
   grns |-> At(GrnForm, GrnList), grn |-> At(Plain, GrnView),
   bills |-> At(EwayBillForm, EwayBillList),
   purchase |-> At(PurchaseInvoiceForm, PurchaseInvoiceChoices),
   purchaseInvoice |-> At(PurchaseInvoiceEdit, PurchaseInvoiceView),
   purchaseInvoices |-> At(Plain, PurchaseInvoiceList),
   quotations |-> At(QuotationForm, QuotationList), quotation |-> At(Plain, QuotationView),
   salesOrders |-> At(SalesOrderForm, SalesOrderList),
   salesOrder |-> At(Plain, SalesOrderView),
   newInvoice |-> At(InvoiceForm, InvoiceChoices), invoices |-> At(Plain, InvoiceList),
   invoice |-> At(Plain, InvoiceView), payments |-> At(PaymentForm, PaymentList),
   payment |-> At(PaymentEdit, PaymentList), newWaybill |-> At(WaybillForm, WaybillChoices),
   waybills |-> At(Plain, WaybillList), waybill |-> At(Plain, WaybillView),
   vouchers |-> At(VoucherForm, VoucherList), expenses |-> At(ExpenseForm, ExpenseList),
   receivables |-> At(Plain, ReceivablesList), complaints |-> At(ComplaintForm, ComplaintList),
   dashboard |-> At(Plain, DashboardList), reports |-> At(Plain, ReportList)]

PageOf == MastersPages @@ StockPages @@ TradePages
AllPages == DOMAIN PageOf
=============================================================================
