--------------------------- MODULE PagesMasters ---------------------------
(***************************************************************************)
(* The master data pages (features/masters, purchase/SuppliersPage) and    *)
(* those of features/hr and features/admin.                                *)
(***************************************************************************)
EXTENDS PageShape

(* CategoriesPage: code and name are trimmed and required; Cancel and a    *)
(* saved form forget the row that was edited.                              *)
CategoryForm ==
  [Plain EXCEPT !.needs = {"code", "name"}, !.key = {"code"},
     !.create = "createCategory", !.update = "updateCategory"]
CategoryList == Listing({"listCategories"}, {"deleteCategory"})

(* SubCategoriesPage: the same, under a category.                          *)
SubCategoryForm ==
  [Plain EXCEPT !.needs = {"code", "name", "category"}, !.key = {"code"},
     !.create = "createSubCategory", !.update = "updateSubCategory"]
SubCategoryList == Listing({"listSubCategories", "listCategories"}, {"deleteSubCategory"})

(* TypesPage: a name; types are never deleted, and deactivating one, but   *)
(* not activating it, is confirmed first.                                  *)
TypeForm ==
  [Plain EXCEPT !.needs = {"name"}, !.key = {"name"},
     !.create = "createType", !.update = "updateType"]
TypeList ==
  [Bare EXCEPT !.shows = {"listTypes"}, !.acts = {"deactivateType", "activateType"},
     !.asks = {"deactivateType"}]

(* ProductsPage: the sub-categories offered are fetched for the category   *)
(* chosen and hidden while they load; an opening balance, for new products *)
(* only, needs a godown.                                                   *)
ProductForm ==
  [Plain EXCEPT !.needs = {"code", "category", "subCategory", "type"},
     !.newOnly = {"opening", "godown"}, !.with = {<<"opening", "godown">>},
     !.of = {<<"subCategory", "category">>}, !.source = "hidden", !.checked = TRUE,
     !.key = {"code"}, !.create = "createProduct", !.update = "updateProduct"]
ProductList ==
  Listing({"listProducts", "listCategories", "listActiveTypes", "listGodowns",
           "listSubCategories"}, {"deleteProduct"})

(* CustomersPage: code, name and mobile number.                            *)
CustomerForm ==
  [Plain EXCEPT !.needs = {"code", "name", "mobile"}, !.key = {"code"},
     !.create = "createCustomer", !.update = "updateCustomer"]
CustomerList == Listing({"listCustomers"}, {"deleteCustomer"})

(* SuppliersPage: the browser alone asks for code and name.                *)
SupplierForm ==
  [Plain EXCEPT !.needs = {"code", "name"}, !.key = {"code"},
     !.create = "createSupplier", !.update = "updateSupplier"]
SupplierList == Listing({"listSuppliers"}, {"deleteSupplier"})

(* GodownsPage: the list beside a panel for the godown selected.  The list *)
(* has a form for new godowns, after which the new one is selected.        *)
GodownForm ==
  [Toggled EXCEPT !.needs = {"name"}, !.key = {"code"}, !.create = "createGodown"]
GodownList == Listing({"listGodowns"}, {})

(* GodownDetailPanel: name and location of the godown on show; they are    *)
(* sent to the godown selected, which is another one while it loads.       *)
GodownPanel ==
  [Plain EXCEPT !.needs = {"name"}, !.update = "updateGodown", !.edit = "panel"]
GodownPanelList == Listing({"listGodowns", "getGodown"}, {})

(* RacksPanel, which stays as it is while another godown is selected: a    *)
(* form for a new rack of the godown selected, where the name is unique in *)
(* its godown, and another one in the row of a rack.                       *)
RackForm ==
  [Toggled EXCEPT !.needs = {"name"}, !.extra = {"godown"}, !.key = {"godown", "name"},
     !.create = "createRack"]
RackEdit == [Plain EXCEPT !.needs = {"name"}, !.update = "updateRack"]
RackList == Listing({"getGodown"}, {})

(* CompanyProfilePage: one record, always open, never emptied.             *)
CompanyForm == [Plain EXCEPT !.update = "updateCompany", !.after = "rests"]
CompanyList == Listing({"getCompany"}, {})

(* EmployeesPage: deactivating is not confirmed.                           *)
EmployeeForm ==
  [Toggled EXCEPT !.needs = {"code", "fullName"}, !.create = "createEmployee"]
EmployeeList == [Bare EXCEPT !.shows = {"listEmployees"}, !.acts = {"deactivateEmployee"}]

(* AttendancePage: one click marks an employee for the date chosen; the    *)
(* buttons are never disabled.                                             *)
AttendanceForm ==
  [Plain EXCEPT !.needs = {"employee", "date"}, !.key = {"employee", "date"},
     !.create = "markAttendance", !.after = "rests", !.busy = "never"]
AttendanceList == Listing({"listAttendance", "listEmployees"}, {"deleteAttendance"})

(* UsersPage: a user has a role; its buttons act at once.                  *)
UserForm == [Toggled EXCEPT !.needs = {"username", "role"}, !.key = {"username"},
               !.create = "createUser"]
UserList ==
  [Bare EXCEPT !.shows = {"listUsers", "listRoles"},
     !.acts = {"unlockUser", "deactivateUser", "activateUser"}]

(* RolesPage: selecting a role copies its permissions.                     *)
RoleForm == [Plain EXCEPT !.update = "updateRolePermissions", !.after = "rests"]
RoleList == Listing({"listRoles", "listPermissions"}, {})

(* IntegrationLogPage.                                                     *)
LogList == Listing({"listGatewayLogs"}, {})
=============================================================================
