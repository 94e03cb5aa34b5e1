----------------------------- MODULE GuardChain -----------------------------
(***************************************************************************)
(* The routes of the controllers, and a request on its way through the     *)
(* guards of its route with the locks of Idempotency: common/guards,       *)
(* abuse-detection.guard, rate-limit.guard, idempotency.guard.             *)
(*                                                                         *)
(* A route is the guards a request passes, in their order, the permission  *)
(* it requires and whether it is marked @Idempotent; routes of a           *)
(* controller that agree in all of that are one.  Nest awaits the guards   *)
(* one after the other, so memberships, the list of system administrators  *)
(* and the locks change between two of them.  What the limits answer is in *)
(* RateLimits and AbuseDetection; here they let a request through or       *)
(* refuse it.  Requests name one organization.                             *)
(***************************************************************************)
EXTENDS Idempotency, Sequences

(***************************************************************************)
(* What a role may do in an organization: permissions/permission.map.ts.   *)
(* A permission is its code.                                               *)
(***************************************************************************)

MEMBER_PERMISSIONS ==
    {"organizations.read", "members.read", "users.read", "clients.read", "client_contacts.read",
    "client_addresses.read", "operations.read", "operations.comment", "operation_history.read",
    "document_categories.read", "documents.read", "documents.download", "finance.read",
    "compliance.read", "compliance.evaluate", "exports.read", "imports.read", "ai.read",
    "ai.search", "ai.generate_summary", "ai.view_signals", "billing.read", "usage.read",
    "tariff.read", "tariff.search", "trade_agreements.read", "legal_documents.read",
    "customs_offices.read", "customs_patents.read", "customs_entries.read",
    "customs_entries.search", "shipments.read", "shipments.search", "shipments.comment",
    "valuations.read", "valuations.search", "e_documents.read", "e_documents.search",
    "invoices.read", "invoices.search", "payments.read", "expense_accounts.read",
    "expense_accounts.search", "bank_accounts.read", "fund_movements.read",
    "fund_movements.search", "client_balances.read", "doc_folders.read", "doc_templates.read",
    "doc_checklists.read", "warehouses.read", "warehouse_inventory.read",
    "warehouse_inventory.search", "warehouse_movements.read", "cupo_letters.read",
    "cupo_letters.search", "notifications.read", "notifications.preferences_update",
    "analytics.read", "analytics.kpi_read"}

ADMIN_PERMISSIONS == MEMBER_PERMISSIONS \cup
    {"members.invite", "members.remove", "members.update_role", "roles.read", "audit_logs.read",
    "clients.create", "clients.update", "client_contacts.create", "client_contacts.update",
    "client_addresses.create", "client_addresses.update", "operations.create",
    "operations.update", "operations.assign", "operations.change_status",
    "document_categories.create", "document_categories.update", "documents.create",
    "documents.update", "documents.upload_version", "finance.create_charge",
    "finance.update_charge", "finance.create_advance", "finance.update_advance",
    "finance.generate_expense_account", "compliance.manage_rule_sets",
    "compliance.manage_document_requirements", "compliance.manage_status_rules",
    "integrations.read", "integrations.manage", "integrations.run", "integrations.logs.read",
    "exports.generate", "imports.run", "feature_flags.read", "tariff.create", "tariff.update",
    "trade_agreements.create", "trade_agreements.update", "legal_documents.create",
    "legal_documents.update", "customs_offices.create", "customs_offices.update",
    "customs_patents.create", "customs_patents.update", "customs_entries.create",
    "customs_entries.update", "customs_entries.change_status", "customs_entries.prevalidate",
    "shipments.create", "shipments.update", "shipments.change_status", "shipments.add_stage",
    "shipments.link_entry", "valuations.create", "valuations.update",
    "valuations.change_status", "e_documents.create", "e_documents.update",
    "e_documents.transmit", "invoices.create", "invoices.update", "invoices.issue",
    "payments.create", "payments.confirm", "expense_accounts.create", "expense_accounts.update",
    "bank_accounts.create", "bank_accounts.update", "fund_movements.create",
    "fund_movements.confirm", "fund_movements.reconcile", "doc_folders.create",
    "doc_folders.update", "doc_templates.create", "doc_templates.update",
    "doc_checklists.create", "doc_checklists.update", "warehouses.create", "warehouses.update",
    "warehouse_inventory.create", "warehouse_inventory.update", "warehouse_movements.create",
    "warehouse_movements.complete", "cupo_letters.create", "cupo_letters.update",
    "cupo_letters.change_status", "cupo_letters.register_usage", "notifications.create",
    "analytics.reports_create", "analytics.reports_update", "analytics.reports_execute",
    "analytics.reports_export"}

OWNER_PERMISSIONS == ADMIN_PERMISSIONS \cup
    {"organizations.update", "organizations.delete", "roles.manage", "clients.delete",
    "client_contacts.delete", "client_addresses.delete", "operations.delete",
    "document_categories.delete", "documents.delete", "finance.delete_charge",
    "finance.delete_advance", "portal_access.manage", "plans.read", "feature_flags.manage",
    "tariff.delete", "trade_agreements.delete", "legal_documents.delete",
    "customs_offices.delete", "customs_patents.delete", "customs_entries.delete",
    "shipments.delete", "valuations.delete", "e_documents.delete", "invoices.delete",
    "invoices.cancel", "payments.cancel", "expense_accounts.delete", "bank_accounts.delete",
    "fund_movements.cancel", "doc_folders.delete", "doc_templates.delete",
    "doc_checklists.delete", "warehouses.delete", "warehouse_inventory.delete",
    "warehouse_movements.cancel", "cupo_letters.delete", "notifications.manage",
    "analytics.reports_delete"}

CLIENT_PERMISSIONS ==
    {"portal.read", "portal_operations.read", "portal_documents.read",
    "portal_documents.download", "portal_comments.read"}

\* Fault: what administrators were given beside their list is not in the owners'.
ROLE_PERMISSIONS_ADMIN_ONLY == [
    OWNER |-> OWNER_PERMISSIONS \ {"portal_access.manage"},
    ADMIN |-> ADMIN_PERMISSIONS \cup {"portal_access.manage"},
    MEMBER |-> MEMBER_PERMISSIONS,
    CLIENT |-> CLIENT_PERMISSIONS,
    NONE |-> {}]

\* The role a member has, or "NONE" of a user who is no member.
ROLE_PERMISSIONS == [
    OWNER |-> OWNER_PERMISSIONS,
    ADMIN |-> ADMIN_PERMISSIONS \cup {"portal_access.manage"},
    MEMBER |-> MEMBER_PERMISSIONS,
    CLIENT |-> CLIENT_PERMISSIONS,
    NONE |-> {}]

(***************************************************************************)
(* Routes.                                                                 *)
(***************************************************************************)

Nothing == "nothing"    \* no @RequirePermission

(***************************************************************************)
(* The chains of guards: @UseGuards of a controller, then of the route.    *)
(***************************************************************************)

\* Fault: the guard of permissions is forgotten.
GuardedOpen == <<"auth", "abuse", "limit", "once">>
\* Fault: the lock is taken first.
GuardedLockFirst == <<"auth", "once", "abuse", "limit", "permission">>
\* Fault: the guard of duplicates is forgotten.
GuardedRepeatable == <<"auth", "abuse", "limit", "permission">>

Guarded == <<"auth", "abuse", "limit", "once", "permission">>
Limited == <<"auth", "abuse", "limit", "permission">>
Permitted == <<"auth", "permission">>
Metered == <<"auth", "abuse", "limit">>
Counted == <<"auth", "limit">>
AdminOnly == <<"auth", "admin">>
SignedIn == <<"auth">>
Open == <<>>

RoutesOf(chain, kind, permissions) == {[chain |-> chain, kind |-> kind, needs |-> p] : p \in permissions}
Reads(chain, permissions) == RoutesOf(chain, "read", permissions)
Writes(chain, permissions) == RoutesOf(chain, "write", permissions)
Once(chain, permissions) == RoutesOf(chain, "once", permissions)    \* a write that is @Idempotent

(***************************************************************************)
(* The controllers.                                                        *)
(***************************************************************************)
AppController == Reads(Open, {Nothing})
AiController ==
    Once(Guarded, {"ai.search", "ai.generate_summary"})
    \cup Reads(Guarded, {"ai.view_signals"})
AnalyticsController ==
    Reads(Permitted, {"analytics.read", "analytics.kpi_read"})
    \cup Writes(Permitted, {"analytics.reports_create", "analytics.reports_update",
        "analytics.reports_delete", "analytics.reports_execute"})
Anexo22Controller == Reads(Metered, {Nothing})
AuditLogsController == Reads(Permitted, {Nothing})
BillingOverridesController ==
    Reads(AdminOnly, {Nothing})
    \cup Writes(AdminOnly, {Nothing})
BillingController1 ==
    Reads(Guarded, {"invoices.read", "invoices.search"})
    \cup Once(Guarded, {"invoices.create", "invoices.issue", "invoices.cancel"})
    \cup Writes(Guarded, {"invoices.update", "invoices.delete"})
BillingController2 ==
    Reads(Guarded, {"invoices.read", "payments.read", "expense_accounts.read"})
    \cup Once(Guarded, {"invoices.update", "payments.create", "payments.confirm", "payments.cancel"})
    \cup Writes(Guarded, {"invoices.update"})
BillingController3 ==
    Reads(Guarded, {"expense_accounts.search", "expense_accounts.read"})
    \cup Once(Guarded, {"expense_accounts.create", "expense_accounts.update"})
    \cup Writes(Guarded, {"expense_accounts.update", "expense_accounts.delete"})
BlogController ==
    Reads(Open, {Nothing})
    \cup Reads(AdminOnly, {Nothing})
    \cup Writes(AdminOnly, {Nothing})
ClientAccountsController ==
    Reads(Permitted, {"client_accounts.read"})
    \cup Writes(Permitted, {"client_accounts.write"})
ClientAddressesController ==
    Reads(Permitted, {"client_addresses.read"})
    \cup Writes(Permitted, {"client_addresses.create", "client_addresses.update",
        "client_addresses.delete"})
ClientContactsController ==
    Reads(Permitted, {"client_contacts.read"})
    \cup Writes(Permitted, {"client_contacts.create", "client_contacts.update", "client_contacts.delete"})
ClientPortalAccessController ==
    Reads(Permitted, {"portal_access.manage"})
    \cup Writes(Permitted, {"portal_access.manage"})
ClientsController ==
    Reads(Permitted, {"clients.read"})
    \cup Writes(Permitted, {"clients.create", "clients.update", "clients.delete"})
ComplianceDocumentRequirementsController ==
    Reads(Permitted, {"compliance.read"})
    \cup Writes(Permitted, {"compliance.manage_document_requirements"})
ComplianceRuleSetsController ==
    Reads(Permitted, {"compliance.read"})
    \cup Writes(Permitted, {"compliance.manage_rule_sets"})
ComplianceStatusRulesController ==
    Reads(Permitted, {"compliance.read"})
    \cup Writes(Permitted, {"compliance.manage_status_rules"})
CupoLettersController ==
    Reads(Permitted, {"cupo_letters.read", "cupo_letters.search"})
    \cup Writes(Permitted, {"cupo_letters.create", "cupo_letters.update", "cupo_letters.change_status",
        "cupo_letters.delete", "cupo_letters.register_usage"})
CustomsEntriesController1 ==
    Reads(Guarded, {"customs_offices.read", "customs_patents.read", "customs_entries.read",
        "customs_entries.search"})
    \cup Writes(Guarded, {"customs_patents.create"})
CustomsEntriesController2 ==
    Once(Guarded, {"customs_entries.create"})
    \cup Writes(Guarded, {"customs_entries.update", "customs_entries.delete",
        "customs_entries.change_status"})
    \cup Reads(Guarded, {"customs_entries.read"})
CustomsEntriesController3 ==
    Writes(Guarded, {"customs_entries.update"})
    \cup Reads(Guarded, {"customs_entries.read"})
CustomsInspectionsController ==
    Reads(Permitted, {"customs_inspections.read"})
    \cup Writes(Permitted, {"customs_inspections.create", "customs_inspections.update"})
CustomsOperationsController1 ==
    Reads(Permitted, {"shipments.read", "shipments.search"})
    \cup Writes(Permitted, {"shipments.create", "shipments.update", "shipments.delete",
        "shipments.change_status"})
CustomsOperationsController2 ==
    Reads(Permitted, {"shipments.read"})
    \cup Writes(Permitted, {"shipments.add_stage", "shipments.link_entry", "shipments.comment"})
CustomsPreviosController ==
    Reads(Permitted, {"customs_previos.read"})
    \cup Writes(Permitted, {"customs_previos.create", "customs_previos.update"})
CustomsRectificationsController ==
    Reads(Permitted, {"customs_rectifications.read"})
    \cup Writes(Permitted, {"customs_rectifications.create", "customs_rectifications.update"})
CustomsValuationController1 ==
    Reads(Permitted, {"valuations.read", "valuations.search"})
    \cup Writes(Permitted, {"valuations.create", "valuations.update", "valuations.delete",
        "valuations.change_status"})
CustomsValuationController2 ==
    Reads(Permitted, {"valuations.read"})
    \cup Writes(Permitted, {"valuations.update"})
DocumentCategoriesController ==
    Reads(Permitted, {"document_categories.read"})
    \cup Writes(Permitted, {"document_categories.create", "document_categories.update",
        "document_categories.delete"})
DocumentManagementController1 ==
    Reads(Permitted, {"doc_folders.read", "doc_templates.read"})
    \cup Writes(Permitted, {"doc_folders.create", "doc_folders.update", "doc_folders.delete",
        "doc_templates.create", "doc_templates.update"})
DocumentManagementController2 ==
    Writes(Permitted, {"doc_templates.delete", "doc_checklists.create", "doc_checklists.delete",
        "doc_checklists.update"})
    \cup Reads(Permitted, {"doc_checklists.read"})
DocumentsController ==
    Reads(Permitted, {"documents.read", "documents.download"})
    \cup Writes(Permitted, {"documents.create", "documents.update", "documents.delete",
        "documents.upload_version"})
EDocumentsController1 ==
    Reads(Permitted, {"e_documents.read", "e_documents.search"})
    \cup Writes(Permitted, {"e_documents.create", "e_documents.update", "e_documents.delete"})
EDocumentsController2 ==
    Writes(Permitted, {"e_documents.update", "e_documents.transmit"})
    \cup Reads(Permitted, {"e_documents.read"})
EventTrackingController1 ==
    Writes(SignedIn, {Nothing})
    \cup Reads(Permitted, {"analytics.read"})
EventTrackingController2 ==
    Reads(Permitted, {"analytics.read", "analytics.kpi_read"})
    \cup Writes(Permitted, {"analytics.read"})
ExchangeRatesController == Reads(Counted, {Nothing})
ExportsController ==
    Reads(Limited, {"exports.read"})
    \cup Writes(Limited, {"exports.generate"})
FeatureFlagsController ==
    Reads(Permitted, {"feature_flags.read"})
    \cup Writes(Permitted, {"feature_flags.manage"})
HealthController == Reads(Open, {Nothing})
ImmexProgramsController ==
    Reads(Permitted, {"immex_programs.read"})
    \cup Writes(Permitted, {"immex_programs.create", "immex_programs.update"})
ImporterRegistryController ==
    Reads(Permitted, {"importer_registry.read"})
    \cup Writes(Permitted, {"importer_registry.create", "importer_registry.update"})
ImportsController ==
    Reads(Limited, {"imports.read"})
    \cup Writes(Limited, {"imports.run"})
IntegrationDeliveriesController ==
    Reads(Permitted, {"integrations.logs.read"})
    \cup Writes(Permitted, {"integrations.run"})
IntegrationsController ==
    Reads(Permitted, {"integrations.read"})
    \cup Writes(Permitted, {"integrations.manage"})
MembershipsController ==
    Reads(Permitted, {"members.read"})
    \cup Writes(Permitted, {"members.invite", "members.update_role", "members.remove"})
NotificationsController ==
    Reads(Permitted, {"notifications.read", "notifications.preferences_update"})
    \cup Writes(Permitted, {"notifications.create", "notifications.manage", "notifications.read",
        "notifications.preferences_update"})
OperationAdvancesController ==
    Reads(Permitted, {"finance.read"})
    \cup Writes(Permitted, {"finance.create_advance", "finance.update_advance", "finance.delete_advance"})
OperationChargesController ==
    Reads(Permitted, {"finance.read"})
    \cup Writes(Permitted, {"finance.create_charge", "finance.update_charge", "finance.delete_charge"})
OperationCommentsController ==
    Reads(Permitted, {"operations.read"})
    \cup Writes(Permitted, {"operations.comment"})
OperationComplianceController == Reads(Permitted, {"compliance.evaluate"})
OperationFinanceController ==
    Reads(Permitted, {"finance.read"})
    \cup Writes(Permitted, {"finance.generate_expense_account"})
OperationsController ==
    Reads(Guarded, {"operations.read", "operation_history.read"})
    \cup Once(Guarded, {"operations.create"})
    \cup Writes(Guarded, {"operations.update", "operations.delete", "operations.change_status",
        "operations.assign"})
OrganizationsController ==
    Writes(Permitted, {Nothing})
    \cup Reads(Permitted, {Nothing, "organizations.read"})
PortalController == Reads(Permitted, {"portal_operations.read", "portal_comments.read",
        "portal_documents.read", "portal_documents.download"})
SaaiErrorsController == Reads(Metered, {Nothing})
SaaiGeneratorController ==
    Reads(Permitted, {"customs_entries.read"})
    \cup Writes(Permitted, {"customs_entries.read"})
StripeWebhookController == Writes(Open, {Nothing})
SubscriptionsController ==
    Reads(Permitted, {"billing.read"})
    \cup Writes(Permitted, {"plans.read", "billing.manage"})
SystemAdminController1 ==
    Reads(SignedIn, {Nothing})
    \cup Reads(AdminOnly, {Nothing})
    \cup Writes(AdminOnly, {Nothing})
SystemAdminController2 ==
    Reads(AdminOnly, {Nothing})
    \cup Writes(AdminOnly, {Nothing})
TariffClassificationController1 ==
    Reads(Limited, {"tariff.search", Nothing, "tariff.read"})
    \cup Writes(Limited, {"tariff.create", "tariff.update", "tariff.delete"})
TariffClassificationController2 ==
    Writes(Limited, {"tariff.create"})
    \cup Reads(Limited, {"tariff.read"})
TreasuryController1 ==
    Reads(Permitted, {"bank_accounts.read", "fund_movements.read"})
    \cup Writes(Permitted, {"bank_accounts.create", "bank_accounts.update", "bank_accounts.delete"})
TreasuryController2 ==
    Reads(Permitted, {"fund_movements.search", "fund_movements.read", "client_balances.read"})
    \cup Writes(Permitted, {"fund_movements.create", "fund_movements.confirm", "fund_movements.reconcile",
        "fund_movements.cancel"})
UnitConverterController == Reads(Metered, {Nothing})
UsageController == Reads(Permitted, {"usage.read"})
UsersController ==
    Reads(SignedIn, {Nothing})
    \cup Writes(SignedIn, {Nothing})
WarehouseController1 ==
    Reads(Permitted, {"warehouses.read"})
    \cup Writes(Permitted, {"warehouses.create", "warehouses.update", "warehouses.delete"})
WarehouseController2 ==
    Reads(Permitted, {"warehouse_inventory.read", "warehouse_inventory.search", "warehouse_movements.read"})
    \cup Writes(Permitted, {"warehouse_inventory.create", "warehouse_inventory.update",
        "warehouse_inventory.delete", "warehouse_movements.create", "warehouse_movements.complete",
        "warehouse_movements.cancel"})

\* The routes of each controller.
Controllers == {
    AppController, AiController, AnalyticsController, Anexo22Controller, AuditLogsController,
    BillingOverridesController, BillingController1 \cup BillingController2 \cup BillingController3,
    BlogController, ClientAccountsController, ClientAddressesController, ClientContactsController,
    ClientPortalAccessController, ClientsController, ComplianceDocumentRequirementsController,
    ComplianceRuleSetsController, ComplianceStatusRulesController, CupoLettersController,
    CustomsEntriesController1 \cup CustomsEntriesController2 \cup CustomsEntriesController3,
    CustomsInspectionsController, CustomsOperationsController1 \cup CustomsOperationsController2,
    CustomsPreviosController, CustomsRectificationsController,
    CustomsValuationController1 \cup CustomsValuationController2, DocumentCategoriesController,
    DocumentManagementController1 \cup DocumentManagementController2, DocumentsController,
    EDocumentsController1 \cup EDocumentsController2,
    EventTrackingController1 \cup EventTrackingController2, ExchangeRatesController, ExportsController,
    FeatureFlagsController, HealthController, ImmexProgramsController, ImporterRegistryController,
    ImportsController, IntegrationDeliveriesController, IntegrationsController, MembershipsController,
    NotificationsController, OperationAdvancesController, OperationChargesController,
    OperationCommentsController, OperationComplianceController, OperationFinanceController,
    OperationsController, OrganizationsController, PortalController, SaaiErrorsController,
    SaaiGeneratorController, StripeWebhookController, SubscriptionsController,
    SystemAdminController1 \cup SystemAdminController2,
    TariffClassificationController1 \cup TariffClassificationController2,
    TreasuryController1 \cup TreasuryController2, UnitConverterController, UsageController,
    UsersController, WarehouseController1 \cup WarehouseController2}

AllRoutes == UNION Controllers

(***************************************************************************)
(* Requests on their way.                                                  *)
(***************************************************************************)

CONSTANTS
    Users,
    Served,         \* the routes requests are made for
    ClientKeys,     \* values of the Idempotency-Key header
    Paths,          \* paths of one route
    MaxChanges      \* bound: changes of roles and administrators

ASSUME ServedAssumption == Served \subseteq AllRoutes

VARIABLES
    role,       \* role[u]: the role of the membership of u
    admins,     \* the rows of system_admins
    call,       \* call[r]: the request r on its way
    changes     \* changes so far

chainVars == <<role, admins, call, changes>>
allVars == <<vars, chainVars>>

\* CLIENT is never written: invitations and role changes take the other three.
Roles == {"MEMBER", "ADMIN", "OWNER", "NONE"}
NoCall == [at |-> "none"]
Refusals == {"unauthenticated", "blocked", "limited", "duplicate", "forbidden"}

\* Fault: the lock is not of a user.
SharedKey(u, route, header) ==
    IF route.kind # "once" THEN <<>>
    ELSE IF header \in ClientKeys THEN <<header>> ELSE <<route.needs, header>>

\* The name of the lock: the client's key, whatever the route, or method and path.
\* A route that is not marked has none.
LockKey(u, route, header) ==
    IF route.kind # "once" THEN <<>>
    ELSE IF header \in ClientKeys THEN <<u, header>> ELSE <<u, route.needs, header>>

LockKeys(headers) == {LockKey(u, route, h) : u \in Users, route \in Served, h \in headers} \ {<<>>}

ASSUME KeysAssumption == LockKeys(ClientKeys \cup Paths) \subseteq Keys
ASSUME ChangesAssumption == MaxChanges \in Nat

Guards == {"auth", "admin", "abuse", "limit", "once", "permission"}
Calls ==
    {NoCall}
    \cup [user : Users, k : Keys \cup {<<>>}, at : Refusals \cup {"answered", "failed"}]
    \cup [user : Users, k : Keys \cup {<<>>}, at : {"way"}, route : Served,
          todo : Seq(Guards), admin : BOOLEAN, seen : SUBSET Roles]

ChainTypeOK ==
    /\ TypeOK
    /\ role \in [Users -> Roles]
    /\ admins \subseteq Users
    /\ call \in [Requests -> Calls]
    /\ changes \in 0..MaxChanges

ChainInit ==
    /\ Init
    /\ role = [u \in Users |-> "MEMBER"]
    /\ admins \in SUBSET Users
    /\ call = [r \in Requests |-> NoCall]
    /\ changes = 0

Active(r) == call[r].at = "way"
InHandler(r) == Active(r) /\ call[r].todo = <<>>
Facing(r, guard) == Active(r) /\ call[r].todo # <<>> /\ Head(call[r].todo) = guard

Pass(r) == call' = [call EXCEPT ![r].todo = Tail(@)]
End(r, how) == call' = [call EXCEPT ![r] = [user |-> @.user, k |-> @.k, at |-> how]]

Arrive(r, u, route, header) ==
    /\ call[r] = NoCall
    /\ call' = [call EXCEPT ![r] =
           [user |-> u, route |-> route, k |-> LockKey(u, route, header), admin |-> FALSE,
            todo |-> route.chain, seen |-> {role[u]}, at |-> "way"]]
    /\ UNCHANGED <<vars, role, admins, changes>>

(***************************************************************************)
(* The guards.                                                             *)
(***************************************************************************)

\* The session, and whether its user is a system administrator now.
AuthGuard(r) ==
    /\ Facing(r, "auth")
    /\ \/ End(r, "unauthenticated")
       \/ call' = [call EXCEPT ![r].todo = Tail(@), ![r].admin = call[r].user \in admins]
    /\ UNCHANGED <<vars, role, admins, changes>>

SystemAdminGuard(r) ==
    /\ Facing(r, "admin")
    /\ IF call[r].admin THEN Pass(r) ELSE End(r, "forbidden")
    /\ UNCHANGED <<vars, role, admins, changes>>

AbuseDetectionGuard(r) ==
    /\ Facing(r, "abuse")
    /\ Pass(r) \/ End(r, "blocked")
    /\ UNCHANGED <<vars, role, admins, changes>>

RateLimitGuard(r) ==
    /\ Facing(r, "limit")
    /\ Pass(r) \/ End(r, "limited")
    /\ UNCHANGED <<vars, role, admins, changes>>

\* A route that is not marked passes; the others take the lock, or look who has it.
IdempotencyGuard(r) ==
    /\ Facing(r, "once")
    /\ \/ call[r].route.kind # "once" /\ Pass(r) /\ UNCHANGED vars
       \/ /\ call[r].route.kind = "once"
          /\ Acquire(r, call[r].k) \/ FailOpen(r, call[r].k) \/ Inspect(r)
          /\ CASE At(r, "running")' -> Pass(r)
               [] At(r, "get")' -> UNCHANGED call
               [] OTHER -> End(r, "duplicate")
    /\ UNCHANGED <<role, admins, changes>>

\* A system administrator passes; of the others the role now counts.
PermissionsGuard(r) ==
    LET needs == call[r].route.needs
        granted == needs = Nothing \/ call[r].admin
                     \/ needs \in ROLE_PERMISSIONS[role[call[r].user]] IN
    /\ Facing(r, "permission")
    /\ IF granted THEN Pass(r) /\ UNCHANGED vars
       ELSE End(r, "forbidden") /\ (IF At(r, "running") THEN Refuse(r) ELSE UNCHANGED vars)
    /\ UNCHANGED <<role, admins, changes>>

\* The handler answers, or throws; an end of the process is like a throw.
Handle(r) ==
    /\ InHandler(r)
    /\ \/ End(r, "answered") /\ (IF At(r, "running") THEN Succeed(r) ELSE UNCHANGED vars)
       \/ End(r, "failed") /\ (IF At(r, "running") THEN Fail(r) ELSE UNCHANGED vars)
    /\ UNCHANGED <<role, admins, changes>>

(***************************************************************************)
(* What changes around them.                                               *)
(***************************************************************************)

\* updateRole, create and delete of the memberships: see Organizations.
ChangeRole(u, to) ==
    /\ changes < MaxChanges
    /\ to # role[u]
    /\ role' = [role EXCEPT ![u] = to]
    /\ call' = [r \in Requests |-> IF Active(r) /\ call[r].user = u
                                   THEN [call[r] EXCEPT !.seen = @ \cup {to}] ELSE call[r]]
    /\ changes' = changes + 1
    /\ UNCHANGED <<vars, admins>>

\* addSystemAdmin and removeSystemAdmin.
ChangeAdmin(u) ==
    /\ changes < MaxChanges
    /\ admins' = IF u \in admins THEN admins \ {u} ELSE admins \cup {u}
    /\ changes' = changes + 1
    /\ UNCHANGED <<vars, role, call>>

LockExpires(k) == Expire(k) /\ UNCHANGED chainVars

ChainNext ==
    \/ \E r \in Requests, u \in Users, route \in Served, header \in ClientKeys \cup Paths :
           Arrive(r, u, route, header)
    \/ \E r \in Requests : \/ AuthGuard(r) \/ SystemAdminGuard(r) \/ AbuseDetectionGuard(r)
                           \/ RateLimitGuard(r) \/ IdempotencyGuard(r) \/ PermissionsGuard(r)
                           \/ Handle(r)
    \/ \E u \in Users : ChangeAdmin(u) \/ \E to \in Roles : ChangeRole(u, to)
    \/ \E k \in Keys : LockExpires(k)

ChainSpec == ChainInit /\ [][ChainNext]_allVars

(***************************************************************************)
(* Properties.                                                             *)
(***************************************************************************)

\* A handler runs for those who may have it run (@RequirePermission,
\* SystemAdminGuard): the user was an administrator when the session was read, or
\* had, at some time since the request came, a role that grants the permission,
\* whatever was changed meanwhile.
MayHandle(r) ==
    LET route == call[r].route IN
    \/ call[r].admin
    \/ /\ route.chain # AdminOnly
       /\ route.needs = Nothing \/ \E x \in call[r].seen : route.needs \in ROLE_PERMISSIONS[x]
HandledWithPermission == \A r \in Requests : InHandler(r) => MayHandle(r)

\* What a block or a limit refuses has locked nothing: a user who is told to try
\* again later is not told then that the request is already processed (the order
\* of @UseGuards).
RefusalLeavesNoLock ==
    \A r \in Requests :
        call[r].at \in {"unauthenticated", "blocked", "limited"} => At(r, "new")

\* Requests of different users never are duplicates of each other (the user in
\* lockKey): who is refused as a duplicate has sent the other request too.
DuplicatesAreOnesOwn ==
    \A r \in Requests : call[r].at = "duplicate" =>
        \E o \in Requests \ {r} :
            call[o] # NoCall /\ call[o].user = call[r].user /\ On(o, call[r].k)

\* No @Idempotent handler runs twice at a time for one key of one user, through
\* whichever route the key comes, while Redis works and the lock is there.
HandledOneAtATime ==
    \A r, o \in Requests :
        ( /\ r # o /\ InHandler(r) /\ InHandler(o)
          /\ call[r].route.kind = "once" /\ call[o].route.kind = "once"
          /\ call[r].user = call[o].user /\ call[r].k = call[o].k ) => call[r].k \in exposed

\* A request that authentication, a block or a limit refuses takes no lock; a lock is
\* taken by one request, against its own user's duplicates, and holds them back
\* while Redis works and the lock is there (the order of @UseGuards, lockKey and
\* canActivate).  The permission is asked for after the lock was taken.
LocksHold ==
    DuplicatesHeldBack /\ RefusalLeavesNoLock /\ DuplicatesAreOnesOwn /\ HandledOneAtATime

\* The table of permissions fits the routes (permission.map.ts: "each higher role
\* includes everything below it"): who may write through a controller may read
\* through it if anyone can, and a higher role is served whatever a lower one is.
Serves(x, route) == route.needs = Nothing \/ route.needs \in ROLE_PERMISSIONS[x]
RolesFitRoutes ==
    /\ \A routes \in Controllers, x \in {"MEMBER", "ADMIN", "OWNER"} :
           (\E w \in routes : w.kind # "read" /\ Serves(x, w)) =>
               \A r \in routes : r.kind # "read" \/ \E s \in routes : s.kind = "read" /\ Serves(x, s)
    /\ \A route \in AllRoutes : /\ Serves("MEMBER", route) => Serves("ADMIN", route)
                                /\ Serves("ADMIN", route) => Serves("OWNER", route)
=============================================================================
