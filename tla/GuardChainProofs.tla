-------------------------- MODULE GuardChainProofs --------------------------
(***************************************************************************)
(* Proofs about Idempotency and GuardChain, for any lock keys, any number  *)
(* of requests and users, any routes of the controllers, and any changes   *)
(* of roles and administrators meanwhile.                                  *)
(***************************************************************************)
EXTENDS GuardChain, FiniteSetTheorems, TLAPS

(***************************************************************************)
(* The inductive invariant of the locks.                                   *)
(***************************************************************************)

Runs(r, k) == At(r, "running") /\ On(r, k)
Looks(r, k) == At(r, "get") /\ On(r, k)

\* As long as Redis did not fail on a key and its lock did not vanish under a
\* request: a free lock has nobody behind it, one request runs, nobody has
\* succeeded while one runs, and one succeeds.
HeldOf(k) ==
    k \notin exposed =>
        /\ lock[k] = Free => succeeded[k] = {} /\ \A r \in Requests : ~Runs(r, k) /\ ~Looks(r, k)
        /\ \A p, q \in Requests : Runs(p, k) /\ Runs(q, k) => p = q
        /\ \A r \in Requests : Runs(r, k) => succeeded[k] = {}
        /\ \A p, q \in succeeded[k] : p = q

HeldInv == \A k \in Keys : HeldOf(k)

Inv == TypeOK /\ HeldInv

(***************************************************************************)
(* Lemmas.                                                                 *)
(***************************************************************************)

\* A set in which any two elements are equal has at most one.
LEMMA AtMostOne ==
    ASSUME NEW S, \A p, q \in S : p = q
    PROVE  Cardinality(S) <= 1
<1>1. CASE S = {}
      BY <1>1, FS_EmptySet
<1>2. CASE S # {}
  <2>1. PICK p \in S : S = {p}
        BY <1>2
  <2>2. Cardinality({p}) = 1
        BY FS_Singleton
  <2> QED BY <2>1, <2>2
<1> QED BY <1>1, <1>2

\* A request past its beginning is of one key.
LEMMA KeyOf ==
    ASSUME TypeOK, NEW r \in Requests, ~At(r, "new")
    PROVE  request[r].k \in Keys /\ On(r, request[r].k)
<1>1. request[r] # Idle
      BY DEF At, Idle
<1> QED BY <1>1 DEF TypeOK, On

\* A lock that is taken is "processing".
LEMMA Taken ==
    ASSUME TypeOK, NEW k \in Keys, lock[k] # Free
    PROVE  lock[k].value = "processing"
BY DEF TypeOK

\* Without requests the invariant holds.
LEMMA InitInv == Init => Inv
BY DEF Init, Inv, TypeOK, HeldInv, HeldOf, Runs, Looks, At, Idle, Free

\* Every step of Next keeps the types.
LEMMA TypeStep ==
    ASSUME TypeOK, [Next]_vars
    PROVE  TypeOK'
<1>1. ASSUME NEW r \in Requests, NEW k \in Keys, Acquire(r, k)
      PROVE  TypeOK'
  <2>1. CASE lock[k] = Free
    <3>1. /\ lock' = [lock EXCEPT ![k] = [value |-> "processing", ttl |-> TRUE]]
          /\ request' = [request EXCEPT ![r] = [pc |-> "running", k |-> k, owner |-> TRUE]]
          BY <1>1, <2>1 DEF Acquire, Goto
    <3> QED BY <1>1, <3>1 DEF Acquire, TypeOK
  <2>2. CASE lock[k] # Free
        BY <1>1, <2>2 DEF Acquire, Goto, TypeOK
  <2> QED BY <2>1, <2>2
<1>2. ASSUME NEW r \in Requests, NEW k \in Keys, FailOpen(r, k)
      PROVE  TypeOK'
      BY <1>2 DEF FailOpen, Goto, TypeOK
<1>3. ASSUME NEW r \in Requests, Inspect(r)
      PROVE  TypeOK'
  <2>1. request[r].k \in Keys
        BY <1>3, KeyOf DEF Inspect, At
  <2> QED BY <1>3, <2>1 DEF Inspect, Goto, TypeOK
<1>4. ASSUME NEW r \in Requests, Refuse(r) \/ Succeed(r) \/ Fail(r)
      PROVE  TypeOK'
  <2>1. request[r].k \in Keys
        BY <1>4, KeyOf DEF Refuse, Succeed, Fail, At
  <2> QED BY <1>4, <2>1 DEF Refuse, Succeed, Fail, Goto, TypeOK
<1>5. ASSUME NEW k \in Keys, Expire(k)
      PROVE  TypeOK'
      BY <1>5 DEF Expire, TypeOK
<1>6. CASE UNCHANGED vars
      BY <1>6 DEF vars, TypeOK
<1> QED BY <1>1, <1>2, <1>3, <1>4, <1>5, <1>6 DEF Next

\* A key whose lock and successes a step leaves, and that no request joins.
LEMMA Frame ==
    ASSUME NEW k \in Keys, HeldOf(k), exposed \subseteq exposed',
           lock'[k] = lock[k], succeeded'[k] = succeeded[k],
           \A r \in Requests : (Runs(r, k)' => Runs(r, k)) /\ (Looks(r, k)' => Looks(r, k))
    PROVE  HeldOf(k)'
BY DEF HeldOf

\* The request that finds a lock free takes it; one that does not only looks.
LEMMA AcquireStep ==
    ASSUME Inv, NEW r \in Requests, NEW k0 \in Keys, Acquire(r, k0)
    PROVE  HeldInv'
<1> USE DEF Inv
<1>1. /\ \A q \in Requests \ {r} : request'[q] = request[q]
      /\ request'[r].k = k0
      /\ request'[r].pc = IF lock[k0] = Free THEN "running" ELSE "get"
      /\ UNCHANGED <<succeeded, exposed>>
      /\ \A k \in Keys \ {k0} : lock'[k] = lock[k]
      /\ lock'[k0] # Free
      BY DEF Acquire, Goto, TypeOK, Free
<1>2. ASSUME NEW k \in Keys \ {k0}
      PROVE  HeldOf(k)'
  <2>1. \A q \in Requests : (Runs(q, k)' => Runs(q, k)) /\ (Looks(q, k)' => Looks(q, k))
        BY <1>1 DEF Runs, Looks, At, On
  <2> QED BY <1>1, <2>1, Frame DEF HeldInv
<1>3. HeldOf(k0)'
  <2>1. \A q \in Requests \ {r} : Runs(q, k0)' => Runs(q, k0)
        BY <1>1 DEF Runs, At, On
  <2>2. CASE lock[k0] = Free
    <3>1. k0 \notin exposed => succeeded[k0] = {} /\ \A q \in Requests : Runs(q, k0)' => q = r
          BY <2>1, <2>2 DEF HeldInv, HeldOf
    <3> QED BY <1>1, <3>1 DEF HeldOf
  <2>3. CASE lock[k0] # Free
    <3>1. ~Runs(r, k0)'
          BY <1>1, <2>3 DEF Runs, At
    <3> QED BY <1>1, <2>1, <3>1 DEF HeldInv, HeldOf
  <2> QED BY <2>2, <2>3
<1> QED BY <1>2, <1>3 DEF HeldInv

\* Requests that Redis fails, that look at a taken lock, or that end.
LEMMA RequestStep ==
    ASSUME Inv, NEW r \in Requests,
           \/ \E k \in Keys : FailOpen(r, k)
           \/ Inspect(r) \/ Refuse(r) \/ Fail(r)
    PROVE  HeldInv'
<1> USE DEF Inv
<1>1. /\ \A q \in Requests \ {r} : request'[q] = request[q]
      /\ UNCHANGED <<lock, succeeded>> /\ exposed \subseteq exposed'
      BY DEF FailOpen, Inspect, Refuse, Fail, Goto, TypeOK
<1>2. ASSUME NEW k \in Keys, k \notin exposed'
      PROVE  ~Runs(r, k)' /\ ~Looks(r, k)'
  <2>1. CASE \E j \in Keys : FailOpen(r, j)
        BY <1>2, <2>1 DEF FailOpen, Goto, TypeOK, Runs, Looks, At, On
  <2>2. CASE Inspect(r)
    <3> DEFINE j == request[r].k
    <3>1. j \in Keys /\ Looks(r, j)
          BY <2>2, KeyOf DEF Inspect, At, Looks
    <3>2. exposed' = exposed /\ request'[r].k = j /\ request'[r].pc # "get"
          BY <2>2 DEF Inspect, Goto, TypeOK
    <3>3. j \notin exposed => lock[j].value = "processing"
          BY <3>1, Taken DEF HeldInv, HeldOf
    <3>4. j \notin exposed => request'[r].pc = "conflict"
          BY <2>2, <3>3 DEF Inspect, Goto, TypeOK
    <3> QED BY <1>2, <3>2, <3>4 DEF Runs, Looks, At, On
  <2>3. CASE Refuse(r) \/ Fail(r)
        BY <2>3 DEF Refuse, Fail, Goto, TypeOK, Runs, Looks, At
  <2> QED BY <2>1, <2>2, <2>3
<1>3. ASSUME NEW k \in Keys
      PROVE  HeldOf(k)'
  <2>1. CASE k \in exposed'
        BY <2>1 DEF HeldOf
  <2>2. CASE k \notin exposed'
    <3>1. \A q \in Requests : (Runs(q, k)' => Runs(q, k)) /\ (Looks(q, k)' => Looks(q, k))
          BY <1>1, <1>2, <2>2 DEF Runs, Looks, At, On
    <3> QED BY <1>1, <3>1, Frame DEF HeldInv
  <2> QED BY <2>1, <2>2
<1> QED BY <1>3 DEF HeldInv

\* The one request that runs succeeds: it is the first since the lock was taken.
LEMMA SucceedStep ==
    ASSUME Inv, NEW r \in Requests, Succeed(r)
    PROVE  HeldInv'
<1> USE DEF Inv
<1>1. PICK k0 \in Keys : k0 = request[r].k /\ Runs(r, k0)
      BY KeyOf DEF Succeed, At, Runs
<1>2. /\ \A q \in Requests \ {r} : request'[q] = request[q]
      /\ request'[r].pc = "finished"
      /\ UNCHANGED <<lock, exposed>>
      /\ \A k \in Keys \ {k0} : succeeded'[k] = succeeded[k]
      /\ succeeded'[k0] = succeeded[k0] \cup {r}
      BY <1>1 DEF Succeed, Goto, TypeOK
<1>3. \A k \in Keys, q \in Requests :
         (Runs(q, k)' => Runs(q, k) /\ q # r) /\ (Looks(q, k)' => Looks(q, k))
      BY <1>2 DEF Runs, Looks, At, On
<1>4. ASSUME NEW k \in Keys, k # k0
      PROVE  HeldOf(k)'
      BY <1>2, <1>3, <1>4, Frame DEF HeldInv
<1>5. HeldOf(k0)'
  <2>1. k0 \notin exposed =>
           /\ lock[k0] # Free /\ succeeded'[k0] = {r}
           /\ \A q \in Requests : ~Runs(q, k0)'
        BY <1>1, <1>2, <1>3 DEF HeldInv, HeldOf
  <2> QED BY <1>2, <2>1 DEF HeldOf
<1> QED BY <1>4, <1>5 DEF HeldInv

\* A lock that expires with a request behind it exposes its key.
LEMMA ExpireStep ==
    ASSUME Inv, NEW k0 \in Keys, Expire(k0)
    PROVE  HeldInv'
<1> USE DEF Inv
<1>1. /\ request' = request /\ exposed \subseteq exposed'
      /\ \A k \in Keys \ {k0} : lock'[k] = lock[k] /\ succeeded'[k] = succeeded[k]
      /\ lock'[k0] = Free /\ succeeded'[k0] = {}
      /\ k0 \notin exposed' => Inside(k0) = {}
      BY DEF Expire, TypeOK
<1>2. \A k \in Keys, q \in Requests : (Runs(q, k)' <=> Runs(q, k)) /\ (Looks(q, k)' <=> Looks(q, k))
      BY <1>1 DEF Runs, Looks, At, On
<1>3. ASSUME NEW k \in Keys \ {k0}
      PROVE  HeldOf(k)'
      BY <1>1, <1>2, Frame DEF HeldInv
<1>4. HeldOf(k0)'
  <2>1. Inside(k0) = {} => \A q \in Requests : ~Runs(q, k0) /\ ~Looks(q, k0)
        BY DEF Inside, Runs, Looks, At
  <2> QED BY <1>1, <1>2, <2>1 DEF HeldOf
<1> QED BY <1>3, <1>4 DEF HeldInv

\* Every step keeps the invariant.
LEMMA InvStep ==
    ASSUME Inv, [Next]_vars
    PROVE  Inv'
<1> SUFFICES HeldInv'
    BY TypeStep DEF Inv
<1>1. CASE UNCHANGED vars
      BY <1>1 DEF vars, Inv, HeldInv, HeldOf, Runs, Looks, At, On
<1> QED BY <1>1, AcquireStep, RequestStep, SucceedStep, ExpireStep DEF Next

\* It holds in every reachable state.
LEMMA Invariance == Spec => []Inv
BY InitInv, InvStep, PTL DEF Spec

\* The invariant says that the lock holds duplicates back.
LEMMA HeldBack == Inv => DuplicatesHeldBack
<1> SUFFICES ASSUME Inv, NEW k \in Keys \ exposed
             PROVE  /\ Cardinality({r \in Requests : At(r, "running") /\ On(r, k)}) <= 1
                    /\ Cardinality(succeeded[k]) <= 1
    BY DEF DuplicatesHeldBack, OneAtATime, OncePerWindow
<1>1. HeldOf(k)
      BY DEF Inv, HeldInv
<1>2. \A p, q \in {r \in Requests : At(r, "running") /\ On(r, k)} : p = q
      BY <1>1 DEF HeldOf, Runs
<1>3. \A p, q \in succeeded[k] : p = q
      BY <1>1 DEF HeldOf
<1> QED BY <1>2, <1>3, AtMostOne

(***************************************************************************)
(* Theorems about the locks.                                               *)
(***************************************************************************)

\* The lock holds duplicates back (canActivate): unless it vanished under a
\* request or Redis failed, at most one request runs for a key and at most one
\* succeeds until the key is free again.
THEOREM HeldBackCorrect == Spec => []DuplicatesHeldBack
BY Invariance, HeldBack, PTL

(***************************************************************************)
(* Who took a lock.                                                        *)
(***************************************************************************)

Took(r, k) == On(r, k) /\ request[r].pc \in {"running", "refused", "failed", "finished"}

\* A lock is taken by a request, and who is refused or looks at it is another one.
TookInv ==
    /\ \A k \in Keys : lock[k] # Free => \E o \in Requests : Took(o, k)
    /\ \A r \in Requests : request[r].pc \in {"get", "conflict", "repeated"} =>
           \E o \in Requests \ {r} : Took(o, request[r].k)

\* Who took a lock has taken it.
LEMMA TookStays ==
    ASSUME TypeOK, [Next]_vars, NEW o \in Requests, NEW k, Took(o, k)
    PROVE  Took(o, k)'
<1> USE DEF Took, On, At
<1>1. ASSUME NEW r \in Requests, NEW j \in Keys, Acquire(r, j) \/ FailOpen(r, j)
      PROVE  Took(o, k)'
      BY <1>1 DEF Acquire, FailOpen, Goto, TypeOK
<1>2. ASSUME NEW r \in Requests, Inspect(r) \/ Refuse(r) \/ Succeed(r) \/ Fail(r)
      PROVE  Took(o, k)'
      BY <1>2 DEF Inspect, Refuse, Succeed, Fail, Goto, TypeOK
<1>3. ASSUME NEW j \in Keys, Expire(j)
      PROVE  Took(o, k)'
      BY <1>3 DEF Expire
<1>4. CASE UNCHANGED vars
      BY <1>4 DEF vars
<1> QED BY <1>1, <1>2, <1>3, <1>4 DEF Next

\* What a step does to the requests that look or have looked, and to the locks.
LEMMA TookStep ==
    ASSUME TypeOK, TookInv, [Next]_vars
    PROVE  TookInv'
<1>1. ASSUME NEW r \in Requests, NEW k \in Keys, Acquire(r, k)
      PROVE  TookInv'
  <2>1. /\ \A q \in Requests \ {r} : request'[q] = request[q]
        /\ request'[r].k = k /\ At(r, "new")
        /\ request'[r].pc = IF lock[k] = Free THEN "running" ELSE "get"
        /\ \A j \in Keys \ {k} : lock'[j] = lock[j]
        BY <1>1 DEF Acquire, Goto, TypeOK
  <2>2. lock[k] # Free => \E o \in Requests \ {r} : Took(o, k)
        BY <2>1 DEF TookInv, Took, On
  <2>3. \E o \in Requests : Took(o, k)'
    <3>1. CASE lock[k] = Free
          BY <2>1, <3>1 DEF Took, On, At
    <3>2. CASE lock[k] # Free
          BY <2>2, <3>2, TookStays
    <3> QED BY <3>1, <3>2
  <2>4. ASSUME NEW j \in Keys, lock'[j] # Free
        PROVE  \E o \in Requests : Took(o, j)'
    <3>1. CASE j = k
          BY <2>3, <3>1
    <3>2. CASE j # k
          BY <2>1, <2>4, <3>2, TookStays DEF TookInv
    <3> QED BY <3>1, <3>2
  <2>5. ASSUME NEW q \in Requests, request'[q].pc \in {"get", "conflict", "repeated"},
               NEW j, j = request'[q].k
        PROVE  \E o \in Requests \ {q} : Took(o, j)'
    <3>1. \E o \in Requests \ {q} : Took(o, j)
      <4>1. CASE q = r
            BY <2>1, <2>2, <2>5, <4>1
      <4>2. CASE q # r
        <5>1. request[q].pc \in {"get", "conflict", "repeated"} /\ request[q].k = j
              BY <2>1, <2>5, <4>2
        <5> QED BY <5>1 DEF TookInv
      <4> QED BY <4>1, <4>2
    <3> QED BY <3>1, TookStays
  <2> QED BY <2>4, <2>5 DEF TookInv, Took, On, At
<1>2. ASSUME /\ \A j \in Keys : lock'[j] # Free => lock[j] # Free
             /\ \A q \in Requests : request'[q].pc \in {"get", "conflict", "repeated"} =>
                  request[q].pc \in {"get", "conflict", "repeated"} /\ request'[q].k = request[q].k
      PROVE  TookInv'
  <2>1. ASSUME NEW q \in Requests, request'[q].pc \in {"get", "conflict", "repeated"},
               NEW j, j = request'[q].k
        PROVE  \E o \in Requests \ {q} : Took(o, j)'
    <3>1. \E o \in Requests \ {q} : Took(o, j)
          BY <1>2, <2>1 DEF TookInv
    <3> QED BY <3>1, TookStays
  <2>2. \A j \in Keys : lock'[j] # Free => \E o \in Requests : Took(o, j)'
        BY <1>2, TookStays DEF TookInv
  <2> QED BY <2>1, <2>2 DEF TookInv, Took, On, At
<1>3. ASSUME NEW r \in Requests, NEW k \in Keys, FailOpen(r, k)
      PROVE  TookInv'
      BY <1>2, <1>3 DEF FailOpen, Goto, TypeOK
<1>4. ASSUME NEW r \in Requests, Inspect(r) \/ Refuse(r) \/ Succeed(r) \/ Fail(r)
      PROVE  TookInv'
      BY <1>2, <1>4 DEF Inspect, Refuse, Succeed, Fail, Goto, TypeOK, At
<1>5. ASSUME NEW k \in Keys, Expire(k)
      PROVE  TookInv'
      BY <1>2, <1>5 DEF Expire, TypeOK
<1>6. CASE UNCHANGED vars
      BY <1>2, <1>6 DEF vars
<1> QED BY <1>1, <1>3, <1>4, <1>5, <1>6 DEF Next

(***************************************************************************)
(* The routes.                                                             *)
(***************************************************************************)

\* The chains of the controllers.
Chains == {Guarded, Limited, Permitted, Metered, Counted, AdminOnly, SignedIn, Open}

\* A route is marked @Idempotent under the chain that has the guard for it only,
\* and requires a permission only where a guard looks.
Fitting(x) ==
    /\ x.chain \in Chains
    /\ x.kind = "once" => x.chain = Guarded
    /\ x.chain \in {Guarded, Limited, Permitted} \/ x.needs = Nothing

\* The routes of one call of RoutesOf.
LEMMA RouteFields ==
    ASSUME NEW chain, NEW kind, NEW permissions, NEW x \in RoutesOf(chain, kind, permissions)
    PROVE  x.chain = chain /\ x.kind = kind /\ x.needs \in permissions
BY DEF RoutesOf

\* Every route of every controller is so.
LEMMA RoutesFit == \A x \in AllRoutes : Fitting(x)
<1>1. \A x \in AppController \cup AiController \cup AnalyticsController \cup
            Anexo22Controller \cup AuditLogsController \cup
            BillingOverridesController :
         Fitting(x)
      BY RouteFields DEF Fitting, Reads, Writes, Once, Chains,
           AppController, AiController, AnalyticsController, Anexo22Controller,
           AuditLogsController, BillingOverridesController
<1>2. \A x \in BillingController1 \cup BillingController2 \cup BillingController3
            \cup BlogController \cup ClientAccountsController \cup
            ClientAddressesController :
         Fitting(x)
      BY RouteFields DEF Fitting, Reads, Writes, Once, Chains,
           BillingController1, BillingController2, BillingController3, BlogController,
           ClientAccountsController, ClientAddressesController
<1>3. \A x \in ClientContactsController \cup ClientPortalAccessController \cup
            ClientsController \cup ComplianceDocumentRequirementsController \cup
            ComplianceRuleSetsController \cup ComplianceStatusRulesController :
         Fitting(x)
      BY RouteFields DEF Fitting, Reads, Writes, Once, Chains,
           ClientContactsController, ClientPortalAccessController, ClientsController,
           ComplianceDocumentRequirementsController, ComplianceRuleSetsController,
           ComplianceStatusRulesController
<1>4. \A x \in CupoLettersController \cup CustomsEntriesController1 \cup
            CustomsEntriesController2 \cup CustomsEntriesController3 \cup
            CustomsInspectionsController \cup CustomsOperationsController1 :
         Fitting(x)
      BY RouteFields DEF Fitting, Reads, Writes, Once, Chains,
           CupoLettersController, CustomsEntriesController1,
           CustomsEntriesController2, CustomsEntriesController3,
           CustomsInspectionsController, CustomsOperationsController1
<1>5. \A x \in CustomsOperationsController2 \cup CustomsPreviosController \cup
            CustomsRectificationsController \cup CustomsValuationController1 \cup
            CustomsValuationController2 \cup DocumentCategoriesController :
         Fitting(x)
      BY RouteFields DEF Fitting, Reads, Writes, Once, Chains,
           CustomsOperationsController2, CustomsPreviosController,
           CustomsRectificationsController, CustomsValuationController1,
           CustomsValuationController2, DocumentCategoriesController
<1>6. \A x \in DocumentManagementController1 \cup DocumentManagementController2 \cup
            DocumentsController \cup EDocumentsController1 \cup
            EDocumentsController2 \cup EventTrackingController1 :
         Fitting(x)
      BY RouteFields DEF Fitting, Reads, Writes, Once, Chains,
           DocumentManagementController1, DocumentManagementController2,
           DocumentsController, EDocumentsController1, EDocumentsController2,
           EventTrackingController1
<1>7. \A x \in EventTrackingController2 \cup ExchangeRatesController \cup
            ExportsController \cup FeatureFlagsController \cup HealthController
            \cup ImmexProgramsController :
         Fitting(x)
      BY RouteFields DEF Fitting, Reads, Writes, Once, Chains,
           EventTrackingController2, ExchangeRatesController, ExportsController,
           FeatureFlagsController, HealthController, ImmexProgramsController
<1>8. \A x \in ImporterRegistryController \cup ImportsController \cup
            IntegrationDeliveriesController \cup IntegrationsController \cup
            MembershipsController \cup NotificationsController :
         Fitting(x)
      BY RouteFields DEF Fitting, Reads, Writes, Once, Chains,
           ImporterRegistryController, ImportsController,
           IntegrationDeliveriesController, IntegrationsController,
           MembershipsController, NotificationsController
<1>9. \A x \in OperationAdvancesController \cup OperationChargesController \cup
            OperationCommentsController \cup OperationComplianceController \cup
            OperationFinanceController \cup OperationsController :
         Fitting(x)
      BY RouteFields DEF Fitting, Reads, Writes, Once, Chains,
           OperationAdvancesController, OperationChargesController,
           OperationCommentsController, OperationComplianceController,
           OperationFinanceController, OperationsController
<1>10. \A x \in OrganizationsController \cup PortalController \cup
            SaaiErrorsController \cup SaaiGeneratorController \cup
            StripeWebhookController \cup SubscriptionsController :
         Fitting(x)
      BY RouteFields DEF Fitting, Reads, Writes, Once, Chains,
           OrganizationsController, PortalController, SaaiErrorsController,
           SaaiGeneratorController, StripeWebhookController, SubscriptionsController
<1>11. \A x \in SystemAdminController1 \cup SystemAdminController2 \cup
            TariffClassificationController1 \cup TariffClassificationController2
            \cup TreasuryController1 \cup TreasuryController2 :
         Fitting(x)
      BY RouteFields DEF Fitting, Reads, Writes, Once, Chains,
           SystemAdminController1, SystemAdminController2,
           TariffClassificationController1, TariffClassificationController2,
           TreasuryController1, TreasuryController2
<1>12. \A x \in UnitConverterController \cup UsageController \cup UsersController \cup
            WarehouseController1 \cup WarehouseController2 :
         Fitting(x)
      BY RouteFields DEF Fitting, Reads, Writes, Once, Chains,
           UnitConverterController, UsageController, UsersController,
           WarehouseController1, WarehouseController2
<1> QED BY <1>1, <1>2, <1>3, <1>4, <1>5, <1>6, <1>7, <1>8, <1>9, <1>10, <1>11, <1>12 DEF AllRoutes, Controllers

\* The chains as sequences: their lengths, and where the guards stand.
LEMMA ChainFacts ==
    /\ Chains \subseteq Seq(Guards)
    /\ Len(Guarded) = 5 /\ Guarded[1] = "auth" /\ Guarded[2] = "abuse" /\ Guarded[3] = "limit"
    /\ Guarded[4] = "once" /\ Guarded[5] = "permission"
    /\ Len(Limited) = 4 /\ Limited[4] = "permission"
    /\ Len(Permitted) = 2 /\ Permitted[2] = "permission"
    /\ Len(AdminOnly) = 2 /\ AdminOnly[2] = "admin"
<1>1. /\ Guarded \in Seq(Guards) /\ Limited \in Seq(Guards) /\ Permitted \in Seq(Guards)
      /\ Metered \in Seq(Guards) /\ Counted \in Seq(Guards) /\ AdminOnly \in Seq(Guards)
      /\ SignedIn \in Seq(Guards) /\ Open \in Seq(Guards)
      BY DEF Guards, Guarded, Limited, Permitted, Metered, Counted, AdminOnly, SignedIn, Open
<1>2. /\ Len(Guarded) = 5 /\ Guarded[1] = "auth" /\ Guarded[2] = "abuse" /\ Guarded[3] = "limit"
      /\ Guarded[4] = "once" /\ Guarded[5] = "permission"
      BY DEF Guarded
<1>3. Len(Limited) = 4 /\ Limited[4] = "permission"
      BY DEF Limited
<1>4. Len(Permitted) = 2 /\ Permitted[2] = "permission"
      BY DEF Permitted
<1>5. Len(AdminOnly) = 2 /\ AdminOnly[2] = "admin"
      BY DEF AdminOnly
<1> QED BY <1>1, <1>2, <1>3, <1>4, <1>5 DEF Chains

(***************************************************************************)
(* The inductive invariant of the requests on their way.                   *)
(***************************************************************************)

\* What is left of a chain is its end.
EndOf(todo, chain) ==
    /\ Len(todo) <= Len(chain)
    /\ \A i \in 1..Len(todo) : todo[i] = chain[Len(chain) - Len(todo) + i]

Granted(c) ==
    c.route.needs = Nothing \/ c.admin \/ \E x \in c.seen : c.route.needs \in ROLE_PERMISSIONS[x]

\* The lock of an @Idempotent route is not asked for before the last guard but
\* one, and is taken behind it; behind the last guard the request is granted.
WayInv(r) ==
    LET c == call[r]
        left == Len(call[r].todo) IN
    /\ EndOf(c.todo, c.route.chain)
    /\ role[c.user] \in c.seen
    /\ c.route.kind # "once" => At(r, "new")
    /\ c.route.kind = "once" =>
         /\ c.k \in Keys \ {<<>>}
         /\ left > 2 => At(r, "new")
         /\ left = 2 => request[r].pc \in {"new", "get"}
         /\ left < 2 => At(r, "running")
    /\ left = 0 /\ c.route.chain \in {Guarded, Limited, Permitted} => Granted(c)
    /\ left = 0 /\ c.route.chain = AdminOnly => c.admin

\* A request and what it holds of the locks belong together; a key begins with
\* its user.
CallInv(r) ==
    /\ ~At(r, "new") => call[r] # NoCall /\ call[r].k = request[r].k /\ call[r].k # <<>>
    /\ call[r] # NoCall /\ call[r].k # <<>> => call[r].k[1] = call[r].user
    /\ call[r].at \in {"unauthenticated", "blocked", "limited"} => At(r, "new")
    /\ call[r].at = "duplicate" => request[r].pc \in {"conflict", "repeated"}
    /\ Active(r) => WayInv(r)

CallsInv == \A r \in Requests : CallInv(r)

ChainInv == Inv /\ TookInv /\ ChainTypeOK /\ CallsInv

(***************************************************************************)
(* Lemmas.                                                                 *)
(***************************************************************************)

\* A request on its way has the fields of one, and a route that fits.
LEMMA WayFields ==
    ASSUME ChainTypeOK, NEW r \in Requests, Active(r)
    PROVE  /\ call[r] \in [user : Users, k : Keys \cup {<<>>}, at : {"way"}, route : Served,
                           todo : Seq(Guards), admin : BOOLEAN, seen : SUBSET Roles]
           /\ call[r] # NoCall
           /\ Fitting(call[r].route) /\ call[r].route.chain \in Seq(Guards)
<1>1. call[r] \in Calls /\ call[r].at = "way"
      BY DEF ChainTypeOK, Active
<1>2. call[r] \in [user : Users, k : Keys \cup {<<>>}, at : {"way"}, route : Served,
                   todo : Seq(Guards), admin : BOOLEAN, seen : SUBSET Roles]
      BY <1>1 DEF Calls, NoCall, Refusals
<1>3. Fitting(call[r].route) /\ call[r].route.chain \in Seq(Guards)
      BY <1>2, ServedAssumption, RoutesFit, ChainFacts DEF Fitting
<1> QED BY <1>1, <1>2, <1>3 DEF NoCall

\* The tail of an end of a chain.
LEMMA TailOfEnd ==
    ASSUME NEW S, NEW todo \in Seq(S), NEW chain \in Seq(S), todo # <<>>, EndOf(todo, chain)
    PROVE  /\ Tail(todo) \in Seq(S) /\ Len(Tail(todo)) = Len(todo) - 1
           /\ EndOf(Tail(todo), chain)
           /\ Head(todo) = chain[Len(chain) - Len(todo) + 1]
           /\ Len(todo) \in Nat \ {0}
<1>1. /\ Len(todo) \in Nat \ {0} /\ Len(chain) \in Nat
      /\ Tail(todo) \in Seq(S) /\ Len(Tail(todo)) = Len(todo) - 1
      /\ \A i \in 1..Len(Tail(todo)) : Tail(todo)[i] = todo[i + 1]
      /\ Head(todo) = todo[1]
      OBVIOUS
<1>2. EndOf(Tail(todo), chain)
  <2>1. ASSUME NEW i \in 1..Len(Tail(todo))
        PROVE  Tail(todo)[i] = chain[Len(chain) - Len(Tail(todo)) + i]
    <3>1. i + 1 \in 1..Len(todo) /\ Len(chain) - Len(todo) + (i + 1) = Len(chain) - Len(Tail(todo)) + i
          BY <1>1
    <3> QED BY <1>1, <3>1 DEF EndOf
  <2> QED BY <1>1, <2>1 DEF EndOf
<1>3. Head(todo) = chain[Len(chain) - Len(todo) + 1]
      BY <1>1 DEF EndOf
<1> QED BY <1>1, <1>2, <1>3

\* Who faces a guard has so much of its chain left.
LEMMA FacingAt ==
    ASSUME ChainTypeOK, NEW r \in Requests, NEW guard, Facing(r, guard), WayInv(r)
    PROVE  LET c == call[r] IN
           /\ Tail(c.todo) \in Seq(Guards) /\ Len(Tail(c.todo)) = Len(c.todo) - 1
           /\ EndOf(Tail(c.todo), c.route.chain) /\ Len(c.todo) \in Nat \ {0}
           /\ Len(c.todo) <= Len(c.route.chain)
           /\ guard = c.route.chain[Len(c.route.chain) - Len(c.todo) + 1]
<1>1. /\ call[r].todo \in Seq(Guards) /\ call[r].route.chain \in Seq(Guards)
      /\ call[r].todo # <<>> /\ EndOf(call[r].todo, call[r].route.chain)
      /\ Head(call[r].todo) = guard
      BY WayFields DEF Facing, WayInv
<1>2. Len(call[r].todo) <= Len(call[r].route.chain)
      BY <1>1 DEF EndOf
<1> QED BY <1>1, <1>2, TailOfEnd

\* A request that a step leaves alone.
LEMMA CallFrame ==
    ASSUME NEW q \in Requests, CallInv(q), call'[q] = call[q], request'[q] = request[q],
           role' = role
    PROVE  CallInv(q)'
<1>1. WayInv(q) => WayInv(q)'
      BY DEF WayInv, At
<1> QED BY <1>1 DEF CallInv, Active, At

\* Where a guard stands in the chains that matter.
LEMMA Position ==
    ASSUME ChainTypeOK, NEW r \in Requests, NEW guard, Facing(r, guard), WayInv(r)
    PROVE  LET c == call[r]
               left == Len(call[r].todo) IN
           /\ left = 1 /\ c.route.chain \in {Guarded, Limited, Permitted} => guard = "permission"
           /\ left = 1 /\ c.route.chain = AdminOnly => guard = "admin"
           /\ guard = "once" => left = 2 \/ c.route.kind # "once"
           /\ c.route.kind = "once" =>
                /\ guard \in {"auth", "abuse", "limit", "once", "permission"}
                /\ guard \in {"auth", "abuse", "limit"} => left > 2
                /\ guard = "permission" => left = 1
<1> DEFINE c == call[r]
           left == Len(c.todo)
<1>1. /\ left \in Nat \ {0} /\ left <= Len(c.route.chain)
      /\ guard = c.route.chain[Len(c.route.chain) - left + 1]
      /\ c.route.chain \in Seq(Guards)
      /\ c.route.kind = "once" => c.route.chain = Guarded
      BY FacingAt, WayFields DEF Facing, Fitting
<1>5. left = 1 => guard = c.route.chain[Len(c.route.chain)]
  <2>1. Len(c.route.chain) \in Nat
        BY <1>1
  <2> HIDE DEF c, left
  <2>2. left = 1 => Len(c.route.chain) - left + 1 = Len(c.route.chain)
        BY <2>1
  <2> QED BY <1>1, <2>2
<1> HIDE DEF c, left
<1>2. left = 1 /\ c.route.chain \in {Guarded, Limited, Permitted} => guard = "permission"
      BY <1>5, ChainFacts
<1>3. left = 1 /\ c.route.chain = AdminOnly => guard = "admin"
      BY <1>5, ChainFacts
<1>4. ASSUME c.route.kind = "once"
      PROVE  /\ guard \in {"auth", "abuse", "limit", "once", "permission"}
             /\ guard = "once" => left = 2
             /\ guard \in {"auth", "abuse", "limit"} => left > 2
             /\ guard = "permission" => left = 1
  <2>1. left \in Nat \ {0} /\ left <= 5 /\ guard = Guarded[5 - left + 1]
        BY <1>1, <1>4, ChainFacts
  <2>2. PICK i \in 1..5 : left = 6 - i /\ guard = Guarded[i]
    <3>1. 5 - left + 1 \in 1..5 /\ left = 6 - (5 - left + 1)
          BY <2>1
    <3> QED BY <2>1, <3>1
  <2>3. \/ i = 5 /\ guard = "permission"
        \/ i = 4 /\ guard = "once"
        \/ i = 3 /\ guard = "limit"
        \/ i = 2 /\ guard = "abuse"
        \/ i = 1 /\ guard = "auth"
    <3>1. i = 1 \/ i = 2 \/ i = 3 \/ i = 4 \/ i = 5
          OBVIOUS
    <3> QED BY <2>2, <3>1, ChainFacts
  <2> QED BY <2>2, <2>3
<1> QED BY <1>2, <1>3, <1>4 DEF c, left

\* A request that passes a guard, which asks for its lock if that is the guard
\* for it, and lets pass only whom it may if it is one of the last.
LEMMA PassInv ==
    ASSUME ChainTypeOK, NEW r \in Requests, NEW guard, Facing(r, guard), CallInv(r), role' = role,
           call'[r].at = "way", call'[r].user = call[r].user, call'[r].k = call[r].k,
           call'[r].route = call[r].route, call'[r].seen = call[r].seen,
           call'[r].todo = Tail(call[r].todo),
           guard \in {"admin", "permission"} => call'[r].admin = call[r].admin,
           guard = "once" /\ call[r].route.kind = "once" =>
               request'[r].pc = "running" /\ request'[r].k = call[r].k,
           guard # "once" \/ call[r].route.kind # "once" => request'[r] = request[r],
           guard = "admin" => call[r].admin,
           guard = "permission" => Granted(call[r])
    PROVE  CallInv(r)'
<1>1. Active(r) /\ call[r] # NoCall /\ WayInv(r) /\ call'[r] # NoCall
      BY WayFields DEF Facing, CallInv, NoCall
<1>2. /\ Len(call'[r].todo) = Len(call[r].todo) - 1 /\ Len(call[r].todo) \in Nat \ {0}
      /\ EndOf(call'[r].todo, call'[r].route.chain)
      BY <1>1, FacingAt
<1>3. call[r].route.kind # "once" => request'[r].pc = "new"
      BY <1>1 DEF WayInv, At
<1>4. PICK n \in Nat : n = Len(call'[r].todo) /\ Len(call[r].todo) = n + 1
  <2>1. \A m \in Nat \ {0} : m - 1 \in Nat /\ m = (m - 1) + 1
        OBVIOUS
  <2> QED BY <1>2, <2>1
<1>5. ASSUME call[r].route.kind = "once"
      PROVE  /\ call'[r].k \in Keys \ {<<>>}
             /\ n > 2 => request'[r].pc = "new"
             /\ n = 2 => request'[r].pc \in {"new", "get"}
             /\ n < 2 => request'[r].pc = "running"
  <2>1. call[r].k \in Keys \ {<<>>}
        BY <1>1, <1>5 DEF WayInv
  <2>2. CASE guard = "once"
    <3>1. n = 1
          BY <1>1, <1>5, <1>4, <2>2, Position
    <3> QED BY <1>5, <2>1, <2>2, <3>1
  <2>3. CASE guard \in {"auth", "abuse", "limit"}
    <3>1. n > 1
          BY <1>1, <1>5, <1>4, <2>3, Position
    <3>2. request'[r].pc = "new"
          BY <1>1, <1>5, <1>4, <2>3, <3>1 DEF WayInv, At
    <3> QED BY <2>1, <3>1, <3>2
  <2>4. CASE guard = "permission"
    <3>1. Len(call[r].todo) = 1
          BY <1>1, <1>5, <2>4, Position
    <3>2. request[r].pc = "running"
          BY <1>1, <1>5, <2>4, <3>1 DEF WayInv, At
    <3>3. request'[r].pc = "running"
          BY <2>4, <3>2
    <3>4. n = 0
          BY <1>1, <1>5, <1>4, <2>4, Position
    <3> QED BY <2>1, <3>3, <3>4
  <2> QED BY <1>1, <1>5, <2>2, <2>3, <2>4, Position
<1>6. Len(call'[r].todo) = 0 /\ call'[r].route.chain \in {Guarded, Limited, Permitted} => Granted(call'[r])
  <2>1. Len(call'[r].todo) = 0 /\ call'[r].route.chain \in {Guarded, Limited, Permitted} => guard = "permission"
        BY <1>1, <1>2, Position
  <2> QED BY <2>1 DEF Granted
<1>7. Len(call'[r].todo) = 0 /\ call'[r].route.chain = AdminOnly => call'[r].admin
      BY <1>1, <1>2, Position
<1>8. WayInv(r)'
      BY <1>1, <1>2, <1>3, <1>5, <1>6, <1>7, <1>4 DEF WayInv, At
<1>9. request'[r].pc # "new" => call'[r].k = request'[r].k /\ call'[r].k # <<>>
      BY <1>1 DEF CallInv, WayInv, At
<1> QED BY <1>1, <1>8, <1>9 DEF CallInv, Active, At

\* A request that ends.
LEMMA EndInv ==
    ASSUME ChainTypeOK, NEW r \in Requests, NEW how \in Refusals \cup {"answered", "failed"},
           Active(r), CallInv(r), End(r, how),
           request'[r].pc # "new" => request'[r].k = call[r].k /\ call[r].k # <<>>,
           how \in {"unauthenticated", "blocked", "limited"} => request'[r].pc = "new",
           how = "duplicate" => request'[r].pc \in {"conflict", "repeated"}
    PROVE  CallInv(r)'
<1>1. /\ call'[r] = [user |-> call[r].user, k |-> call[r].k, at |-> how]
      /\ how # "way" /\ call[r] # NoCall
      BY WayFields DEF End, ChainTypeOK, Refusals
<1>2. call'[r] # NoCall
      BY <1>1 DEF NoCall, Refusals
<1> QED BY <1>1, <1>2 DEF CallInv, Active, At

\* The types of requests that pass a guard or end.
LEMMA PassType ==
    ASSUME ChainTypeOK, NEW r \in Requests, NEW guard, Facing(r, guard), WayInv(r), NEW b \in BOOLEAN,
           \/ Pass(r)
           \/ call' = [call EXCEPT ![r].todo = Tail(@), ![r].admin = b]
    PROVE  call' \in [Requests -> Calls]
<1>1. /\ call[r] \in [user : Users, k : Keys \cup {<<>>}, at : {"way"}, route : Served,
                      todo : Seq(Guards), admin : BOOLEAN, seen : SUBSET Roles]
      /\ Tail(call[r].todo) \in Seq(Guards)
      BY WayFields, FacingAt DEF Facing
<1>2. CASE Pass(r)
  <2>1. call' = [call EXCEPT ![r] = [call[r] EXCEPT !.todo = Tail(call[r].todo)]]
        BY <1>2 DEF Pass, ChainTypeOK
  <2>2. [call[r] EXCEPT !.todo = Tail(call[r].todo)] \in Calls
        BY <1>1 DEF Calls
  <2> QED BY <2>1, <2>2 DEF ChainTypeOK
<1>3. CASE call' = [call EXCEPT ![r].todo = Tail(@), ![r].admin = b]
  <2>1. call' = [call EXCEPT ![r] = [call[r] EXCEPT !.todo = Tail(call[r].todo), !.admin = b]]
        BY <1>3 DEF ChainTypeOK
  <2>2. [call[r] EXCEPT !.todo = Tail(call[r].todo), !.admin = b] \in Calls
        BY <1>1 DEF Calls
  <2> QED BY <2>1, <2>2 DEF ChainTypeOK
<1> QED BY <1>2, <1>3

\* The types of requests that end.
LEMMA EndType ==
    ASSUME ChainTypeOK, NEW r \in Requests, Active(r), NEW how \in Refusals \cup {"answered", "failed"},
           End(r, how)
    PROVE  call' \in [Requests -> Calls]
<1>1. call[r].user \in Users /\ call[r].k \in Keys \cup {<<>>}
      BY WayFields
<1>2. [user |-> call[r].user, k |-> call[r].k, at |-> how] \in Calls
      BY <1>1 DEF Calls
<1> QED BY <1>2 DEF End, ChainTypeOK

(***************************************************************************)
(* The steps.                                                              *)
(***************************************************************************)

\* A request begins: it has taken no lock, and its key is its user's.
LEMMA ArriveStep ==
    ASSUME ChainInv, NEW r \in Requests, NEW u \in Users, NEW route \in Served,
           NEW header \in ClientKeys \cup Paths, Arrive(r, u, route, header)
    PROVE  call' \in [Requests -> Calls] /\ CallsInv'
<1> USE DEF ChainInv
<1> DEFINE k == LockKey(u, route, header)
           c == [user |-> u, route |-> route, k |-> k, admin |-> FALSE,
                 todo |-> route.chain, seen |-> {role[u]}, at |-> "way"]
<1>1. call[r] = NoCall /\ call' = [call EXCEPT ![r] = c] /\ request' = request /\ role' = role
      BY DEF Arrive, vars
<1>2. /\ k \in Keys \cup {<<>>}
      /\ route.kind = "once" => k \in Keys \ {<<>>}
      /\ k # <<>> => k[1] = u
  <2>1. route.kind # "once" => k = <<>>
        BY DEF LockKey
  <2>2. route.kind = "once" => k # <<>> /\ k[1] = u
    <3>1. <<u, header>> # <<>> /\ <<u, header>>[1] = u
          OBVIOUS
    <3>2. <<u, route.needs, header>> # <<>> /\ <<u, route.needs, header>>[1] = u
          OBVIOUS
    <3> QED BY <3>1, <3>2 DEF LockKey
  <2>3. k # <<>> => k \in LockKeys(ClientKeys \cup Paths)
        BY DEF LockKeys
  <2> QED BY <2>1, <2>2, <2>3, KeysAssumption
<1>3. Fitting(route) /\ route.chain \in Seq(Guards)
      BY ServedAssumption, RoutesFit, ChainFacts DEF Fitting
<1>4. c \in Calls
      BY <1>2, <1>3 DEF Calls, ChainTypeOK
<1>5. call'[r] = c /\ \A q \in Requests \ {r} : call'[q] = call[q]
      BY <1>1 DEF ChainTypeOK
<1>6. At(r, "new")
      BY <1>1 DEF CallsInv, CallInv
<1>7. CallInv(r)'
  <2>1. /\ Len(route.chain) \in Nat /\ EndOf(route.chain, route.chain)
        /\ Len(route.chain) # 0 \/ route.chain \notin {Guarded, Limited, Permitted, AdminOnly}
        /\ route.kind = "once" => Len(route.chain) = 5
    <3>1. Len(route.chain) \in Nat
          BY <1>3
    <3>2. EndOf(route.chain, route.chain)
      <4>1. \A i \in 1..Len(route.chain) : Len(route.chain) - Len(route.chain) + i = i
            BY <3>1
      <4> QED BY <3>1, <4>1 DEF EndOf
    <3>3. Len(route.chain) # 0 \/ route.chain \notin {Guarded, Limited, Permitted, AdminOnly}
          BY ChainFacts
    <3>4. route.kind = "once" => Len(route.chain) = 5
          BY <1>3, ChainFacts DEF Fitting
    <3> QED BY <3>1, <3>2, <3>3, <3>4
  <2>2. WayInv(r)'
    <3>1. /\ call'[r].todo = route.chain /\ call'[r].route = route /\ call'[r].k = k
          /\ call'[r].user = u /\ call'[r].seen = {role[u]}
          BY <1>5
    <3>2. request'[r].pc = "new" /\ role'[u] = role[u]
          BY <1>1, <1>6 DEF At
    <3>3. ASSUME route.kind = "once"
          PROVE  Len(route.chain) # 2 /\ ~(Len(route.chain) < 2)
      <4>1. PICK n \in Nat : n = Len(route.chain)
            BY <2>1
      <4>2. n = 5
            BY <2>1, <3>3, <4>1
      <4> QED BY <4>1, <4>2
    <3>4. EndOf(call'[r].todo, call'[r].route.chain) /\ role'[call'[r].user] \in call'[r].seen
          BY <2>1, <3>1, <3>2
    <3>5. call'[r].route.kind = "once" =>
             /\ call'[r].k \in Keys \ {<<>>}
             /\ Len(call'[r].todo) # 2 /\ ~(Len(call'[r].todo) < 2)
          BY <1>2, <3>1, <3>3
    <3>6. Len(call'[r].todo) # 0 \/ call'[r].route.chain \notin {Guarded, Limited, Permitted, AdminOnly}
          BY <2>1, <3>1
    <3> HIDE DEF k, c
    <3> QED BY <3>2, <3>4, <3>5, <3>6 DEF WayInv, At
  <2>3. /\ call'[r] # NoCall /\ call'[r].at = "way" /\ call'[r].k = k /\ call'[r].user = u
        BY <1>5 DEF NoCall
  <2>4. request'[r].pc = "new"
        BY <1>1, <1>6 DEF At
  <2> HIDE DEF k, c
  <2> QED BY <1>2, <2>2, <2>3, <2>4 DEF CallInv, At
<1>8. ASSUME NEW q \in Requests
      PROVE  CallInv(q)'
  <2>1. CASE q = r
        BY <1>7, <2>1
  <2>2. CASE q # r
        BY <1>1, <1>5, <2>2, CallFrame DEF CallsInv
  <2> QED BY <2>1, <2>2
<1> QED BY <1>1, <1>4, <1>8 DEF ChainTypeOK, CallsInv

\* What a step does to the other requests: nothing.
LEMMA Others ==
    ASSUME ChainInv, NEW r \in Requests, CallInv(r)', role' = role,
           \A q \in Requests \ {r} : call'[q] = call[q] /\ request'[q] = request[q]
    PROVE  CallsInv'
BY CallFrame DEF ChainInv, CallsInv

\* The fields of a request that passes.
LEMMA PassFields ==
    ASSUME ChainTypeOK, NEW r \in Requests, Active(r), NEW b,
           \/ Pass(r) /\ b = call[r].admin
           \/ call' = [call EXCEPT ![r].todo = Tail(@), ![r].admin = b]
    PROVE  /\ call'[r].at = "way" /\ call'[r].user = call[r].user /\ call'[r].k = call[r].k
           /\ call'[r].route = call[r].route /\ call'[r].seen = call[r].seen
           /\ call'[r].todo = Tail(call[r].todo) /\ call'[r].admin = b
           /\ \A q \in Requests \ {r} : call'[q] = call[q]
<1>1. call[r] \in [user : Users, k : Keys \cup {<<>>}, at : {"way"}, route : Served,
                   todo : Seq(Guards), admin : BOOLEAN, seen : SUBSET Roles]
      BY WayFields
<1>2. CASE Pass(r) /\ b = call[r].admin
      BY <1>1, <1>2 DEF Pass, ChainTypeOK
<1>3. CASE call' = [call EXCEPT ![r].todo = Tail(@), ![r].admin = b]
      BY <1>1, <1>3 DEF ChainTypeOK
<1> QED BY <1>2, <1>3

\* The guards before the lock.
LEMMA EarlyStep ==
    ASSUME ChainInv, NEW r \in Requests,
           AuthGuard(r) \/ SystemAdminGuard(r) \/ AbuseDetectionGuard(r) \/ RateLimitGuard(r)
    PROVE  call' \in [Requests -> Calls] /\ CallsInv'
<1> USE DEF ChainInv
<1>1. /\ request' = request /\ role' = role /\ Active(r) /\ CallInv(r) /\ WayInv(r)
      /\ call[r].admin \in BOOLEAN /\ (call[r].user \in admins) \in BOOLEAN
  <2>1. request' = request /\ role' = role /\ Active(r)
        BY DEF AuthGuard, SystemAdminGuard, AbuseDetectionGuard, RateLimitGuard, Facing, vars
  <2> QED BY <2>1, WayFields DEF CallsInv, CallInv
<1>2. ASSUME NEW how \in {"unauthenticated", "forbidden", "blocked", "limited"}, End(r, how),
             At(r, "new") \/ how = "forbidden"
      PROVE  call' \in [Requests -> Calls] /\ CallsInv'
  <2>1. how \in Refusals \cup {"answered", "failed"}
        BY DEF Refusals
  <2>2. CallInv(r)'
        BY <1>1, <1>2, <2>1, EndInv DEF CallInv, At
  <2> QED BY <1>1, <1>2, <2>1, <2>2, EndType, Others DEF End, ChainTypeOK
<1>3. ASSUME NEW guard \in {"auth", "admin", "abuse", "limit"}, Facing(r, guard), NEW b \in BOOLEAN,
             \/ Pass(r) /\ b = call[r].admin
             \/ call' = [call EXCEPT ![r].todo = Tail(@), ![r].admin = b],
             guard = "admin" => b = call[r].admin /\ call[r].admin
      PROVE  call' \in [Requests -> Calls] /\ CallsInv'
  <2>1. call' \in [Requests -> Calls]
        BY <1>1, <1>3, PassType
  <2>2. CallInv(r)'
    <3>1. /\ call'[r].at = "way" /\ call'[r].user = call[r].user /\ call'[r].k = call[r].k
          /\ call'[r].route = call[r].route /\ call'[r].seen = call[r].seen
          /\ call'[r].todo = Tail(call[r].todo) /\ call'[r].admin = b
          BY <1>1, <1>3, PassFields
    <3> QED BY <1>1, <1>3, <3>1, PassInv
  <2> QED BY <1>1, <1>3, <2>1, <2>2, PassFields, Others
<1>4. CASE AuthGuard(r)
  <2>1. Facing(r, "auth") /\ At(r, "new")
    <3>1. Facing(r, "auth")
          BY <1>4 DEF AuthGuard
    <3> QED BY <1>1, <3>1, Position DEF WayInv
  <2>2. CASE End(r, "unauthenticated")
        BY <1>2, <2>1, <2>2
  <2>3. CASE call' = [call EXCEPT ![r].todo = Tail(@), ![r].admin = call[r].user \in admins]
        BY <1>1, <1>3, <2>1, <2>3
  <2> QED BY <1>4, <2>2, <2>3 DEF AuthGuard
<1>5. CASE SystemAdminGuard(r)
  <2>1. Facing(r, "admin")
        BY <1>5 DEF SystemAdminGuard
  <2>2. CASE call[r].admin
        BY <1>1, <1>3, <1>5, <2>1, <2>2 DEF SystemAdminGuard
  <2>3. CASE ~call[r].admin
        BY <1>2, <1>5, <2>3 DEF SystemAdminGuard
  <2> QED BY <2>2, <2>3
<1>6. CASE AbuseDetectionGuard(r)
  <2>1. Facing(r, "abuse")
        BY <1>6 DEF AbuseDetectionGuard
  <2>2. At(r, "new")
        BY <1>1, <2>1, Position DEF WayInv
  <2>3. CASE Pass(r)
        BY <1>1, <1>3, <2>1, <2>3
  <2>4. CASE End(r, "blocked")
        BY <1>2, <2>2, <2>4
  <2> QED BY <1>6, <2>3, <2>4 DEF AbuseDetectionGuard
<1>7. CASE RateLimitGuard(r)
  <2>1. Facing(r, "limit")
        BY <1>7 DEF RateLimitGuard
  <2>2. At(r, "new")
        BY <1>1, <2>1, Position DEF WayInv
  <2>3. CASE Pass(r)
        BY <1>1, <1>3, <2>1, <2>3
  <2>4. CASE End(r, "limited")
        BY <1>2, <2>2, <2>4
  <2> QED BY <1>7, <2>3, <2>4 DEF RateLimitGuard
<1> QED BY <1>4, <1>5, <1>6, <1>7

\* The lock of an @Idempotent route is of a key, and asked for as the guard does.
LEMMA LockOf ==
    ASSUME ChainInv, NEW r \in Requests, IdempotencyGuard(r), call[r].route.kind = "once"
    PROVE  /\ call[r].k \in Keys \ {<<>>} /\ request[r].pc \in {"new", "get"}
           /\ request[r].pc = "get" => request[r].k = call[r].k
<1>1. Facing(r, "once") /\ Active(r) /\ CallInv(r) /\ WayInv(r)
      BY DEF IdempotencyGuard, Facing, ChainInv, CallsInv, CallInv
<1>2. Len(call[r].todo) = 2
      BY <1>1, Position DEF ChainInv
<1> QED BY <1>1, <1>2 DEF WayInv, CallInv, At

\* The guard of duplicates: past it, a request has its lock or was let through.
LEMMA OnceStep ==
    ASSUME ChainInv, NEW r \in Requests, IdempotencyGuard(r)
    PROVE  call' \in [Requests -> Calls] /\ CallsInv'
<1> USE DEF ChainInv
<1>1. /\ Facing(r, "once") /\ Active(r) /\ CallInv(r) /\ WayInv(r) /\ role' = role
      /\ call[r].admin \in BOOLEAN
      BY WayFields DEF IdempotencyGuard, Facing, CallsInv, CallInv
<1>2. ASSUME Pass(r),
             call[r].route.kind = "once" => request'[r].pc = "running" /\ request'[r].k = call[r].k,
             call[r].route.kind # "once" => request'[r] = request[r],
             \A q \in Requests \ {r} : request'[q] = request[q]
      PROVE  call' \in [Requests -> Calls] /\ CallsInv'
  <2>1. call' \in [Requests -> Calls]
        BY <1>1, <1>2, PassType
  <2>2. CallInv(r)'
    <3>1. /\ call'[r].at = "way" /\ call'[r].user = call[r].user /\ call'[r].k = call[r].k
          /\ call'[r].route = call[r].route /\ call'[r].seen = call[r].seen
          /\ call'[r].todo = Tail(call[r].todo)
          BY <1>1, <1>2, PassFields
    <3> QED BY <1>1, <1>2, <3>1, PassInv
  <2> QED BY <1>1, <1>2, <2>1, <2>2, PassFields, Others
<1>3. CASE call[r].route.kind # "once" /\ Pass(r) /\ UNCHANGED vars
      BY <1>2, <1>3 DEF vars
<1>4. CASE call[r].route.kind = "once"
  <2>1. /\ call[r].k \in Keys \ {<<>>} /\ request[r].pc \in {"new", "get"}
        /\ request[r].pc = "get" => request[r].k = call[r].k
        BY <1>4, LockOf
  <2>2. /\ Acquire(r, call[r].k) \/ FailOpen(r, call[r].k) \/ Inspect(r)
        /\ \/ request'[r].pc = "running" /\ Pass(r)
           \/ request'[r].pc = "get" /\ call' = call
           \/ request'[r].pc \notin {"running", "get"} /\ End(r, "duplicate")
        BY <1>4 DEF IdempotencyGuard, At
  <2>3. /\ request'[r].k = call[r].k
        /\ request'[r].pc \in {"running", "get", "conflict", "repeated"}
        /\ \A q \in Requests \ {r} : request'[q] = request[q]
    <3> USE DEF Inv, TypeOK, Goto
    <3>1. CASE Acquire(r, call[r].k)
          BY <3>1 DEF Acquire
    <3>2. CASE FailOpen(r, call[r].k)
          BY <3>2 DEF FailOpen
    <3>3. CASE Inspect(r)
          BY <2>1, <3>3 DEF Inspect, At
    <3> QED BY <2>2, <3>1, <3>2, <3>3
  <2>4. CASE request'[r].pc = "running" /\ Pass(r)
        BY <1>2, <1>4, <2>3, <2>4
  <2>5. CASE request'[r].pc = "get" /\ call' = call
    <3>1. Len(call[r].todo) = 2
          BY <1>1, <1>4, Position
    <3>2. WayInv(r)'
          BY <1>1, <1>4, <2>5, <3>1 DEF WayInv, At
    <3>3. CallInv(r)'
          BY <1>1, <2>1, <2>3, <2>5, <3>2, WayFields DEF CallInv, At, Active
    <3> QED BY <1>1, <2>3, <2>5, <3>3, Others DEF ChainTypeOK
  <2>6. CASE request'[r].pc \notin {"running", "get"} /\ End(r, "duplicate")
    <3>1. "duplicate" \in Refusals \cup {"answered", "failed"}
          BY DEF Refusals
    <3>2. CallInv(r)'
          BY <1>1, <2>1, <2>3, <2>6, <3>1, EndInv
    <3>3. \A q \in Requests \ {r} : call'[q] = call[q]
          BY <2>6 DEF End, ChainTypeOK
    <3> QED BY <1>1, <2>3, <2>6, <3>1, <3>2, <3>3, EndType, Others
  <2> QED BY <2>2, <2>4, <2>5, <2>6
<1> QED BY <1>3, <1>4 DEF IdempotencyGuard

\* A request that ends with its lock, if it has one, in the hand of Redis.
LEMMA LastStep ==
    ASSUME ChainInv, NEW r \in Requests, Active(r),
           NEW how \in {"forbidden", "answered", "failed"}, End(r, how), role' = role,
           \/ UNCHANGED vars
           \/ Refuse(r) \/ Succeed(r) \/ Fail(r)
    PROVE  call' \in [Requests -> Calls] /\ CallsInv'
<1> USE DEF ChainInv
<1>1. how \in Refusals \cup {"answered", "failed"}
      BY DEF Refusals
<1>2. CallInv(r)
      BY DEF CallsInv
<1>3. /\ request'[r].pc # "new" => request'[r].k = call[r].k /\ call[r].k # <<>>
      /\ \A q \in Requests \ {r} : request'[q] = request[q]
  <2>1. request[r].pc # "new" => request[r].k = call[r].k /\ call[r].k # <<>>
        BY <1>2 DEF CallInv, At
  <2>2. CASE UNCHANGED vars
        BY <2>1, <2>2 DEF vars
  <2>3. CASE Refuse(r) \/ Succeed(r) \/ Fail(r)
        BY <2>1, <2>3 DEF Refuse, Succeed, Fail, Goto, Inv, TypeOK, At
  <2> QED BY <2>2, <2>3
<1>4. CallInv(r)'
      BY <1>1, <1>2, <1>3, EndInv
<1>5. \A q \in Requests \ {r} : call'[q] = call[q]
      BY DEF End, ChainTypeOK
<1> QED BY <1>1, <1>3, <1>4, <1>5, EndType, Others

\* The guard of permissions lets pass who is granted, by the role of now.
LEMMA PermissionStep ==
    ASSUME ChainInv, NEW r \in Requests, PermissionsGuard(r)
    PROVE  call' \in [Requests -> Calls] /\ CallsInv'
<1> USE DEF ChainInv
<1>1. /\ Facing(r, "permission") /\ Active(r) /\ CallInv(r) /\ WayInv(r) /\ role' = role
      /\ call[r].admin \in BOOLEAN
      BY WayFields DEF PermissionsGuard, Facing, CallsInv, CallInv
<1>2. \/ /\ Granted(call[r]) /\ Pass(r) /\ UNCHANGED vars
      \/ /\ End(r, "forbidden")
         /\ UNCHANGED vars \/ Refuse(r)
  <2>1. role[call[r].user] \in call[r].seen
        BY <1>1 DEF WayInv
  <2> QED BY <2>1 DEF PermissionsGuard, Granted
<1>3. CASE Granted(call[r]) /\ Pass(r) /\ UNCHANGED vars
  <2>1. call' \in [Requests -> Calls]
        BY <1>1, <1>3, PassType
  <2>2. CallInv(r)'
    <3>1. /\ call'[r].at = "way" /\ call'[r].user = call[r].user /\ call'[r].k = call[r].k
          /\ call'[r].route = call[r].route /\ call'[r].seen = call[r].seen
          /\ call'[r].todo = Tail(call[r].todo) /\ call'[r].admin = call[r].admin
          BY <1>1, <1>3, PassFields
    <3> QED BY <1>1, <1>3, <3>1, PassInv DEF vars
  <2> QED BY <1>1, <1>3, <2>1, <2>2, PassFields, Others DEF vars
<1>4. CASE End(r, "forbidden") /\ (UNCHANGED vars \/ Refuse(r))
      BY <1>1, <1>4, LastStep
<1> QED BY <1>2, <1>3, <1>4

\* The handler ends the request.
LEMMA HandleStep ==
    ASSUME ChainInv, NEW r \in Requests, Handle(r)
    PROVE  call' \in [Requests -> Calls] /\ CallsInv'
BY LastStep DEF Handle, InHandler

\* A changed role is one the requests of its user were seen with.
LEMMA RoleStep ==
    ASSUME ChainInv, NEW u \in Users, NEW to \in Roles, ChangeRole(u, to)
    PROVE  call' \in [Requests -> Calls] /\ CallsInv'
<1> USE DEF ChainInv
<1>1. ASSUME NEW r \in Requests
      PROVE  call'[r] \in Calls /\ CallInv(r)'
  <2>1. request'[r] = request[r] /\ CallInv(r)
        BY DEF ChangeRole, vars, CallsInv
  <2>2. CASE Active(r) /\ call[r].user = u
    <3>1. /\ call[r] \in [user : Users, k : Keys \cup {<<>>}, at : {"way"}, route : Served,
                          todo : Seq(Guards), admin : BOOLEAN, seen : SUBSET Roles]
          /\ call'[r] = [call[r] EXCEPT !.seen = @ \cup {to}]
          BY <2>2, WayFields DEF ChangeRole
    <3>2. call'[r] \in Calls
          BY <3>1 DEF Calls
    <3>3. /\ call'[r].at = "way" /\ call'[r].user = u /\ call'[r].k = call[r].k
          /\ call'[r].route = call[r].route /\ call'[r].admin = call[r].admin
          /\ call'[r].todo = call[r].todo /\ call'[r].seen = call[r].seen \cup {to}
          /\ role'[u] = to
          BY <2>2, <3>1 DEF ChangeRole, ChainTypeOK
    <3>4. Granted(call[r]) => Granted(call'[r])
          BY <3>3 DEF Granted
    <3>5. WayInv(r)'
      <4>1. WayInv(r)
            BY <2>1, <2>2 DEF CallInv
      <4>2. role'[call'[r].user] \in call'[r].seen
            BY <3>3
      <4> QED BY <2>1, <3>3, <3>4, <4>1, <4>2 DEF WayInv, At
    <3> QED BY <2>1, <2>2, <3>2, <3>3, <3>5, WayFields DEF CallInv, At, NoCall
  <2>3. CASE ~(Active(r) /\ call[r].user = u)
    <3>1. call'[r] = call[r] /\ call'[r] \in Calls
          BY <2>3 DEF ChangeRole, ChainTypeOK
    <3>2. Active(r) => WayInv(r)'
      <4>1. Active(r) => role'[call[r].user] = role[call[r].user]
            BY <2>3, WayFields DEF ChangeRole, ChainTypeOK
      <4> QED BY <2>1, <3>1, <4>1 DEF WayInv, CallInv, At
    <3> QED BY <2>1, <3>1, <3>2 DEF CallInv, Active, At
  <2> QED BY <2>2, <2>3
<1> QED BY <1>1 DEF ChangeRole, CallsInv

\* On the way to a handler the locks are used as Idempotency says.
LEMMA LocksStep ==
    ASSUME ChainInv, [ChainNext]_allVars
    PROVE  [Next]_vars
<1> USE DEF ChainInv
<1>1. ASSUME NEW r \in Requests, IdempotencyGuard(r)
      PROVE  [Next]_vars
  <2>1. CASE UNCHANGED vars
        BY <2>1
  <2>2. CASE call[r].route.kind = "once"
    <3>1. call[r].k \in Keys
          BY <1>1, <2>2, LockOf
    <3> QED BY <1>1, <2>2, <3>1 DEF IdempotencyGuard, Next
  <2> QED BY <1>1, <2>1, <2>2 DEF IdempotencyGuard
<1>2. ASSUME NEW r \in Requests,
             AuthGuard(r) \/ SystemAdminGuard(r) \/ AbuseDetectionGuard(r) \/ RateLimitGuard(r)
      PROVE  UNCHANGED vars
      BY <1>2 DEF AuthGuard, SystemAdminGuard, AbuseDetectionGuard, RateLimitGuard, vars
<1>3. ASSUME NEW r \in Requests, PermissionsGuard(r) \/ Handle(r)
      PROVE  [Next]_vars
      BY <1>3 DEF PermissionsGuard, Handle, Next
<1>4. ASSUME NEW k \in Keys, LockExpires(k)
      PROVE  [Next]_vars
      BY <1>4 DEF LockExpires, Next
<1>5. ASSUME NEW r, NEW u, NEW route, NEW header, Arrive(r, u, route, header)
      PROVE  UNCHANGED vars
      BY <1>5 DEF Arrive, vars
<1>6. ASSUME NEW u, NEW to, ChangeRole(u, to) \/ ChangeAdmin(u)
      PROVE  UNCHANGED vars
      BY <1>6 DEF ChangeRole, ChangeAdmin, vars
<1>7. CASE UNCHANGED allVars
      BY <1>7 DEF allVars
<1> QED BY <1>1, <1>2, <1>3, <1>4, <1>5, <1>6, <1>7 DEF ChainNext

\* Changes of the administrators, expiries and stutters leave the requests.
LEMMA AsideStep ==
    ASSUME ChainInv,
           \/ \E u \in Users : ChangeAdmin(u)
           \/ \E k \in Keys : LockExpires(k)
           \/ UNCHANGED allVars
    PROVE  call' \in [Requests -> Calls] /\ CallsInv'
<1>1. call' = call /\ request' = request /\ role' = role
      BY DEF ChangeAdmin, LockExpires, Expire, allVars, chainVars, vars
<1> QED BY <1>1, CallFrame DEF ChainInv, ChainTypeOK, CallsInv

\* The roles, the administrators and the bound.
LEMMA AroundStep ==
    ASSUME ChainTypeOK, [ChainNext]_allVars
    PROVE  role' \in [Users -> Roles] /\ admins' \subseteq Users /\ changes' \in 0..MaxChanges
<1>1. ASSUME NEW u \in Users, NEW to \in Roles, ChangeRole(u, to)
      PROVE  role' \in [Users -> Roles] /\ admins' \subseteq Users /\ changes' \in 0..MaxChanges
      BY <1>1, ChangesAssumption DEF ChangeRole, ChainTypeOK
<1>2. ASSUME NEW u \in Users, ChangeAdmin(u)
      PROVE  role' \in [Users -> Roles] /\ admins' \subseteq Users /\ changes' \in 0..MaxChanges
      BY <1>2, ChangesAssumption DEF ChangeAdmin, ChainTypeOK
<1>3. CASE UNCHANGED <<role, admins, changes>>
      BY <1>3 DEF ChainTypeOK
<1>4. ASSUME NEW r \in Requests, \/ AuthGuard(r) \/ SystemAdminGuard(r) \/ AbuseDetectionGuard(r)
                                 \/ RateLimitGuard(r) \/ IdempotencyGuard(r) \/ PermissionsGuard(r)
                                 \/ Handle(r)
      PROVE  UNCHANGED <<role, admins, changes>>
      BY <1>4 DEF AuthGuard, SystemAdminGuard, AbuseDetectionGuard, RateLimitGuard,
         IdempotencyGuard, PermissionsGuard, Handle
<1>5. ASSUME NEW r, NEW u, NEW route, NEW header, Arrive(r, u, route, header)
      PROVE  UNCHANGED <<role, admins, changes>>
      BY <1>5 DEF Arrive
<1>6. ASSUME NEW k, LockExpires(k)
      PROVE  UNCHANGED <<role, admins, changes>>
      BY <1>6 DEF LockExpires, chainVars
<1>7. CASE UNCHANGED allVars
      BY <1>3, <1>7 DEF allVars, chainVars
<1> QED BY <1>1, <1>2, <1>3, <1>4, <1>5, <1>6, <1>7 DEF ChainNext

\* Without requests the invariant holds.
LEMMA ChainInitInv == ChainInit => ChainInv
<1> SUFFICES ASSUME ChainInit
             PROVE  ChainInv
    OBVIOUS
<1>1. Inv
      BY InitInv DEF ChainInit
<1>2. TookInv
      BY DEF ChainInit, Init, TookInv, Free, Idle
<1>3. ChainTypeOK
      BY <1>1, ChangesAssumption DEF ChainInit, ChainTypeOK, Inv, Calls, Roles
<1>4. CallsInv
      BY DEF ChainInit, Init, CallsInv, CallInv, Active, At, NoCall, Idle
<1> QED BY <1>1, <1>2, <1>3, <1>4 DEF ChainInv

\* Every step keeps the invariant.
LEMMA ChainNextInv ==
    ASSUME ChainInv, [ChainNext]_allVars
    PROVE  ChainInv'
<1>1. [Next]_vars
      BY LocksStep
<1>2. Inv' /\ TookInv'
      BY <1>1, InvStep, TookStep DEF ChainInv, Inv
<1>3. call' \in [Requests -> Calls] /\ CallsInv'
      BY ArriveStep, EarlyStep, OnceStep, PermissionStep, HandleStep, RoleStep, AsideStep DEF ChainNext
<1> QED BY <1>2, <1>3, AroundStep DEF ChainInv, ChainTypeOK, Inv

\* It holds in every reachable state.
LEMMA ChainInvariance == ChainSpec => []ChainInv
BY ChainInitInv, ChainNextInv, PTL DEF ChainSpec

(***************************************************************************)
(* Theorems about requests on their way.                                   *)
(***************************************************************************)

\* Requests, roles and locks have their types.
THEOREM ChainTypeCorrect == ChainSpec => []ChainTypeOK
<1>1. ChainInv => ChainTypeOK
      BY DEF ChainInv
<1> QED BY <1>1, ChainInvariance, PTL

\* The guards use the locks as Idempotency says (idempotency.guard.ts within its
\* chain): what is proved of the locks alone holds of them here.
THEOREM ChainImplementsLocks == ChainSpec => Spec
<1>1. ChainInit => Init
      BY DEF ChainInit
<1> QED BY <1>1, LocksStep, ChainInvariance, PTL DEF ChainSpec, Spec

\* A handler runs for those who may have it run (@RequirePermission,
\* SystemAdminGuard), on every route of every controller and whatever is changed
\* while the guards are awaited.
THEOREM PermissionCorrect == ChainSpec => []HandledWithPermission
<1>1. ASSUME ChainInv, NEW r \in Requests, InHandler(r)
      PROVE  MayHandle(r)
  <2> DEFINE c == call[r]
  <2>1. WayInv(r) /\ Fitting(c.route) /\ Len(c.todo) = 0
        BY <1>1, WayFields DEF InHandler, ChainInv, CallsInv, CallInv
  <2>2. CASE c.route.chain \in {Guarded, Limited, Permitted}
    <3>1. c.route.chain # AdminOnly
      <4>1. \A chain \in {Guarded, Limited, Permitted} : chain[Len(chain)] = "permission"
            BY ChainFacts
      <4>2. AdminOnly[Len(AdminOnly)] = "admin"
            BY ChainFacts
      <4> QED BY <2>2, <4>1, <4>2
    <3>2. Granted(c)
          BY <2>1, <2>2 DEF WayInv
    <3> QED BY <3>1, <3>2 DEF MayHandle, Granted
  <2>3. CASE c.route.chain = AdminOnly
        BY <2>1, <2>3 DEF WayInv, MayHandle
  <2>4. CASE c.route.chain \notin {Guarded, Limited, Permitted, AdminOnly}
        BY <2>1, <2>4 DEF Fitting, MayHandle
  <2> QED BY <2>2, <2>3, <2>4
<1>2. ChainInv => HandledWithPermission
      BY <1>1 DEF HandledWithPermission
<1> QED BY <1>2, ChainInvariance, PTL

\* A request that authentication, a block or a limit refuses takes no lock; a lock is
\* taken by one request, against its own user's duplicates, and holds them back
\* while Redis works and the lock is there (the order of @UseGuards, lockKey and
\* canActivate).  The permission is asked for after the lock was taken.
THEOREM LocksCorrect == ChainSpec => []LocksHold
<1>1. ChainInv => DuplicatesHeldBack
      BY HeldBack DEF ChainInv
<1>2. ChainInv => RefusalLeavesNoLock
      BY DEF ChainInv, CallsInv, CallInv, RefusalLeavesNoLock
<1>3. ASSUME ChainInv, NEW r \in Requests, call[r].at = "duplicate"
      PROVE  \E o \in Requests \ {r} :
                 call[o] # NoCall /\ call[o].user = call[r].user /\ On(o, call[r].k)
  <2>1. request[r].pc \in {"conflict", "repeated"} /\ call[r].k = request[r].k /\ call[r] # NoCall
        BY <1>3 DEF ChainInv, CallsInv, CallInv, At, NoCall
  <2>2. PICK o \in Requests \ {r} : Took(o, request[r].k)
        BY <2>1, <1>3 DEF ChainInv, TookInv
  <2>3. /\ call[o] # NoCall /\ call[o].k = call[r].k /\ On(o, call[r].k)
        /\ call[o].k # <<>> => call[o].k[1] = call[o].user
        /\ call[r].k # <<>> => call[r].k[1] = call[r].user
        BY <1>3, <2>1, <2>2 DEF ChainInv, CallsInv, CallInv, Took, On, At
  <2>4. call[r].k # <<>>
        BY <1>3, <2>1 DEF ChainInv, CallsInv, CallInv, At
  <2> QED BY <2>3, <2>4
<1>4. ASSUME ChainInv, NEW r \in Requests, NEW o \in Requests, r # o, InHandler(r), InHandler(o),
             call[r].route.kind = "once", call[o].route.kind = "once", call[r].k = call[o].k
      PROVE  call[r].k \in exposed
  <2>1. \A q \in {r, o} : Len(call[q].todo) = 0 /\ WayInv(q) /\ CallInv(q)
        BY <1>4 DEF InHandler, ChainInv, CallsInv, CallInv
  <2>2. \A q \in {r, o} : Runs(q, call[r].k) /\ call[r].k \in Keys
        BY <1>4, <2>1 DEF WayInv, CallInv, Runs, On, At
  <2>3. HeldOf(call[r].k)
        BY <1>4, <2>2 DEF ChainInv, Inv, HeldInv
  <2> QED BY <1>4, <2>2, <2>3 DEF HeldOf
<1>5. ChainInv => DuplicatesAreOnesOwn
      BY <1>3 DEF DuplicatesAreOnesOwn
<1>6. ChainInv => HandledOneAtATime
      BY <1>4 DEF HandledOneAtATime
<1>7. ChainInv => LocksHold
      BY <1>1, <1>2, <1>5, <1>6 DEF LocksHold
<1> QED BY <1>7, ChainInvariance, PTL

=============================================================================
