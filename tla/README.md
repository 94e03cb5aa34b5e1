# Verification of the Aduvanta backend

TLA+ models of the parts of this backend where the order of steps matters, the
TLC runs that check them on small instances, and theorems, checked by TLAPS,
that hold for every size. Paths are relative to `src/src/` of the repository
(so `modules/...` is `src/src/modules/...`) unless they start with `docs/`,
which is `src/docs/`.

Contents: [the system](#the-system), [the inventory](#inventory),
[the modules](#the-modules), [the runs](#the-runs-and-their-bounds),
[refinement](#refinement), [fairness](#fairness), [the proofs](#what-is-proved),
[disagreements found](#disagreements-found), [hazards](#hazards),
[not modelled](#not-modelled), [the plan](#plan), [running it](#running-it).

## The system

A NestJS monolith for Mexican customs brokers: one process per instance, any
number of instances, all on one PostgreSQL (through Drizzle), one Redis
(through ioredis), Stripe, S3, an exchange-rate service and a mail service.

A request passes, in this order, `AuthGuard`, `AbuseDetectionGuard`,
`RateLimitGuard`, `IdempotencyGuard`, `PermissionsGuard`, then the controller
and a service. The guards that use Redis let a request through when Redis fails.

Nearly every service operation has one shape:

1. read a row by id and organization;
2. decide, in JavaScript, on the status that was read;
3. write the row by id, unconditionally;
4. sometimes: read the children back and rewrite derived columns;
5. insert an audit row; if that fails the request fails, and nothing is undone.

There is no version column, no `SELECT ... FOR UPDATE` and, except in
`organizations.service.ts:39`, no transaction. So between any two of these
statements another request, on this or another instance, can run any of its
own; a statement can fail (`statement_timeout` is 30 s); and the process can die.
That is what is hard to test here, and what these models explore: **one action
is one awaited statement together with the decision taken on its result.**

There is no scheduler and no queue. The only background work is the 5-second
flush of the event buffer.

## Inventory

**M** modelled, **P** partly, **x** not modelled (with the reason
[below](#not-modelled)). `PROJECT.json` lists the same components with their
files, and under `hazards` the places where the hard behaviours bite.

| Component | State it keeps | Operations that change it | Hard behaviour | Correct when | |
|---|---|---|---|---|---|
| Treasury | account balances, movement statuses | create, confirm, reconcile, cancel a movement; create, delete an account | balance read, then written; two accounts per transfer; status written last | balances contain the confirmed movements once; final statuses stay | M `Treasury` |
| CUPO letters | letters with their quantities, usages | create, delete, change status; register, delete usage | usage inserted after the status was read | usages only of approved letters; remaining = authorized − used | M `CupoLetters` |
| Stripe billing | subscription rows, processed events; at Stripe: customers, sessions, subscriptions | five webhook handlers, checkout, portal, cancel, resume, assign plan; the subscription guard | duplicate, late and reordered events; handlers that swallow errors | the row follows Stripe; access follows payment; each event handled once | P `StripeBilling` |
| Invoices and payments | status, totals, items, payments | create, issue, cancel, delete; items; create, confirm, cancel payment | derived columns rewritten from separate reads | totals and status agree with the rows; issued invoices are frozen | M `Invoices` |
| Expense accounts | status, total, items | create, delete, change status, items | as invoices | total agrees; fixed once approved | M `ExpenseAccounts` |
| Customs entries | status, history, items, parties, documents | create, update, delete, change status, parts | status then history, in two statements | no stage skipped; history explains status; frozen once validated | M `CustomsEntries` |
| Rectifications, previos, inspections | one row each | create, submit, approve, reject, complete, cancel | sequence number; missing status checks | numbered in order; filed once; results stay | M `Examinations` |
| Organizations, memberships | organizations, memberships | create (transaction), add, change, remove member | the guard's read is old when the write happens; slug race | exactly one owner; only managers change members | M `Organizations` |
| Routes, guards, permissions | nothing of their own | – | memberships and locks change between two guards | a handler runs for those who may have it run | M `GuardChain` |
| Idempotency locks | Redis `idem:*` | acquire, answer a duplicate, expire | expiry under a running request; lock never released | one request at a time; one success per lock | P `Idempotency` |
| Rate limits, login lockout | Redis sorted sets | check, peek, reset | pipeline is not a transaction; peek before, count after | not more than the limit; no refusal under it | M `SlidingWindow`, `RateLimits`, `Lockout` |
| Abuse detection | Redis signals and block flags | record, unblock, expire | block written from an old score | a block is earned, and there when earned | M `AbuseDetection` |
| Event tracking | Redis list, `product_events` | track, trackMany, flush (timer, full buffer, shutdown) | overlapping flushes; batch in memory only | stored at most once; lost only by a failure or a trim | M `EventTracking` |
| Exchange rates | the copy in Redis | read, fetch, copy | no time limit on the fetch | the copy is recent and goes forward | M `ExchangeRates` |
| Webhook deliveries, integrations | deliveries with attempts | dispatch, retry, deactivate | racing retries; answer not written | attempts are counted | M / P `Deliveries` |
| Imports and exports | job rows, files | create (runs the job) | audit failure after COMPLETED; death while PROCESSING | status agrees with file and result | M `Jobs` |
| Client accounts | movements with running balance, funds, statements | record movement, generate statement | balance from an old sum | funds = sum of movements | M `ClientAccounts` |
| Documents | documents, versions, files in S3, categories | create, upload version, update, deactivate; categories | version number from an old row; the store overwrites | a version has its file; the document points to the last | M `Documents` |
| Document management | checklists and items, folders | item changes, recalculation; folders | recount from an old read; paths written once | progress agrees with items | M `Checklists` |
| Electronic documents | status with dates, items, transmissions | edits, status changes, transmit | edit after the status moved | frozen once sent; dates tell the status | M `EDocuments` |
| Customs valuation | status, items and costs | edits, status changes | edit after the status moved | frozen once declared; approved was submitted | M `Valuation` |
| Operations | status, history, assignee | create, update, assign, change status, deactivate | history after status; assignee leaves | history explains status | M `Operations` |
| Operation finance | charges, advances, account | CRUD; account computed when asked for | several reads make one answer | the account is of one moment | M `OperationFinance` |
| Operation compliance | rule sets, requirements, rules | CRUD; evaluation in five reads | rules and documents change between the reads | blocked when, and only when, something is missing | M `Compliance` |
| Warehouse | warehouses, zones, goods, movements | CRUD; complete, cancel movement | checks before writes | everything has its place | M `Warehouse` |
| Shipments | shipments, stages, links, comments | CRUD, complete stage, link | double completion | linked once; under way is not deleted | M `Shipments` |
| Clients | contacts with a primary mark; grants of the portal | contacts: CRUD; grant, revoke | clear the mark, then set it | one primary contact, as asked | P `Contacts`, `Portal` |
| Client portal | none | – | grants and documents change during a request | what is shown was granted and visible | M `Portal` |
| Feature flags, overrides, notification preferences | one row per subject | create, update, delete, upsert | looked for, then inserted; stale update | one row per subject, saying what was asked | M / P `Settings` |
| Blog | posts | create, update, delete | date from an old read | a date exactly when published | M `Blog` |
| System administration | `system_admins` | add, remove admin; set flag | admin removed while a request runs | see routes, settings | P `GuardChain`, `Settings` |
| The rest | single rows, catalogues or none | single-statement writes, reads, formatting | – | – | x |

How components interact: every service inserts into the audit log; every
organization route goes through the guards, which read memberships, the list of
system administrators and Redis; `SubscriptionStatusGuard`, which no controller
applies yet, reads the row the webhooks write; the portal reads documents and
operations; the compliance rules read documents and categories; the Redis guards
share one connection and one failure mode. Otherwise components meet only at the
database, in rows that each of them owns.

## The modules

Conventions, the same in every module:

- `request[r]` is the handler that request `r` is running: `Idle`, or a record
  with the program counter `pc` (the next statement) and what the handler holds
  in local variables, which is exactly what can be out of date.
- `Handlers` holds what the services share: `request`, `started`, `raced`, and
  `Start`, `Once`, `Goto`, `Finish`, `Stop`. The seven modules of the core
  have their own copies of these variables, with more in their handlers.
- `Begin...` is the first read with the guards and early returns on it; the
  following actions are the writes and further reads, in the code's order.
- `Abort(r)` (`HandlerFails` in StripeBilling) is a statement that fails or a
  process that dies: the handler stops where it is and nothing is undone.
- A row is a record, `Absent` before it is inserted and `Gone` once deleted; ids
  are UUIDs and are never used again.
- `started` counts the requests begun and `MaxStarted` bounds it.
- History variables, marked so at their declaration (`raced`, `torn`, `lost`,
  `disordered`, `exposed`, `been`, `managers`), are not in the program. They
  record what went wrong with a row, so that a property can say
  precisely *which* events may break it and that nothing else can. `raced`
  holds the rows that two requests were handling at the same time: the code has no
  protection there and the properties do not pretend it has. What remains is
  every interleaving on *different* rows that share state (two movements on one
  account), every sequence of requests, every failure between statements.
- A definition commented `Fault:` is a plausible bug of the definition after it.
  It is used by no action; replacing the definition by it must break a property.
- Audit rows are modelled in Treasury only. Elsewhere an audit failure is an
  `Abort` with all writes done, which changes nothing.

### Treasury

`modules/treasury/treasury.service.ts`. The interesting data is the balance, a
number that is only ever written as "what I read, plus or minus an amount". The
model keeps what the number is made of: `applied[a][<<m, side>>]` counts, with
its sign, how often that leg of movement `m` is in the balance of account `a`.
An amount applied twice is 2, one lost by an outdated write is 0; nothing is
hidden by amounts that happen to cancel out. `CreateBankAccount`,
`DeleteBankAccount` (refused by the foreign key while a movement refers to it)
and `CreateMovement` are one statement each. Confirm, reconcile and cancel
begin with `BeginConfirm`, `BeginReconcile`, `BeginCancel` and go on through
`ReadSource`, `WriteSource`, `ReadDest`, `WriteDest`, `WriteStatus` and
`WriteAudit`.

`BooksBalance` is the property the component exists for. `TrailAgrees` ties the
audit log to the status, `TerminalStatusKept` is an action property, and
`AloneLosesNothing` covers the case a test would forget, a transfer whose two
accounts are the same one.

### CupoLetters

`modules/cupo-letters/cupo-letters.service.ts`. A letter goes through its
statuses; usages are registered against an approved one, and then
`recalculateUsage` looks the letter up *in the organization with the empty
id*, finds nothing and returns: `Recalculate` models exactly that lookup, so the
run `cupo_remaining` finds what the service's tests cannot, because they mock it.
`UsedLettersWereApproved` holds although the usage is inserted after the status
was read.

### StripeBilling

`modules/stripe/*`, `modules/subscriptions/subscriptions.service.ts`,
`common/guards/subscription-status.guard.ts`. Stripe is outside `src/`: `remote`
and `customers` are its state, `CompleteCheckout` and `StripeChanges` are what
it does on its own, and every change is an event in `events`. It delivers an
undecided event any number of times, in any order, to any request
(`Deliver`). The controller claims the event by inserting its id, and each of
the five handlers is a chain of statements (`ReadOrg`, `Fetch`, `FindByOrg`,
`InsertSub`/`UpdateSub`, or `FindBySub`, `WriteSub`). An error inside a handler
is swallowed there: `HandlerFails` leaves the event claimed and lost.
Checkout, assignment, cancel and resume run beside the webhooks. Plans and prices
are left out, and with them `changePlan`, hence "partly". No controller applies
`SubscriptionStatusGuard` in this version, so `AccessFollowsPayment` is about the row
that the guard would be given.

### Invoices

`modules/billing/billing.service.ts`, up to line 572. As in Treasury a column
is what was added up: `total` is the set of items counted, `paid` the set of
payments, `due` both; `amount` says what each is worth. Nothing checks the amount of a payment, so
it may be zero or negative. `ReadItems`/`WriteTotals` and
`ReadInvoice`/`ReadPayments`/`WritePaid` are the two recalculations. `NewStatus` compares as the code does, with sums of doubles
that are not rounded: `Hairs` says which sums can come out a hair below or above
what they are worth (of several amounts, unless they cancel out), and `WritePaid`
takes any of these outcomes, since which one it is depends on decimals that are left out. `torn`
records a recalculation that is still owed because a handler died before it;
the next one by any handler settles the debt, and the properties demand that it does.

### Idempotency

`common/idempotency/idempotency.guard.ts`, with Redis keys and their expiry. The
interceptor that would release a lock is provided by the module and applied to no
route, so it is not in the model: a lock stays until it expires.
A key names a user, never a route: the same header sent to two routes is one lock.
`GuardChain` puts the guard in its place among the others.

### CustomsEntries

`modules/customs-entries/customs-entries.service.ts`. `Transitions` is the table of
the code. `Parts` are items, parties and documents, which differ in what may
still be added or removed in which status (a party or document is removed by id,
in any status). `been[e]` collects the statuses a row has had, and
`NoStageSkipped` says that an entry with a stage behind it has had all the earlier ones.
It is the one property here that needs no exception: it survives every race,
because the stages a stale read allows were stages the entry had been at.

### Organizations

`modules/organizations`, `modules/memberships`, `common/guards/permissions.guard.ts`.
`FindSlug`, `FindCandidate` and `Create` are the search for a free slug and the
transaction that inserts organization and owner together, where the unique key
decides. A change of a member is `BeginChange`, `Guard` (reads the actor's
membership), `Find` (reads the target's) and `Write`, with anything in between.
`OneOwner` holds through all races; `ChangedByManagers` states what the old
read of the guard still guarantees.

### The services: one module each over `Handlers`

Sixteen small modules have the same frame and differ in what can go wrong.
`MCServices` makes one of them, or `CupoLetters`, active in a behaviour: they share no rows, so
their product would show nothing more. `MCBooks` does the same with `Invoices` and `Organizations`.

- `ExpenseAccounts` (`billing.service.ts:573-871`), `ClientAccounts`,
  `Checklists`, `OperationFinance`: a column or an answer made of other rows, in
  statements of its own. The history variables `owed` and `raced` name the rows
  whose recalculation was never reached or met another.
  `OperationFinance` compares its sums before they are rounded, as `Invoices` does, so an
  operation whose advances are exactly its charges may be called PARTIALLY_PAID when one of the two is a sum.
- `Documents`: the file goes to the store, then the version's row, then the
  pointer. The key is made of the version number and the file's name, so a handler that
  stops before the pointer makes the next version take the same number and,
  with the same name, overwrite the file. `FilesKept` says exactly that.
- `Jobs`: imports and exports with their try block, and what runs the catch
  block. `Deliveries`: the call to the receiver between a read and a write.
- `EDocuments`, `Valuation`, `Examinations`, `Operations`, `Warehouse`,
  `Shipments`: status machines behind a read that can be old, with
  their timestamps, histories, numbers, foreign keys and cascades.
- `Contacts`: the mark of the primary contact taken from all, then given to one.
  `Settings`: flags, overrides and preferences, looked for and then inserted, with
  and without a unique key. `Blog`: a date computed from an old read.

### What stands before the services

- `GuardChain` has `ROLE_PERMISSIONS` as `permission.map.ts` writes it and every controller as the
  set of its routes: the chain of guards, the permission, `@Idempotent`. It EXTENDS
  `Idempotency`: a request passes the guards of its route one awaited step after the other,
  while memberships, administrators and locks change. `RefusalLeavesNoLock` is a property no guard has alone.
- `SlidingWindow` is `rate-limit.service.ts` command by command; `RateLimits`
  (guard and address middleware) and `Lockout` (`main.ts`) extend it.
- `AbuseDetection` is the score, the flag, its expiry and the manual unblock.
- `Portal`: a download finds the document first and the grants of the user
  next, a list the other way round. `open[r]` collects what held during a request;
  `ShownToGranted` says that what is shown was granted and visible at some moment of it.
- `Compliance`: an evaluation reads five tables while the rules, the categories and the documents change.
  `MissingBlocks` and `BlockedForReason` are its two directions. Of the active documents it reads a
  thousand, in no order (`DocumentLimit`); `spare` counts those that add no category. With more of them than
  the limit a transition may be shown blocked for a document that is there, which `BlockedForReason` excepts
  (`cut`), but never open for one that is not.

### What is kept in Redis beside that

- `EventTracking`: the list, `track` with its trim on an old length, overlapping
  flushes that pop one event after the other, and the insert that skips what is
  there. Copies of an event are told apart by the number of their push.
- `AtMostOnce` is the promise it implements ([refinement](#refinement)).
- `ExchangeRates`: requests that miss overlap, fetch for as long as it takes, and write the copy.

## The runs and their bounds

Runs that check many small modules have one of them active in a behaviour and
group their properties by the kind of promise; each part is stated and commented in
the module of its component. `PROJECT.json` lists several mutants for a grouped
property, one for nearly every part.

| Run | Checks | Instance | States |
|---|---|---|---|
| `treasury` | TypeOK, BooksBalance, TrailAgrees, TerminalStatusKept | 2 accounts, 2 movements, 2 requests, all 4 types, 3 started | 2.4 M |
| `cupo_remaining` | RemainingTracksUsages, **violated** | one request, nothing fails | |
| `stripe_races` | MirrorsStripe, AccessFollowsPayment, PortalShowsSubscription, HandledOnce | 1 organization, 2 subscriptions, 2 requests, 3 events, 3 started | 662 k |
| `stripe_released` | FailedEventsAreReleased, **violated** | 1 subscription, 1 event | |
| `idempotency_released` | FailureReleasesLock, **violated** | 1 key, 2 requests, Redis never fails | |
| `customs_entries` | TypeOK, NoStageSkipped, HistoryTells, FrozenOnceValidated, FinishedIsFinal | 2 entries, 1 part, 2 contents, 2 requests, 6 started | 1.3 M |
| `books` | TypesOK, AmountsAgree, StatusAgrees, ClosedStays, OneOwner, ChangedByManagers | Invoices: 1 invoice, 2 items of a cent, 2 payments of −1, 0 or 1 cents, 6 started. Organizations: 2 organizations, 3 users (1 system admin), 2 slugs, 5 started. 2 requests | 1.4 M |
| `limits` | AloneLosesNothing, LimitsHold | Treasury: 1 request, 1 movement, 2 accounts, 5 started. RateLimits: limits of 1, window 2, 2 ticks, 3 started. Lockout: threshold 2, window 2, 3 ticks, 4 started. ExchangeRates: time to live 2, 4 ticks, 2 rates after the first, 3 reads | 2.8 M |
| `services` | TypesOK, StatusesTell, RowsFollowOn, DerivedAgree, NothingDangles, DoneOnce, DecidedStays, SummariesTell | 2 rows, 1 part, 2 contents, 2 requests, 5 started; 3 entries for OperationFinance; 3 started for ClientAccounts, 4 for Documents and Operations, 6 for Warehouse, 7 for ExpenseAccounts and CupoLetters (1 letter, 2 usages, quantities 1–2) | 937 k |
| `surface` | TypesOK, HandledWithPermission, LocksHold, PermissionsHold, BlocksHold | GuardChain: 2 users, 2 requests, 1 client key, 1 path, 1 change of a role or an administrator, a route of each way through the guards. AbuseDetection: window 2, 3 signals, 3 ticks. Portal: 2 users, 2 clients, 1 document, 2 grants, 5 started. Compliance: 1 rule set, 2 categories, a limit of 2 documents instead of 1000, 1 spare | 792 k |
| `outside` | TakenOnce, StoresAtMostOnce, OldestLostFirstKept, EverythingSettles | Idempotency: 2 keys, 3 requests. StripeBilling: 1 subscription, 2 requests, 4 events, 2 started. EventTracking: 2 events, 4 pushes, 1 tracker, 2 flushes, batch and limit of 2 | 139 k |

The grouped properties are:

- `StatusesTell`: EDocuments `StampsTell`, Valuation `ApprovedWasSubmitted`, Operations
  `ClosedTells`, Jobs `SummaryTells` and `LeftOnlyByStop`, Warehouse `NoMovementCompletes`, Blog `PublishedHasDate`, CupoLetters `UsedLettersWereApproved`.
- `RowsFollowOn`: Operations `HistoryLeads`, ClientAccounts `BalancesLead`, Examinations `NumberedInOrder`, Documents `VersionsNumbered`.
- `DerivedAgree`: ClientAccounts `FundsFollow`, ExpenseAccounts `TotalIsOfItems`, Checklists `ProgressTells`,
  Deliveries `AttemptsCounted` and `NeverOvercounted`, Settings `SaysWhatWasAsked`.
- `NothingDangles`: Warehouse `EverythingHasItsPlace`, Operations `AssignedToMembers`, Documents `FilesKept` and
  `CategoryInUseStays`, Jobs `FileTells`, Checklists `PathBelowParent`.
- `DoneOnce`: Examinations `FiledOnce`, Shipments `StageCompletedOnce` and `LinkedOnce`, Documents `CodesDiffer`,
  Contacts `PrimaryIsChosen`, Settings `OneRowEach` and `GlobalFlagsPile`.
- `DecidedStays`: EDocuments `FrozenOnceSent`, Valuation `FrozenOnceDeclared`, ExpenseAccounts `ApprovedIsFixed`,
  Examinations `ResultsStay`, Shipments `UnderWayStays` (action properties).
- `SummariesTell`: OperationFinance `AccountOfOneMoment`, ClientAccounts `StatementCountsTwice` (action properties).
- `PermissionsHold`: GuardChain `RolesFitRoutes`, Portal `ShownToGranted`.
- `LocksHold`: Idempotency `DuplicatesHeldBack` (`OneAtATime`, `OncePerWindow`), GuardChain
  `RefusalLeavesNoLock`, `DuplicatesAreOnesOwn`, `HandledOneAtATime`.
- `BlocksHold`: AbuseDetection `BlockIsEarned` and `ThresholdBlocks`, Compliance `MissingBlocks` and `BlockedForReason`.
- `LimitsHold`: RateLimits `LimitHolds`, `ExcessIsOverlap` and `RefusedAtLimit`, Lockout `LockoutHolds` and
  `ExtraFailuresAreConcurrent`, ExchangeRates `CopyIsRecent` and `CopyGoesForward`.
- `OldestLostFirstKept`: EventTracking `TrimsToLimit`,
  `FirstCopyStays`. `EverythingSettles`: Idempotency `KeyComesFree`, StripeBilling `EventsSettle`, EventTracking `EventsArrive`.
- `ClosedStays` of `books`: `FrozenAfterDraft`, `CancelledIsFinal`.

Why these bounds are enough to be worth something:

- **Two requests** are what a lost update, a stale check and a write in the wrong order
  need; a third request that starts later is in the model, since a request slot is
  used again. In `outside` Idempotency has three, because there a third request must find the
  lock of the second.
- **Two accounts and two movements** give the shared account, the transfer, the
  transfer to itself and the crossing transfers. One invoice or letter is enough
  where the code never relates two of them; two items or payments make a sum that can be
  partly right. Customs entries have two because a part can be removed through another entry.
- **Payments of a cent, of nothing and of less** give an invoice that is paid exactly, by one amount and by a
  sum, one that is overpaid, one whose confirmed payments are worth nothing, and a draft whose balance an added item
  resets although something was confirmed. A limit of two documents with two categories and one spare is exceeded by one.
- **Two rows of what the services handle** are a sum, a history or a number that
  can be partly right, and one row another handler refers to.
- **Windows of two ticks** have an entry that has just left them, one that is
  about to, and one in the same tick; limits of one and a threshold of two are reached and
  exceeded. Two lockouts reach the abuse threshold exactly, a lockout and two bursts pass it, and
  a lockout and a burst stay below.
- **Two copies in the buffer**, batches of two and a limit of two with four pushes overflow the
  list, fill a batch exactly and leave one over; a copy is pushed twice.
- **Started requests** bound the length of a history: 3 let a movement be confirmed,
  cancelled while another is being confirmed; 6 take an invoice through an item, two payments that are
  confirmed, and another item; 6 take an entry through five
  stages; 5 take an electronic document to its answer. Where a bound matters for a
  theorem's property the theorem drops it.
- Each bound lets every property fail if the code did: each property is paired with a fault
  of the code (`PROJECT.json`, `mutants`) that TLC finds under the very same configuration.

Symmetry is used for ids that the code treats alike (requests, accounts,
movements, items, payments, rows, users other than the system admin), never in runs
that check liveness. Deadlock checking is off, because a run
ends when its last request does: with nothing left to start the model stops, and so
may the system.

## Refinement

`EventTracking` implements `AtMostOnce`: an item is *outside*, *pending* or
*stored*; giving, storing and losing move any set of items in one step, and a stored item
stays. The mapping is `place[e]`: stored if the row exists, pending
if a copy waits in the list or in a batch, outside otherwise. The run `outside`
checks it as the property `StoresAtMostOnce`: every step of track, trackMany, trim, pop and
insert, and every failure, is a step of the abstract writer or none. Fairness of
the flushes gives `EventsArrive`, the abstract `Settles`.

The interest of it is in the copies: an event sent twice is pending until the *last* of its
copies is decided, a flush that inserts one copy makes the other's insert a stutter,
and losing one copy of two is no loss.

## Fairness

Three specifications have any, `FairSpec` in each case; `outside` checks them.

- StripeBilling: weak fairness of delivering each undecided event, since Stripe
  retries a delivery that was not answered 2xx for days (three in live mode), and weak fairness of
  the next step of each running handler: an awaited statement answers or
  times out (`statement_timeout`, `commandTimeout`), and Node then resumes the handler. Failures are
  *not* unfair: a handler may fail every time, and `EventsSettle` then ends in
  "lost", which is what the code does.
- Idempotency: weak fairness of `Expire`. Every lock is set with `EX`, and Redis
  expires it whatever the program does. No request is assumed to finish.
- EventTracking: weak fairness of beginning a flush, which a timer does every five
  seconds on every instance; of inserting a popped batch, an awaited statement; and strong
  fairness of popping, because Redis may fail a pop any number of times but not
  every time. A batch may be lost every time.

## What is proved

All with TLAPS, for every set of ids, every number of requests and every value of
`MaxStarted`, from the named assumptions on the constants at the head of each module:
counts are natural numbers, no account is `NoAccount`, no organization has the empty id
(`OrgsAssumption`), keys with a client's header are keys, system admins are users, there
are finitely many items, payments and rows (`RowsAssumption`,
`FiniteAssumption`: they are counted or added up; a table is finite), no row or content is the `None` that
stands for a missing one, amounts and dates are integers, which may be negative for movements of clients, for payments and for items (`NumbersAssumption`, `AmountsAssumption`), a batch
holds at least one event, no subscription has the id that stands for none (`SubsAssumption`),
routes served are routes of the controllers (`ServedAssumption`), the names of locks are keys (`KeysAssumption`).

| Module | Theorem | Property |
|---|---|---|
| `BooksProofs` | `TypeCorrect` | `Spec => []TypeOK` |
| | `LedgerCorrect` | `Spec => []BooksBalance` |
| | `TerminalKept` | `Spec => TerminalStatusKept` |
| | `TrailCorrect` | `Spec => []TrailAgrees` |
| | `AloneCorrect` | `Spec => []AloneLosesNothing` |
| | `TypesCorrect` | `BooksSpec => []TypesOK` |
| | `AmountsCorrect` | `BooksSpec => []AmountsAgree` |
| | `StatusCorrect` | `BooksSpec => []StatusAgrees` |
| | `ClosedCorrect` | `BooksSpec => ClosedStays` |
| | `OwnerCorrect` | `BooksSpec => []OneOwner` |
| | `ManagersCorrect` | `BooksSpec => ChangedByManagers` |
| `ServicesProofs` | `TypesCorrect` | `Spec => []TypesOK` of `MCServices`, all seventeen modules |
| | `StatusesCorrect` | `Spec => []StatusesTell` |
| | `FollowsCorrect` | `Spec => []RowsFollowOn` |
| | `DerivedCorrect` | `Spec => []DerivedAgree` |
| | `ReferencesCorrect` | `Spec => []NothingDangles` |
| | `OnceCorrect` | `Spec => []DoneOnce` |
| | `DecidedCorrect` | `Spec => DecidedStays` |
| | `SummariesCorrect` | `Spec => SummariesTell` |
| `CustomsEntriesProofs` | `TypeCorrect` | `Spec => []TypeOK` |
| | `StagesCorrect` | `Spec => []NoStageSkipped` |
| | `FinishedKept` | `Spec => FinishedIsFinal` |
| | `HistoryCorrect` | `Spec => []HistoryTells` |
| | `FrozenKept` | `Spec => FrozenOnceValidated` |
| `EventTrackingProofs` | `TypeCorrect` | `Spec => []TypeOK` |
| | `TakenOnceCorrect` | `Spec => []TakenOnce` |
| | `OldestLostFirstKeptCorrect` | `Spec => OldestLostFirstKept` |
| | `StoresAtMostOnceCorrect` | `Spec => StoresAtMostOnce`, the refinement of `AtMostOnce` |
| `GuardChainProofs` | `HeldBackCorrect` | `Spec => []DuplicatesHeldBack` (Idempotency) |
| | `LocksCorrect` | `ChainSpec => []LocksHold` |
| | `PermissionCorrect` | `ChainSpec => []HandledWithPermission` |
| | `ChainImplementsLocks` | `ChainSpec => Spec` of Idempotency |
| | `ChainTypeCorrect` | `ChainSpec => []ChainTypeOK` |
| `StripeBillingProofs` | `TypeCorrect` | `Spec => []TypeOK` |
| | `HandledOnceCorrect` | `Spec => HandledOnce` |
| | `PortalCorrect` | `Spec => []PortalShowsSubscription` |
| | `MirrorsCorrect` | `Spec => []MirrorsStripe` |
| | `AccessCorrect` | `Spec => []AccessFollowsPayment` |

Each proof follows one line: an inductive invariant `Inv`, the lemma that it
holds initially, one lemma per action, or per group of actions that disturb the same parts,
that it is kept, and a temporal step. Invariants about one row are operators of it
(`InvoiceInv(i)`, `ApprovedOf(l)`, `HistoryOf(e)`, `HeldOf(k)`), and a lemma `Frame` says that a step
which leaves the row and its handlers alone keeps them.

The proofs about the services are in three modules, the last of which extends the other two: `FilesProofs`
(Documents, Checklists, Warehouse, Blog, Jobs), `LedgersProofs` (sums over finite sets, then
OperationFinance, ClientAccounts, ExpenseAccounts, Deliveries, Settings, Contacts, CupoLetters) and
`ServicesProofs` (EDocuments, Valuation, Operations, Examinations, Shipments, and the theorems).
The names of a module's lemmas and of the parts of its invariant begin with the name of its instance (`CA`, `DO`).

**Treasury.** `BooksBalance` speaks of moments when no request handles the movement,
so it says nothing about the middle of a handler and is not inductive.
`LedgerInv` says what the ledger contains at *every* point: for a movement being handled, what is
applied is what the status books, plus what the handler's position says it has
written already. `AloneInv` says that a movement outside `raced` has at most one handler, whose
copy of the status is still the row's. `HandlerInv` ties the operation, the
status it started from and the step it is at (only a confirmed movement's
cancellation touches accounts), and `RowsInv` that handlers work on movements
that exist. A balance written over one that was not read puts its account in
`lost`, and there the ledger claims nothing.
`TrailAgrees` needs one thing more (`TrailInv`): a handler about to insert its audit row
has already made the status say what the row will. `AloneLosesNothing` needs `ReadsInv`: when
requests come one at a time, the balance a handler holds is the account's; the transfer to itself is
safe because the second balance is read after the first was written.

**Invoices.** The properties speak of invoices at rest; `Inv` speaks of all of them, and
splits an invoice outside `raced` in four. `AloneInv`: it has one handler. `ReadInv`: what that handler read
still holds, status, items, payments and amounts. `ColumnsInv`: its columns agree *among
themselves* whatever was lost, balance with total and paid, status with both. `CountedInv`: each
amount counts the rows, except between the change of a row and the recalculation, and
except when a handler died there (`torn`). `ColumnsInv` is what the properties do not say and the proof needs:
`updateInvoicePaymentStatus` recomputes paid from the rows but takes the total as it finds it.
An item added resets the balance to the total. That breaks only the invoice whose payments are worth something, and `IVRowAgrees` says
that a draft has none such: a status that `NewStatus` wrote tells what the payments are
worth against the total it saw (`IVStatusTells`), for amounts of any sign and each error a sum may have, so a draft
that stayed one was paid nothing or less. `IVWorth` (a finite sum of integers is one) rests on the lemmas about
sums that `LedgersProofs` has too.

**CustomsEntries.** `NoStageSkipped` is not inductive because a handler carries a
status it read a while ago. `StageInv` adds what makes it so: the status of a row, and the
status held by each handler in `Requests`, is in `been` of that entry, and the new
status a handler is about to write is an allowed successor of one there.
`FinishedIsFinal` needs `AloneInv`: outside `raced`, a handler about to write
holds the status the row has. `HistoryTells` is about moments between requests. `HistoryOf` fills them in: while the handler
that wrote the status has not inserted its row, the history is a path to the status *before*,
and that handler holds both ends of the missing edge. `FrozenOnceValidated` has to exclude that a
handler of *another* entry removes an item: `OwnItemInv` says that the item a handler is about to
remove is of its own entry, `EditsInv` that the only handler of an entry adds and removes only what its
status allows.

**Organizations.** `OwnerInv` says that the creator is the only owner; `TargetInv` that
a handler past `Find` is not about to write the creator's row: the target it
read was not an owner, and only the creator ever is. `ManagersInv` says that
whoever has a managing role now is in `managers`, and that the actor of a
handler past the guard is in `managers` or a system admin. So for
`OneOwner` the stale read is harmless, since no request can make an owner.

**EventTracking.** `TakenOnce` is a partition of the copies; inductive it becomes with numbers:
`BufferInv` says that the list is always the newest copies without a gap, `TakenInv` that
the others, 1 to `Taken`, are each in one batch, settled or lost, `RoomInv` that a flush that still
pops has room. From the first follows that a trim, though it acts on an old length, loses only
copies older than all it leaves. The refinement maps every step: a push gives what was
outside, an insert stores what is pending and skips what is stored, a failure or a trim
loses an event only with its *last* copy, and reads, pops and pushes of a copy of what is pending or stored are stutters.

**Services.** Each of the seventeen modules has an invariant of its own (`EDInv` to `CUInv`), with a lemma
that it holds at first and one that every step of the module keeps it. `ServicesInv` says that the invariant of the active
module holds: by `OwnSteps` a step is one of that module or a stutter, by `OthersRest` the rows of the others stay.
What the invariants have in common is a part `...Alone`: a row
outside `raced` has at most one handler. With it, what that handler read is still so, and each further part says
what this gives between two statements:

- ClientAccounts: the balance read (`CARead`) is the balance of the last row until the new row is inserted, and the funds
  are that balance except while the handler still owes the update (`CAFunded`). Credits, debits and the net are sums over places of a
  sequence; that credits less debits is the net is proved for any dates, and so is that a page which is
  not full holds the whole period (`CAPageHolds`, from a place with the least number). `StatementCountsTwice` follows for a statement of any period.
- OperationFinance: whichever of the two sums the handler holds is that of the rows now, and a change of one
  row changes its own sum by the difference (`OFChange`). With the sum the handler holds whether it may err (`hairs`), so
  the status it writes is one that the rows of that moment allow.
- ExpenseAccounts, Checklists: the total, or the progress, is that of the rows unless the handler is between
  row and total; `CHItemsKept` and `CHOthers` say that another list's rows do not matter. `CHPath` and
  `CHFoldersMove` carry the paths below the parents through inserts, renames and deletions.
- Documents: `DOVersions` numbers what was inserted, and relates the pointer, the files stored and the number that the handler
  took; `DOFree` keeps a code free between the look and the insert.
- Operations, Examinations, Shipments: `OPLed`, `OPUnderWay` say where the history leads while a handler has written
  the status and not yet its row; `EXNumbers` that the number taken is the next one; `SHCounted`
  that a stage was completed once when it says so, and else never.
- EDocuments, Valuation: the status a handler is about to write has its predecessor in the stamps, or in `been`
  (`EDWay`, `VAWay`), which hold whatever was raced because both only grow.
- Warehouse: `WHCancels` says that the only status a handler is about to write to a movement is CANCELLED.
- Jobs: a handler works on a job that is being processed and counts what it inserted (`JOWorks`). Contacts: while the mark is taken
  from all nobody has it, and else the chosen one alone (`CNMarks`). Settings: what the look found
  is there, so at most one row of each kind is inserted (`SEOne`).
- CupoLetters: a usage is inserted on an approval read earlier. `CUApprovedOf` says why that is safe: outside
  `raced` one status change is under way and starts from the status the letter *has*, and
  no transition leads from an approval back; so the approval a handler read
  still stands when it inserts.

`LedgersProofs` begins with what these sums need: `SumRemove` (a sum is one summand and the sum of the others,
whichever is taken first), `SumType`, `SumCongruence`. The fold of the library picks its elements by `CHOOSE`, so the
function it computes by is shown to exist by a set of natural numbers closed under successors (`Counting`, `AdderExists`), since
the induction theorems of the library cannot be instantiated.

**Idempotency.** `HeldOf` says of a key that is not exposed: a free lock has nobody behind it, one
request runs, nobody has succeeded while one runs, and one succeeds. So the lock that
`Inspect` finds is never free, and the branch that lets a request without a key through is never taken.

**GuardChain.** Every step of a request is a step of Idempotency or leaves the locks alone
(`ChainImplementsLocks`), so what is proved of the locks carries over, and with it `TookInv`: a lock is taken by some request,
and who is refused as a duplicate is not the one who took it. `WayInv` ties a request to the part of its chain that is
left: no lock before the guard for it, the lock or none needed behind it, and nobody
behind the last guard who was not granted. It is stated by the length of what is left, and `Position` says
which guard stands there. `RoutesFit` is about the source alone, checked controller by controller: an
`@Idempotent` route has the chain with the guard for it, and who requires a permission has a guard that asks for it.
So `PermissionCorrect` is about every route, where the run serves one of each kind.

**StripeBilling.** What holds of every organization comes first. `EventsInv`: the marker is there
exactly for the events that were handed out, and an undecided one has one handler, of its type.
`LinksInv`: events, rows and handlers name subscriptions Stripe has, of their organization, and a
session is opened by one request. `CustomerInv`: unless two checkouts looked for a customer at once,
the sessions and subscriptions of an organization are all its customer's. `HandledOnce` and
`PortalShowsSubscription` follow.
`MirrorsStripe` and `AccessFollowsPayment` speak of an organization outside `disordered` when nothing
of it is under way. `InOrder` says what being in order gives at every point: an event is handed out only after
all before it took effect, and one request works on the row. `ToldInv` is about Stripe: the latest event of a
subscription tells it as it is now. `HeldInv` is the link between the two: the handler of that latest event holds,
once it fetched, the state Stripe has (a checkout's handler asks Stripe, so it can be ahead of its own event), and the row it is about to write is of that subscription. `RowInv`: a row whose
latest event took effect shows it, and has a grace period when the last event that did tells of a payment that is due.
`DueInv` is needed for the last part: the update to `past_due` gives no grace period by itself, and always
directly follows an event that did. `Kinds` sorts the steps by what they do to events (record, deliver,
decide, continue, none), so that each invariant is shown for five kinds instead of twenty actions.

Only model-checked: what `surface` (`TypesOK`, `PermissionsHold`, `BlocksHold`) and `limits` (`LimitsHold`) group. These are
the scores, windows and clocks, and the answers made of several reads; `RolesFitRoutes` has no
parameters, so TLC decides it. Out of the prover's reach:
the liveness properties `EventsSettle`, `KeyComesFree` and `EventsArrive`, because they rest on fairness and ENABLED.

## Disagreements found

Three runs expect a violation, each of something the repository itself says.

1. `cupo_remaining`: `recalculateUsage` (`cupo-letters.service.ts:335`) never
   finds its letter, so no usage ever consumes quota; the tests that say otherwise mock the lookup.
2. `stripe_released`: the controller's comment and `docs/security-audit.md` say
   a failed event is released for Stripe to retry; the handlers swallow
   their errors, so it is answered 200 and stays claimed.
3. `idempotency_released`: the interceptor documents that an error releases the
   lock; it is applied nowhere.

Met while modelling, and modelled as the code does it:

- Nothing sets a warehouse movement IN_PROCESS, so `completeMovement` never succeeds
  (`NoMovementCompletes`).
- The opening balance of a client's statement contains the period, which is then
  added again (`StatementCountsTwice`).
- A confirmed payment of nothing or less leaves a draft a draft, and the next item resets its
  balance to the total, as if nothing had been confirmed (`billing.service.ts:371-378`, `553-562`).
- Amounts are kept as numeric strings "to avoid floating-point precision issues"
  (`operation-charges.schema.ts:25`) and then added as doubles and compared unrounded: charges of `0.10` and `0.20` with an
  advance of `0.30` leave an operation PARTIALLY_PAID with a balance of `0.0000`, and an invoice of `0.80` paid with
  `0.70` and `0.10` stays PARTIALLY_PAID.
- An evaluation of the compliance rules reads at most 1000 documents, in no order; with more it can block a
  transition for a document that is there.
- A flag of the whole platform has no organization, and the unique key compares no
  nulls: `setFeatureFlag` inserts another row each time (`GlobalFlagsPile`).
- Removing a document category removes the requirements of active rule sets with it;
  only documents are looked for before.
- Rectifications are said to come after the entry was released (schema comment);
  no handler looks at the entry's status.
- `AbuseSignalInterceptor` says it records 403 and 429 answers; guards run before interceptors,
  so what a guard throws is never recorded.
- Requests are limited by plan according to the guard's comment; nothing sets the plan on the
  request, so the plan is always `free`. `@RateLimit` on controllers without the guard does nothing.
- Eighteen permissions that routes require are granted to no role (among them `billing.manage`
  and those of client accounts, inspections, previos, rectifications, IMMEX and the importer registry), so
  only system administrators get through; the `portal.*` ones are granted to CLIENT, a role no code assigns.
- `emit()` of the webhook deliveries has no caller.
- A slow fetch of an exchange rate overwrites a newer copy; there is no limit on how long it takes.
- The portal shows operations of a client that was deactivated.
- IMMEX products and sectors of importers are removed by id alone, whatever the program or registry in the path.

Besides, the exceptions in the properties (`raced`, `torn`, `owed`, `lost`) are a
list of what the code does not protect against: two requests on one row, and a
process that dies between two writes.

## Hazards

`PROJECT.json` lists forty, each with the properties it is about. Some properties hold through the hazard and
so would catch it going wrong: duplicate deliveries (`HandledOnce`), overlapping flushes (`TakenOnce`), stale roles (`OneOwner`,
`ChangedByManagers`, `HandledWithPermission`), overshooting limits (`LimitsHold`), usages of letters (`StatusesTell`),
amounts of any sign (`AmountsAgree`, `StatusAgrees`). Where the code has no protection, the property
excepts the states the hazard leads to, by a history variable (`raced`, `torn`, `lost`, `disordered`, `owed`, `exposed`,
`stopped`, `broken`, `crossed`): it does not say that the hazard does no harm, but that the harm needs this cause and
that nothing else does any. So the lost update of two confirmations (`treasury.service.ts:242`), a status
written over a final one, events out of order, or two handlers with one version number are described by the exceptions, not
refuted by the runs. Further ones:

- covered by a property of the same run: contacts, where the mark is taken from all and the handler
  stops (`PrimaryIsChosen`); access revoked during a request of the portal (`ShownToGranted`);
  rules and documents changed during an evaluation (`MissingBlocks`); goods and zones behind foreign
  keys (`EverythingHasItsPlace`); an export FAILED although its file can be downloaded (`FileTells`);
  a folder path that outlives a rename of its parent (`PathBelowParent`); two abuse signals of one
  millisecond that count once (`ThresholdBlocks`);
- covered by none: an amount that is no number (`abc` is refused by the database, `NaN` is not); a
  DRAFT or rejected rectification is approved and an approved one rejected, since no handler asks for the status
  (`customs-rectifications.service.ts:131`; `FiledOnce` does not see it, because the code promises nothing about it); `trackMany` never trims the buffer; nothing resolves a PENDING
  transmission of an electronic document or a PENDING delivery but a retry.

## Not modelled

- Authentication is Better Auth, a library. Encryption of secrets is AES-GCM in Node: arithmetic.
- Usage and plan limits: the guard and its decorator are applied to no route.
- Product analytics, analytics, AI, audit-log queries, the platform-wide queries of system
  administration: reads without effect. The execution of a report is a stub.
- Catalogues (tariff, Anexo 22, SAAI errors), unit conversion, the SAAI file: reference data, arithmetic and formatting.
- IMMEX programs, importer registry, users, notifications, addresses of clients, the fields of clients, templates of documents,
  comments of operations: single-row writes behind one check, with no second row to disagree with.
  (Addresses have the primary mark of contacts, in the same statements.)
- Storage and mail: thin clients. Bootstrap, configuration, health: wiring; time limits and
  fail-open choices appear as failures in the modules.

Left out everywhere:

- Amounts, rates and dates as numbers, where a property does not need them. Where it does, amounts are small enough
  for a double to tell one from the next (below 10^11 with four decimals, 10^13 with two).
- The zones a warehouse movement goes from and to (`warehouse-movements.schema.ts:43-44`): no key ties them to
  a zone, and nothing stops them from naming one that was deleted.
- Descriptive columns, list and search operations, validation of DTOs. Audit rows outside Treasury.
- PostgreSQL runs each statement alone (`READ COMMITTED`, one statement per
  handler step); its own anomalies within a statement are not modelled. A unique or foreign
  key is a condition of the writing action.
- Time, except in the windows of limits, abuse and rates, which count ticks. Other expiries, grace
  periods and retries are actions that may happen at any point allowed by the code.
- Stripe: plans, prices and intervals, and with them `changePlan`.

## Plan

1. Done: every component whose rows can disagree is a module; seven of them the core, with
   runs of their own; the rest grouped in `services`, `surface`, `limits` and `outside`; one refinement.
2. Done: every safety property of the runs of the core, of `services`, and of `outside`, is a theorem. Proofs still worth
   having: the scores and blocks of `surface` and the window of `limits`.
3. An atomic ledger that Treasury implements for movements no two requests met on.

## Running it

    tlc -workers 2 -config Treasury.cfg Treasury
    tlc -workers 2 -config StripeBilling.cfg StripeBilling
    tlapm BooksProofs.tla

`PROJECT.json` names the module and configuration of every run, maps every definition
to the lines it translates, and lists mutants, hazards, findings and theorems.
