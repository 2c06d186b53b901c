# Formal models of the SaaS toolkit's control plane

TLA+ specifications, TLC model checks and TLAPS proofs for the stateful core of `darkinno-tech/saas`, a Go
toolkit for shared-schema multi-tenant products. The modules are translated from the source (`src/`); the
correspondence of every definition to its lines is the `map` of `PROJECT.json`, the hazards the properties
are aimed at are its `hazards`.

Contents: [1 Inventory](#1-inventory), [2 Plan](#2-plan), [3 Modules](#3-modules-and-code),
[4 Runs](#4-runs), [5 Bounds](#5-bounds), [6 Fairness](#6-fairness), [7 Proofs](#7-proofs),
[8 Limits](#8-only-model-checked-and-not-modelled).

## 1 Inventory

The toolkit is a library: a host process links it, several host processes share one database. Nothing runs
in the background; every operation runs in a caller's goroutine. What makes it hard to get right is that
calls of several goroutines and processes interleave between two store calls, that a store, a cache, a
hook or a payment provider fails in the middle, and that an error does not say whether the change was made.

| Component | State | Operations | What is hard, and what makes it correct |
|---|---|---|---|
| `core/store` CachedStore | wrapped store, cache, per-cache coordinator (generation, poison, legacyMu) | Get, Create, Update, CompareAndSwap, Delete | A read that fills after the write it missed; failed cache operations; emulated compare-and-swap. *A usable cache never serves what the source no longer holds.* |
| `deployment` Store / MemoryStore | units, assignments, moves | 10 mutations under one lock | *Nothing is placed on, or moved from or to, a unit that is not active.* |
| `deployment` Service | one mutex per process; locals of each call | Create/Update/Disable/DeleteUnit, Assign, PrepareMove, CutoverMove, CancelMove, Resolve | Several store calls per operation, a mutex that covers one process only, lost replies. *Placement changes along prepared moves only, each step is reported once.* |
| `deployment` SQLStore | three tables | the same contract with row locks | Locks taken statement by statement. *Implements the store contract.* |
| `subscription` MemoryService | records, staged (pending) mutations | Subscribe, Unsubscribe, Renew, Expire, Upgrade/Downgrade, ExpireDue, CRUD | Host hooks run outside the lock and call the service again. *No lost update, no deadlock, no resurrection.* |
| `biz/commission` terms and events | templates, programs, attributions, recorded events | lifecycle transitions, SetAttribution, RecordEvent | RecordEvent reads three records without a lock and commits later. *An event earns once, on the terms in force.* |
| `biz/commission` ledger | earnings, journal, outbox, settlements | MakeAvailableDue, TransitionEarning, StartSettlement, Settle, CompleteSettlement | A payment provider whose answers are lost, late or repeated. *An earning is paid once; the journal explains it.* |
| `biz/commission` Store / SQLStore | tables | 19 operations; mutations are serializable transactions with retries | Rows read one statement after the other, conflicts, lost commits, a duplicate event answered outside its transaction. *Implements the contract of the memory store; the identifiers of journal entries and messages are new.* |
| `biz/commission` formula | none | Calculate, validation, comparison of a program with its template | int64 arithmetic, rounding, overlapping tiers. *A commission is exact or refused; a program never pays more than its template.* |
| `tenant` Manager | tenant records | Create, Update, Activate, Suspend, SoftDelete, Restore, HardDelete | Retried compare-and-swap; create, seed and roll back; check, audit and delete in three steps. |
| `onboarding` Service | in-process record of sent messages | Onboard | A saga over seven services, resumed after failures, in several processes. *Retries are not refused and never reset what a tenant has used; success means that everything is there.* |
| `quota`, `ai` Meter | usage counters | Add, Consume, Reset; metering in four dimensions | Limits of int64, retries of serializable transactions, partial consumption. *Usage is what was committed, within the limit.* |
| `biz/identity` (+ `oidc`), `biz/user` | pending logins; users, members, links | BeginLogin, HandleLoginCallback, SaveLogin, ConsumeLogin, Authenticate, Unlink | Repeated, late and mixed-up callbacks, concurrent first logins, a bounded store of logins. *A login is used once; a session is that of its login and account.* |
| `biz/notification` | none | Send through retry, fan-out, router, timeout | A retry repeats deliveries already made. |
| `plan`, `feature`, `biz/rbac`, `biz/audit`, `cache` | keyed maps and tables | single-step CRUD | — |
| `core/context`, `core/resolver`, `core/types`, `data/*`, `web/*`, `rpc/*`, `migration`, `obs` | none | adapters, parsing, SQL text | — |

Interactions: `tenant` and the middleware read tenants through CachedStore; `onboarding` calls tenant, plan,
deployment, subscription, feature, quota, audit and notification in turn; `deployment.Service` calls its
Store; `subscription` calls the host's BillingHook, which may call it again; `commission.Service` calls its
Store and the host's SettlementAdapter, and the host calls back with the provider's outcome.

## 2 Plan

In this order, most important behaviour first.

1. *Done:* CachedStore; DeploymentStore (the abstract contract), DeploymentService and DeploymentSQL (both
   shown to implement it); Subscription; CommissionLedger; CommissionEvents. Each with its invariants proved
   for all constants.
2. *Done:* CommissionStore (the abstract contract) and CommissionSQL, shown to implement it;
   CommissionFormula against a reference definition; Onboarding, composed of TenantManager and Quota; Login,
   composed of LoginStore, OIDC and Identity.
3. *Done:* proofs of all safety properties of the runs of DeploymentService, Subscription, CommissionLedger,
   CommissionEvents (but for the formula), Onboarding (with TenantManager and Quota) and Login (with
   LoginStore, OIDC and Identity).
4. *Done:* the proof that CommissionSQL implements CommissionStore and never writes an identifier twice.

What is left to prove is what the prover cannot do: liveness, and what the folds of CommissionFormula compute
(section 8). What is left to model are the components marked `not_modelled` in `PROJECT.json`.

Abstract specifications: DeploymentStore is the contract both stores and the service are measured against;
CommissionStore is the contract of the commission stores, translated from the memory store.

## 3 Modules and code

Common conventions. A critical section of a lock is one action; a call to another component made outside it
is an action of its own. Programs counters (`pc`, `call[c].op`, `call[c].at`) are used only where a call
makes several such steps. Payloads are model values; a failing operation that changes nothing and has no
consequence for the caller's next step is not an action. Definitions that only serve to show that a
property can fail are marked "Mutant of".

**CachedStore** — `core/store/cached.go`. `source`, `cache` are the wrapped store and the cache;
`generation`, `health`, `legacyMu` are `cacheCoordinator`'s fields; `pc, key, val, exp, gen` the locals of
each goroutine. `Call*` enter an operation; `Lookup*` is `lookupCache` with recovery from poison, `Load`
the wrapped store's Get, `Fill*` is `fillIfUnchanged` with each outcome of its cache calls, `Invalidate*`
`invalidate`, `Create … CompareAndSwap, LegacyCompare, LegacySwap` the writes, `SourceFails` and `ReplyLost`
errors of the wrapped store, without and with effect. `StripeNeighbour` is another cache on the same
coordinator stripe. The cache may evict at any time. The history variable `unsure` marks tenants whose last
write was applied though it reported an error: the decorator cannot know and does not invalidate.

**DeploymentStore** — `deployment/store.go`, `memory.go`: the directory as three functions and one action per
mutation, with the store's preconditions. **DeploymentService** — `deployment/service.go`: instances with
their own `mutationMu` over one directory (`Directory == INSTANCE DeploymentStore`). Each store call is a
step that uses the store's action; locking belongs to the first, unlocking to the last, the audit event
(`Emit`) comes after. `StoreFails` and `Commit` model failures before and after the effect. Version
numbers have a maximum, as in the code. Unit metadata and the host's placement policy are a
nondeterministic refusal.

**DeploymentSQL** — `deployment/sql_store.go`, on top of DeploymentStore's tables. `tx[s]` is the transaction
of session `s`: its operation, the next statement (`at`) and whether it has been overtaken. `After` is the
order of the statements of each operation; `LockUnit`, `LockAssignment`, `LockMove` are the `get…ForUpdate`
functions (and the INSERTs, which take the row of their key) with the caller's check of what they return
(`UnitFits`, `AssignmentFits`, `MoveFits`); `ScanAssignments` and `ScanMoves` are `unitReferencedInTx`.
`Commit` makes the writes visible and frees the rows; `Rollback` is the deferred rollback after any error, a
failed commit or a dead process. `InsertUnit` and `DeleteMoveRow` are the two operations without a
transaction. The database is external and modelled twice. "mysql": FOR UPDATE holds the row to the end of the
transaction; plain SELECTs are only relied on to see committed rows. That is less than the serializable
isolation the code asks for, under which they hold what they read and wait for it: the refinement, which has
more interleavings this way, does not depend on it, and for the same reason the model says nothing of
deadlocks. "sqlite": no row
locks, but a transaction whose snapshot was overwritten cannot write. PostgreSQL is not covered: its row
locks are the same, but after waiting for one a transaction still reads its old snapshot, so that the
reference scans rest on serializable snapshot isolation itself.

**Subscription** — `subscription/memory.go`. `pending` is the overlay of staged records with their owner,
`hooks[c]` the stack of hooks goroutine `c` is running. `Enter`, `RefuseReentrant`, `ContextDone` are the
three ways out of `lockMutation`; `Write` the direct CRUD, `Stage` `stageLocked`, `HookSucceeds`/`HookFails`
`runBillingHook` and `finishPending`, `Sweep` the loop of ExpireDue. Records keep status, plan and the time
they fall due.

**CommissionLedger** — `biz/commission/service.go`, `state.go`, `memory.go`. `NextStatus` is the table of
`TransitionEarning`; `ApplyTransitions` the validation and application of transitions with their journal
entries and outbox events; `DueBatch` the sorted, bounded batch of MakeAvailableDue. A caller reads
earnings one by one (`GetEarning`), then holds, releases, reverses (`TransitionEarning`) or claims them
(`StartSettlement`), under optimistic versions. `Submit` is Settle's call of the adapter: the provider may
not have received it, keep it pending, pay or refuse, and the answer may be lost. `ProviderDecides`,
`HostSubmits` and `CallComplete` are the asynchronous path. `FinishSettlement`/`FinishRepeated` record the
outcome. `Abandon` is any error return or the end of the process.

**CommissionEvents** — the same files, for what comes before: `CreateTemplate … SetAttribution` change the
terms; `CallRecordEvent, ReadProgram, ReadTemplate, ListAttributions, CommitEvent` are RecordEvent's steps.
`recording[c]` is the call caller `c` is in, with what it has read so far. `Earns` stands for the
calculation. `TermsUnchanged` is `validateCommitVersionsLocked`. **CommissionStates**
holds the life cycles of templates, programs and earnings that the commission modules share.

**CommissionFormula** — `formula.go`, `model.go`, `amount.go` and the comparison of a program with its template
in `service.go`, as operators with the code's names. Integers have a small width: `Wrap` is what the machine
makes of a sum or product, so that an unguarded overflow would give a wrong amount. `ExactFor` and
`WithinTemplateFor` compare with a definition that counts the units of an amount that lie in a tier and adds
over the integers. `MCCommissionEvents` takes its constant `Earns` from `Calculate`.

**CommissionTables, CommissionStore, CommissionSQL** — the tables of a commission Store and the changes made
to them; the contract (`memory.go`: a call takes effect at one moment, at most once, and answers as the
operation answers at that moment, or fails and has taken effect once or not at all); and `sql_store.go`
statement by statement. The operators `TransitionTemplate … MarkOutboxPublished` of CommissionSQL are the
sequences of SELECT … FOR UPDATE of each operation; a `Statement` is the row and the verdict of the checks
after it, to go on or to end with an answer. `Ordered` is ORDER BY, `Sorted` `sortedEarningIDs`. `Read` takes
one statement, `ReadSnapshot` all of them on one snapshot (which `call[c].snapshot` says is still valid or was
overwritten since), `Commit` writes and commits, `Duplicate` is the unique key that refuses an INSERT,
`Lookup` and `LookupEarnings` are `existingCommitResult`, `Retry` is `retryCommissionMutation`, `Fail` any
other error, also after the commit. `call[c].effect` remembers whether the call has changed the tables. The
queries are one statement each. An event has any number of earnings; a recorded one is answered with all of
them, read one after the other in the order of their identifiers. The database is external and modelled twice,
with row and gap locks and with snapshots whose writers are refused when overtaken. A real one locks more
(index entries, what `journalIDExists` looks for), which only leaves fewer interleavings; who waits for whom
depends on these locks and is not modelled.

**TenantManager** — `tenant/manager.go` and its siblings, on `core/store/sql_store.go`: create, seed and roll
back; read, check, compare-and-swap and start again; HardDelete in its three steps; every store call may fail
with or without its effect. **Quota** — `quota/sql_store.go` and `ai/meter.go`: a mutation reads the row, checks
and writes in a transaction that is started again after conflicts (the database aborts the overtaken one);
the meter consumes its dimensions one after the other. **Onboarding** — `onboarding/service.go`: one action
per call the saga makes, with the mutex of its process, failures everywhere (`Fail`), restarts, an
administrator and the consumers of the quotas at the same time.

**LoginStore** — both stores of pending logins (`login_store.go`, `sql_login_store.go`), with the clock read
before the lock, the sweep of expired logins and the retried transaction of ConsumeLogin. **OIDC** —
BeginLogin and HandleLoginCallback (`login_store.go`, `client.go`) with the order of all their checks; codes,
tokens and UserInfo are the external provider's. **Identity** — `biz/identity/service.go` with the user
service and the link stores, one access after the other. **Login** composes the three.

The `MC*` modules only give constants values, bound what happens and name symmetry sets; `MCCommissionEvents`
also puts bounded inputs to the formula.

## 4 Runs

| Run | Properties | Shows |
|---|---|---|
| CachedStore_coherence | TypeOK, Coherent, SwapReplacesExpected, CallsReturn | The cache never serves an entry the source no longer holds, except between a write and its invalidation; the emulated compare-and-swap is atomic among the wrappers; every call returns. |
| DeploymentService_moves | TypeOK, PlacementValid, MoveFromCurrentUnit, CutoversReportedOnce, ChangesAlongMoves | Two processes, three goroutines: moves never go stale, versions step along moves, no step is reported twice. |
| DeploymentService_replacement | CancelsObservedMove (**violated**) | A stale CancelMove deletes a replacement move of equal content. |
| DeploymentSQL_transactions | ImplementsStore | Transactions interleaved statement by statement take effect as single operations of DeploymentStore. |
| Subscription_hooks | TypeOK, StagedByItsHook, StagedFromCommitted, ExpiresOnlyDue, WaitsEnd, BilledTransitions | Nested hooks never lose an update, expire what was not due when the sweep began, revive what was cancelled, or wait for each other. |
| Onboarding_retries | OnboardingTypeOK, RetriesResume, Metered, UsageKept, SuccessMeansReady | Whatever step an onboarding failed or was cut off at, repeating it is not refused, loses no usage and, when it succeeds, has everything in place; usage is counted exactly, within its limits. |
| CommissionLedger_payments | TypeOK, ClaimedOnce, PaidOnce, JournalExplains, OutcomeFinal | One live batch per earning, one payment, a journal that explains every status, final outcomes. |
| CommissionLedger_progress | BatchesResolve, DueReleased | Submitted batches end, due earnings are released in spite of bounded sweeps. |
| CommissionEvents_terms | OneSetOfEarnings, RecordedOnCurrentTerms, CalculationExact, ProgramsWithinTemplate | An event is recorded once, on the terms in force when it is committed; a commission is exact or refused; an admitted program pays no slot more than its template. |
| CommissionEvents_repeat | RepeatReturnsOriginal (**violated**) | Repeating an event after its program was suspended is refused. |
| CommissionSQL_contract | SQLTypeOK, ImplementsStore, IdsAreNew | The transactions of the SQL store, refused, retried or cut off at any point, implement CommissionStore; the version an operation gives a row is new to the journal and the outbox, whose identifiers are made of it. |
| Login_sessions | LoginTypeOK, SessionBound, LoginsKept, LinksStay | A pending login is given to one callback at most and goes only when a callback consumes it (even if its answer is lost) or when it has expired; a session is that of the login and account of its callback; concurrent first logins do not fail each other. |

Two runs show a disagreement between a comment and the code.

* `sql_store.go:701` says of `DeleteMoveIfMatch`: "It prevents a stale cancellation request from deleting a
  replacement move." A move has no identity beyond tenant, source and target. If another process cancels
  the move and prepares an equal one between the two store calls of `CancelMove`, the stale request
  deletes the replacement.
* `service.go:494` of the commission package says of RecordEvent: "Repeating the same tenant/source
  type/source ID returns the original earnings". The program's and the template's status are checked
  before the event is looked up, so the repetition fails once either is not active any more.

`Coherent` has one exception that is worth knowing: after a write that was applied but reported an error,
the cache may keep the old value until the next invalidation or the TTL. The other properties that make an
exception:

* `UsageKept`: a call that overlaps with an onboarding of the same tenant in another process may reset usage
  after the subscription exists, because the mutex that orders them is one process's.
* `SuccessMeansReady`: a tenant whose creation was cut off between the row and the seeder, or could not be
  rolled back, is taken over by the retry, which does not seed it. With two processes a rollback may delete
  the row the other has resumed, and there may be two audit events.
* `LinksStay`: a login that finds its link changed or removed under it may end with a conflict; so may, on a
  database that does not count unchanged rows as affected, one of two logins with different profile names.

## 5 Bounds

* CachedStore: two goroutines, one tenant, two values, three calls, with and without a store that compares and
  swaps. Every stale-fill scenario needs one reader and one writer; failed cache operations, poison, eviction,
  recovery and writes on the same stripe happen at any time besides.
* Deployment: one tenant, three units (source, target, replacement), versions up to 2, two processes of
  which one has two goroutines, five calls: assign, prepare, cut over and the retry or the cancellation of
  another process. DeploymentSQL: two sessions that each run any number of transactions of any kind, one
  tenant, two units, versions up to 2; larger instances (two tenants, or three units) pass too and take a few
  minutes. Whatever two transactions can do to one another is about one unit and one tenant; the proof covers
  any number.
* Subscription: two goroutines, two tenants, hooks nested two deep, periods ending at 1 or 2 with one unit of
  grace, clock up to 3 and four calls: the shortest cycle of waiting needs two hooks that call each other's
  tenant. A sweep may begin at 2, with one tenant due, and reach the other at 3, when that is due too: the two
  clocks that ExpiresOnlyDue tells apart.
* CommissionLedger: two callers, two earnings of one payee due at time 2, two settlements, due batches of
  one (so that the backlog exceeds the batch), versions up to 5: accrue, release, claim, reject, claim
  again. The progress run has one caller. With one payee, the check that a batch has one is never the one
  that refuses; no property is about it (StartSettlement's check in CommissionSQL is put to another payee).
* CommissionSQL: two clients that make any two of 39 calls from tables in six stages (empty, launched, with
  available and with pending earnings, with a submitted batch, with a batch given back), two attempts, both
  kinds of database. There are two events; the first has two earnings, which fall due at different times and
  against the order of their identifiers (the Store accepts that, though RecordEvent gives all earnings of an
  event one due time), the second has none.
* CommissionFormula: integers up to 31 and a denominator of 4, whose square fits as 10 000's does in int64; one
  or two tiers and one or two rules, with ranges that touch, overlap and leave gaps, fixed amounts near the
  largest integer, with a cap and without; amounts at the ends of the ranges and of the integers. 78 540
  calculations and 57 600 pairs of program and template.
* Onboarding: two callers in one process and one in another, two attempts at a compare-and-swap or a quota
  mutation, one usage near the limits and the largest integer (2). Each behaviour has a budget: three calls,
  or two with a restart, an administrator's change or a consumer, or one with two of these.
* Login: two handlers, two tenants, three states, two subjects, four accounts that differ in what their claims vouch for,
  two pending logins at most. Scenarios bound how often each thing happens: storing under time, callbacks
  mixed up, direct assertions with a host that unlinks.
* CommissionEvents: two callers, one program, one slot, two beneficiaries, two payloads (one earns, one does
  not), versions up to 5: created, submitted, approved, suspended, resumed.

Versions, clocks and calls are capped in the guards (`MaxVersion`,
`MaxTermVersion`, `MaxTime`, `MaxCalls`, `MaxDepth`, `budget`). The
proofs do not depend on the values of these bounds.

## 6 Fairness

* CachedStore: `WF_vars(Step(c))` — a goroutine inside a call keeps running, and the store and the cache it calls
  return, as contexts with deadlines make them.
* CommissionLedger: callers keep running; the provider decides what it has received; the host submits a batch
  whose call was abandoned, repeats the callback of a decided batch until one call gets through (strong
  fairness of `CallComplete` and `FinishSettlement`, since each attempt may be abandoned), and runs
  MakeAvailableDue again and again. The last two are duties that `CompleteSettlement`'s and
  `MakeAvailableDue`'s documentation gives to the host; nothing in the library does them.

The other modules state safety only; that hooks do not wait for each other in a circle is an
invariant there (WaitsEnd), and TLC reports a state in which nothing can happen.

## 7 Proofs

All theorems hold for every value of the constants that satisfies the named ASSUMEs. They are safety
properties; the pattern is `Init => IInv`, `IInv /\ [Next]_vars => IInv'`, `IInv => Inv`, one step per action;
an action property (`UsageKept`, `LinksStay` ...) is proved of each step from `IInv`. The parts of
Onboarding's invariant, the largest, were checked by TLC on the instance of its run before they were proved.

| Module | Theorems | Inductive invariant |
|---|---|---|
| CachedStoreProofs | TypeCorrect, CacheCoherence, LegacySwapAtomicity | Coherent alone is not inductive: a goroutine about to fill carries a value. `FillIsFresh`: if it carries the current generation, the value is the source's or a write is unsettled. Plus `GenerationBounds` and `LegacyExclusion`. |
| DeploymentServiceProofs | TypeCorrect, ServiceImplementsStore, ServicePlacement, ServiceMovesFresh, ServiceMutex, ServiceReports, ServiceMovesOnly | What the locals hold at each label (in TypeOK), the mutex invariant and MoveFromCurrentUnit. Every step of the service is a step of DeploymentStore or leaves it alone. For the reports: a step announces at most one more cutover of a tenant, and then gives its assignment the next version (`AnnouncedStep`). |
| DeploymentSQLProofs | StorePlacement; SQLImplementsStore, SQLPlacement | Of the contract: TypeOK and PlacementValid. Of the SQL store: `Established`: what the statements of a transaction have found stays true until it commits, because whoever changes a row holds it (`Footprint`), and because a new reference to a unit needs its row or starts from an assignment the scan would have seen. |
| SubscriptionProofs | TypeCorrect, StagedOwnership, StagedFreshness, ExpirySweep, WaitingEnds, BilledLifecycle | Ownership: exactly the running hooks own the staged mutations; ExpiresOnlyDue is inductive once the sweep's frame keeps its time; a call's arguments fit its operation; what is staged follows the lifecycle. |
| CommissionServiceProofs | EventsTypes, TermVersions, CurrentTerms, OneRecord; TypeCorrect, Claims, PaidInOneBatch, FinalOutcomes, OptimisticVersions, Journal | Of CommissionEvents: `ReadsAreOld`: what a call has read is never newer than what is stored; hence equal versions mean equal content, and the commit's check means that the terms are the current ones. Of CommissionLedger: `Agreement`: ledger and provider never disagree on a decision, and whoever is about to report one reports the provider's; together with ClaimedOnce it gives PaidOnce. `VersionBounds` for the versions, `EventIds` for the journal: an outbox event names an earning or a settlement according to its kind. |
| CommissionSQLProofs | Inductive; TypeCorrect, KeepsContract, NewIds | `IInv`, whose parts are explained below: the tables agree with one another (`Consistent`), each call is at a stage that fits what it has done (`ValidCall`, with `Established`), and no row is held by two (`HeldApart`). For NewIds: no entry and no message has a later version than its row (`Numbered`). |
| OnboardingProofs | OnboardingTypes, MeteredUsage, RetriesAreTaken, UsageSurvivesRetries, SuccessIsReady | Three parts. Quotas: a transaction about to write has read what is stored or is marked overtaken (`MutationsChecked`), with Metered. Tenants: what a manager call has read fits its kind (`ManagerCallsFit`). The saga: one call per process (`CallsApart`); whom the manager serves (`ManagerServes`); what is in place at each stage (`Checkpoints`, `Tenancy`, `Seeding`, `Traces`), each as far as nobody else has touched the tenant and no other process was met; and RetriesResume. |
| LoginProofs | LoginTypes, StoresKeepLogins, SessionsBound, IdentitiesStay | Stores: a login is in one place, the table or one call (`OnePlace`), and is the one asked for under its state (`LoginsMatch`). Client: what a handler carries from request to assertion belongs to the state and the code of its callback (`CallbacksBound`). Identity: what a call of Authenticate has established at each stage (`CallsKnow`). And what is authenticated is what was asserted (`AuthenticationsBound`). |

The longest argument is that of CommissionSQL. `Established` says that a transaction's statements would today
read the rows they have read and go on as they did, and that it holds exactly those rows and gaps: with locks
because whoever writes a row holds it and whoever inserts one waits for its gap, on a snapshot unless the
transaction was marked as overwritten, and then it cannot commit. Hence the writes at the commit are those the
contract makes at that moment. Each operation has a lemma for each part of this: `…Refuses` (a statement that
ends the transaction gives the contract's answer), `…Writes` (when all statements go on, the writes are the
contract's change, keep `Consistent` and touch only rows that are locked) and `…Keeps` (what others write
leaves the statements as they were); `…Shape` says what the statements are. Of a call
the contract sees the operation, whether it has taken effect and the answer (`Bar`). That `Ordered` lists every element
of a set once and in order would call for an induction; it is shown with the cardinality of `Before` and a
minimal counterexample (`WFMin` on finite subsets). NewIds uses the refinement: whatever the contract makes of
a request, a row keeps its version or gets the next one, and what is added to the journal and the outbox has
the version of its row (`OutcomeGrows`). All parts of `IInv` were checked by TLC on the instance of
CommissionSQL_contract before they were proved.

Assumptions on constants. Sentinels differ from real values (`No…` names, `NoTenantAssumption`,
`NamesAssumption` ...), bounds on attempts, batches and pending logins are positive. `ClientsAssumption` of
DeploymentService and `StatesAssumption` of LoginStore: finitely many callers and random states, since both are
counted. `IntegerAssumption`: the largest integer is a natural number and a missing row is no amount.
`UsagesAssumption`: `validateUsage` refuses negative amounts. `ManagedAssumption`: an administrator's call is
not an onboarding's. `RequestsAssumption`, `AskedAssumption`, `AccountsAssumption`: requests and accounts are
records of the fields the code reads; an address is not the absent user. CommissionSQL: the tables at the
start are consistent and numbered (`StartsAssumption`; the empty ones are); the requests are those that pass the checks of
their shape, which refuse all others before a table is read (`RequestsAssumption`); a program's rules list
each of its slots once, as its validation demands (`RulesAssumption`); earnings and clients are finitely many,
since both are counted (`FinitenessAssumption`); there is at least one attempt (`AttemptsAssumption`). The
assumption on the payment provider (`Answers`) is that a decision is final and keyed by the settlement identifier; without it PaidOnce
cannot hold for any ledger.

## 8 Only model-checked, and not modelled

Only checked by TLC:

* CallsReturn, BatchesResolve and DueReleased: TLAPS proves no liveness under fairness.
* CalculationExact and ProgramsWithinTemplate: CommissionFormula folds over sequences of tiers and rules, and
  what a fold computes for every input needs an induction the provers cannot instantiate.
* CancelsObservedMove and RepeatReturnsOriginal are violated, as section 4 explains.

Proved but not among the runs' properties: OneMutatorPerInstance, VersionsIdentify and VersionsIdentifyTerms,
which the invariants above rest on, and SQLPlacement and StorePlacement.

Not modelled: deadlocks of the SQL stores. On a database with row locks, transactions of either store may wait
for each other: under the serializable isolation they ask for, MySQL's plain SELECTs hold what they read
(`unitReferencedInTx`, `listEarningsForEvent`), index entries and the keys `journalIDExists` looks for are locked
too, and the commission store takes earnings by identifier in one operation and by due time in another. A
model of it would be one of the database. What the models do cover is what the code makes of it: a transaction
ended at any statement leaves nothing behind, and the commission store starts it again.

Not modelled either: the components marked `not_modelled` in `PROJECT.json`. Adapters, middleware, resolvers, query
guards, migrations, logging and notification providers are stateless or pure I/O; the stores of plans,
features, roles and audit events are keyed rows with single statements, which enter Onboarding as steps of
the saga. In the modelled components: authorization and validation of input shapes (they end a call before
its first step), listing operations but those of CommissionStore, a wrapped cache that is not a pointer (it
bypasses the coordinator), billing hooks that drop their context (forbidden by BillingHook's documentation),
the fallback of the tenant manager for stores without CompareAndSwap, HandleCallback (the callback without a
store of logins), and the cursor of the commission outbox, for which creation times would be needed.
