# Verification of the logo generation platform

The program is a Python backend (FastAPI, SQLAlchemy over SQLite) that sells
logo generation to customers: a customer answers a questionnaire, the backend
buys images from an external provider, the customer adopts one logo, and
administrators deliver a design task for it. A React frontend polls the backend;
a background worker posts notifications and reminders to Lark. This directory holds TLA+ models of
the parts whose correctness depends on interleavings, restarts and lost answers,
model-checked with TLC, and theorems about them checked with TLAPS.

## 1. The system

### The ground everything stands on

* One server process, one asyncio event loop. Request handlers, background tasks
  and the Lark worker (started with the application, `main.py`) interleave at
  every `await`.
* SQLite through `aiosqlite`; sessions have `autoflush=False` and
  `expire_on_commit=False` (`db/session.py`). The driver opens a transaction
  only at the first write, so **SELECTs run outside any transaction**, each with
  its own snapshot; from its first write to its commit a session is the only
  writer. A unit of work is therefore a sequence of reads followed by one atomic
  commit, and other units may commit between them.
* The ORM writes, by primary key, the columns whose value differs from what it
  loaded. It does not check that the row is still what it read.
* `get_db` commits after the route has returned, also when the route has turned
  an exception into an error answer. It rolls back when an exception leaves the
  route. No handler catches `IntegrityError`: a unique key that refuses a commit
  becomes a 500 and a rollback.

### Components

| component | state | operations | what is hard |
|---|---|---|---|
| Batch generation: candidate execution (`batch_generation_service.py`, `model_provider.py`) | `generation_candidate_jobs`, `logo_versions`, in-memory coroutines | claim, submit, wait, persist success or failure, recover, retry | a restart between the provider's acceptance and the commit of the task identifier; lost answers; two coroutines on one row |
| Batch generation: request, replenishment, slots (`batch_generation_service.py`) | `generation_requests`, rows by ordinal, retry tokens | accept, schedule, gather, count, replenish, finish, list visible slots, retry one slot | counting and concluding in separate transactions; polls restarting the loop; retries racing it |
| Style policy and rotation (`batch_generation_policy_service.py`, `single_image_edit_policy_service.py`) | policy versions, rotation cursor | publish, upgrade, allocate, rotate | read-modify-write of the cursor and of max(version) + 1; integer shares |
| Single image edit (`single_image_edit_service.py`) | `single_image_edit_requests`, `logo_versions` of an edit chain, in-memory tasks | accept, claim, submit, poll, persist, resume at startup | the accept lock is released before the commit; resume at any point around a submission |
| Customer decisions and design tasks (`customer_decision_service.py`, `task_center_service.py`) | `design_tasks`, `endpoint_idempotency_records`, `asset_records`, files | adopt, accept, deliver, give feedback, save logos | customer and administrators acting on the same row; repeated keys; a file written before its row |
| Customer access and sessions (`customer_access_service.py`, `auth_service.py`) | `customers.access_state`, expiry, sessions, access links | create, stop, resume, extend, verify, issue, revoke | a request that read "active" before a stop and commits after it |
| Lark notifications (`lark_notification_service.py`, `lark_worker.py`) | `notification_outbox`, `lark_reminder_snapshots`, recipients, rules | enqueue, snapshot a stage, stop, pause, resume, scan, claim, send, edit recipients and rules | pause and resume racing the worker's scan; claims left by a process that stopped; a card posted whose commit is lost; a rule whose last recipient goes |
| Model connections and provider clients (`model_connection_service.py`, `model_provider.py`) | connections with a version counter; HTTP clients | create, update, test, delete, call | tests that run for seconds beside updates; a delete beside a publish |
| Assets and audit events (`asset_service.py`, `event_service.py`) | files beside rows; append-only rows | write, derive a preview, delete, record | a file without a row, a row without a file; a preview half written |
| Schema migrations (`db/migrations`) | the schema and its ledger | apply what the ledger does not list | a stop between statements of which the driver commits some at once |
| Generation page store (`useGenerationStore.ts`) | the page's copy of the request | submit, poll, retry, remember | late and reordered answers |
| Pages, mocks, i18n; pycore; deployment | - | - | rendering, a framework, scripts |

How they interact: routes call the services and own the commit. Accept starts a
background loop in memory; a status poll of a processing request starts it again
if it is gone. Decisions and the task center write reminder snapshots and outbox
rows in the same commit as the task. Every handler depends on the customer's
access, which an administrator may change at any moment. The Lark worker shares
nothing with the handlers but the database.

What makes each correct: a candidate is paid for once, but for what an erroneous
answer hides, and never lost after payment; a request ends, within its budget, and says what it delivered; a
customer has one open task, replaced only when asked for, and a stop wins over
pages opened before it; a delivery never loses its file; reminders watch exactly
the open tasks; notifications are sent at least once and only for what is still
true; an edit is paid for once and versions are numbered in order; templates take
turns; a policy runs on the configuration it was published for; a session never
outlives a stop; a repeated call is given its first answer; an upgrade loses
nothing wherever it is stopped. `PROJECT.json` lists each hazard at its line
with the properties that cover it, and those no property covers yet.

## 2. The modules

| module | models | state and actions |
|---|---|---|
| `CandidateJob` | one row of `generation_candidate_jobs` and every writer of it | see 2.1 |
| `CandidateOnce` | abstract specification: what a candidate, and an edit, promises to the customer who pays | `outcome`, `charged` |
| `MCCandidateJob` | TLC instance of `CandidateJob` | |
| `CandidateJobProofs` | theorems about `CandidateJob`, and that it implements `CandidateOnce` | |
| `BatchGeneration` | one request: rows, loop, replenishment, slots, slot retries | see 2.2 |
| `MCBatchGeneration`, `BatchGenerationProofs` | TLC instance; theorems | |
| `DesignTasks` | the tasks of one customer and the four handlers that move them | see 2.3 |
| `TaskBoard` | abstract specification: what is promised of a customer's tasks | `board`, `active` |
| `MCDesignTasks` | TLC instance of `DesignTasks` | |
| `DesignTasksProofs` | theorems about `DesignTasks`, and that it implements `TaskBoard` | |
| `CustomerAccess` | one customer's access, its administrators, the sessions | see 2.4 |
| `LarkReminders` | the reminder clock of a task; extends `CustomerAccess` | see 2.4 |
| `MCCustomerAccess`, `MCLarkReminders` | TLC instances | |
| `CustomerAccessProofs`, `LarkReminderProofs` | theorems | |
| `LarkDelivery` | the outbox and the worker that sends it (also its own TLC instance) | see 2.5 |
| `LarkDeliveryProofs` | theorems about `LarkDelivery` | |
| `SingleEdit`, `MCSingleEdit`, `SingleEditProofs` | edits of one logo, TLC instance, theorems | see 2.6 |
| `StyleRotation`, `ModelSettings`, `LarkSettings`, `AssetFiles`, `SavedLogos`, `Migrations` | six small parts | see 2.7 |
| `MCParts`, `PartsProofs` | TLC instance of the six; theorems about them | |

A definition preceded by "Mutant:" is a deliberately wrong variant of the one
that follows it. It is used by no specification; substituting it for the right
one must make TLC report a violation of the property named with it in
`PROJECT.json` (`mutants`). In this way each checked property is known to depend
on the code it is about.

### 2.1 CandidateJob

`job` is the row (status, provider task, submission state, whether a result is
attached), `logo` whether a `LogoVersion` refers to it, `made` what the provider
has been asked to create. `runs` are the coroutines of `_execute_candidate`,
each with a program counter, its attempt, the task identifier it holds and the
row it loaded; `loop` is the program counter of `execute()`, `retry` that of
`retry_failed_slot`.

Every block that opens a session, reads, and commits is two actions, for example
`Claim`/`ClaimCommit` (`_claim_provider_submission`), `Store`/`StoreCommit`
(`_persist_provider_task_id`), `Save`/`SaveCommit` (`_persist_success`),
`Fail`/`FailCommit` (`_persist_failure`), `RecoverRead`/`RecoverCommit`
(`_recover_running_jobs`), `RetryRead`/`RetryCommit`. `Flush` is the ORM's
commit: a column is written if it differs from the *loaded* one, over whatever is
stored. The provider is the outcomes of `create_task` and of the later wait.
`SubmitAccepted`: a task and its identifier. `SubmitUncertain`: the answer was lost,
there may be a task, and nothing is tried again. `SubmitRejected`: refused, or failed
before it was asked; no task. `SubmitGarbled`: a 5xx or an unreadable body after the
request was sent, behind which there may be a task; `_generate` gives the claim back
for it as for a refusal (l.659-662), so the next attempt submits again. `made` counts
the tasks of the first two, `garbled` those of the last. `Crash` drops every coroutine and keeps the row;
`RunDies` and `LoopDies` are exceptions nothing catches; `SaveRefused` is the
unique `candidate_job_id` refusing a second logo version. Since `gather` is
called without `return_exceptions`, an escaped exception ends the loop and leaves
the sibling runs going as orphans.

The other candidates are the environment: `PickOthers` and `GoRound` let the loop
wait and go round again for their sake. `Once` is the row seen as the abstract
candidate: pending and running are "open", `made` is what is charged and `garbled`
what is wasted.

### 2.2 BatchGeneration

The same loop seen from the request: `jobs` by ordinal with the slot each row
belongs to; a run is two steps (begun, outcome). `Count` is `_job_counts` with
the conclusion `execute()` draws; `Finish`, `Replenish` and `RuntimeUnavailable`
write it later, in transactions of their own, so `plan` holds what was concluded
and other steps may come between.

Any transaction may raise what nobody catches: `LoopEscapes` in the loop,
`RunEscapes` in a candidate, `SucceedRefused` where a second logo version of a row is
refused. `gather` is called without `return_exceptions` (l.405-408), so what one
candidate raises ends the loop, and the candidates it had gathered go on as orphans
(`Raises`; owner "orphan"). The next poll starts another loop, which takes the rows
of the orphans for those of a dead process; `overtaken` says that this has happened,
as `early` says that a retry was accepted while the request was processing.
`Calm` is neither. A row has one orphan at most, which is a bound.

`Poll` hands out retry tokens, `Retry` is the
endpoint: it does not look at the status of the request, and a token stays good.
`Replaceable` and `Chosen` are the failed rows of `failed_jobs[:remaining_budget]`;
the query that lists them has no order, so any is allowed.
`Visible` is the loop of `_visible_slot_jobs`: `VisibleUpTo(k)[n]` is what slot `k`
shows after the first `n` rows.

The two batch modules divide the work: `CandidateJob` has the instants inside a
run, `BatchGeneration` the run as a whole and many rows.

### 2.3 DesignTasks

`tasks` are the rows in order of submission, `watch` the active reminder
snapshots, `sent` the keys in the outbox, `records` the idempotency records,
`assets` and `files` the two halves of a delivery image. `req` are the handlers
in flight: program counter, key, the rows loaded, the image.

Adoption is `AdoptBegin` (session, replay, the logo, "is a task completed"),
`AdoptRead` (the open tasks, the confirmation) and `AdoptCommit` or
`RefuseCommit`; a commit that a unique index refuses is `CommitRefused`.
Acceptance reads, reads the customer again and ends with a conditional UPDATE
(`AcceptCommit`). Delivery writes the file (`DeliverBegin`), then the asset row,
reads the customer again, and ends in one of `DeliverCommit`, `DeliverChanged`
(the UPDATE hit nothing: row and file are removed) or `DeliverUnavailable` (the
file is removed, and the route's commit keeps the asset row). `Stop`, `Resume`,
`Extend` and `Expire` change the customer's access between any two of these;
`Dies` is a handler that ends at any point, with its transaction rolled back and
its file left.

### 2.4 CustomerAccess and LarkReminders

`customer` is the access (state and expiry), `handler` what an administrator's
request has read and will write, `session` the rows of `customer_sessions`,
`visit` a request that carries one. `EnableRead`, `StopRead`, `ResumeRead` and
`ExtendRead` are the reads of the services, `Commit` the route's commit, which
revokes the sessions the request had *found* (`Revoked`). `VerifyRead` and
`VerifyCommit` exchange a link for a session; `AskSession` and `AskCustomer` are
the two reads of `get_customer_principal`. `Tick` is the clock. `Outlived`,
`Watch` and the fields `stopped`, `crossed` and `wrong` are history.

`LarkReminders` adds the task's stage, its snapshot and the worker. A change of
access pauses or resumes the snapshot it has read in the same commit
(`Changed`, with `PausedBy`, `ResumedBy`); the worker's scan is `ScanRead` (the
clock, the snapshots), `ScanDue` (the due query, which does not see what the scan
has paused in memory only), `ScanCommit` or `Slip`. `Hour` counts the hours of
access a stage has had, which is what `NotEarly` compares with; `slipped` names
the overlaps the properties excuse.

### 2.5 LarkDelivery

`outbox` holds the rows, each with its status, attempts, claim and rest; `worker`
is the cycle of `process_outbox`: `Claim` commits the leases, then for every row
`Post` (the card may reach the group and its answer be lost), `Record` (what the
attempt came to, `Attempted`) or `RecordFails`. After a rollback the attributes
of the row are expired, so the except clauses may themselves fail: both outcomes
are allowed. `LeaseEnds` and `DelayEnds` are time; `Crash` drops the worker and
keeps the claims. `posts` counts the cards the group has seen.

### 2.6 SingleEdit

`row` are the requests with the version each produced, `accepts` how far the
customer's call has come (`AcceptRead`, `AcceptFlush`, `AcceptCommit`; the lock
is released before the last), `run` the coroutine of `execute`. Its blocks are
`Input`, `Claim`, `Submit`, `ClearClaim`, `RecordTask`, `Poll`, `ReadLatest`,
`Save` and `Fail`; `Escape` is an exception that leaves `execute`, `Crash` a stop
after which `resume_pending` takes up every processing row. `Direct` are the requests
whose connection is not of `KieGptImageProvider`: for them `_generate` is one `Call`
(l.301-302), without a claim and without a task to wait for, which charges in every
round. `Garbled` is an erroneous answer, as in 2.1. `Once(r)` is a request seen as the
abstract candidate; it is meant for the others.

### 2.7 The six parts of MCParts

* `StyleRotation`: `Allocation` is `_style_allocation`; `AcceptBatch` and
  `Replenish` read the cursors, `Flush` moves them, `Commit` makes that visible,
  `Refuse` is a batch refused after the flush, whose cursors are committed all the
  same.
* `ModelSettings`: requests of administrators on connections and the two policies;
  `Ask...` is what a request reads, the action without `Ask` what it commits.
* `LarkSettings`: recipients and rules; a request holds what it read until
  `CommitEdit`.
* `AssetFiles`: one logo's file and preview; threads look without the lock
  (`Look`, `ReadPreview`), take it and look again (`LookAgain`), `Open` (which
  empties the file) and `Fill` it; `Crash` and `FillFails` leave what is there.
* `SavedLogos`: `SaveLogo` and `UpdateSavedLogo` read, `LookForDuplicate` reads
  once more, `SavedCommit` writes the change and the answer to the key together,
  `Replay` gives a stored answer again.
* `Migrations`: `file` is the database on disk, `view` what the connection sees.
  Statements run one by one (`Executes`). The driver opens the transaction at the
  first INSERT or UPDATE, so DDL before it is durable at once and DDL after it is
  not; `Killed` may come between any two. `Table.create(checkfirst=True)` is a CREATE
  TABLE (`Creates`) and then its CREATE INDEX (`Indexes`), or neither if the table is
  there (`FromModels`). `V0001` to `V0024` are the statements of
  each migration by what it finds; `MigrationsInit` is the database of any earlier
  release, or none.

These parts share no state, so a behaviour of `MCParts` is a behaviour of one of
them (`part`) and the state space is the sum, not the product.

## 3. What TLC checks

Each run is a `.cfg` of the same name. All runs set `CHECK_DEADLOCK FALSE`,
because these systems really stop: a candidate is decided, a request has ended,
and the bounds on retries, restarts or tasks are used up.

| run | instance | shows |
|---|---|---|
| `restarts` | Kie, 2 runs, 2 restarts | `Settles`: no restart, wherever it hits, leaves a row undecided for ever. `KeepsCandidatePromise`: the row implements `CandidateOnce` (charged at most once but for what an erroneous answer wastes, decided once, delivered only for a charge, decided in the end) |
| `retries` | Kie, 3 runs, 1 retry, 1 restart, 4 erroneous answers | `TypeOK`, `CalmInv`, `LogoIffSucceeded`. `ChargedOncePerReset`: one charge per start of the row, erroneous answers apart; `ChargesBounded`: with them, two per start and per restart |
| `faults` | synchronous provider, 2 runs, 1 retry, 1 restart, 1 escaped exception | `SucceededHasLogo` with orphaned runs and refused commits |
| `batch` | 3 slots, budget 2, 1 retry, 1 restart, 2 escaped exceptions | `OneSuccessPerSlot`, `FullSuccessFillsSlots`, `NothingLeftRunning`, `ShownLogoStays` and `Ends`, in calm requests |
| `slotretry` | 2 slots, budget 1, 1 retry, 1 escaped exception | `WithinBudget`, `EndMatchesLogos`, also in requests that are not calm |
| `tasks` | 2 handlers, 2 keys, 2 tasks, 2 images, 2 upsets | `KeepsBoardPromise`: the handlers implement `TaskBoard`. `OneOpenTask`, `KeyCreatesOneTask`, `StageWatched`, `DeliveredHasFile`, `ConfirmedReplacement`, `StopBeatsAdministrator` |
| `access` | 2 administrators, 1 session at a time, 4 ticks | `SessionsEndWithStop`: no session is left by a stop but one that was being verified meanwhile. `AdmittedWasEntitled`: a request that is let in met an instant at which it should be |
| `reminders` | 1 administrator, threshold 2, interval 1, 1 repetition, 5 hours | `ClockRunsForActive`: what a stop or a scan froze is thawed with the access. `NotEarly`: hours without access do not count |
| `delivery` | one reminder, one immediate row, 3 attempts, 2 faults, 2 changes of access | `PostsBounded`: how often the group may see a card. `Notified`: every row is settled, through lost answers, abandoned claims and restarts |
| `edits` | 2 edits (one Kie, one direct), 1 slot, 2 attempts, 2 restarts, 1 escaped exception | `NumbersInOrder`, `Settles`: every edit ends, through every restart. `EditsKeepPromise`: the Kie edit takes only steps of `CandidateOnce`, so it is charged once (`ChargedOnce`). `ChargesBounded`: either is charged once per round at most |
| `parts` | six parts, see below | `TemplatesTakeTurns`, `AllocationFair`, `RunsAsPublished`, `PolicyMovesForward`, `EnabledRuleHasTarget`, `PreviewStaysWhole`, `AnswerStands`, `UpgradeLosesNothing` |

The run `neverends` is expected to find a violation; section 5 says of what. The type invariants, of which
runs list one only, hold on the same instances; all but that of `Migrations` are
theorems.

**Bounds.** Every bound is a CONSTANT. `CandidateJob`: one run is what the code
intends, a second is what an early retry or an orphan adds, a third what a retry
beside both adds; two restarts let one hit what the other left behind;
`MaxTasks` leaves room for a charge more than the retries made so far allow, so
that a double charge is visible, and `MaxGarbled` (4 in `retries`) for an erroneous
answer in every attempt of the original run and of its retry. `BatchGeneration`: three slots and a budget of two let a replenishment
fail and be replenished in its turn, and let a slot compete with two others for
the budget; two exceptions let one end the loop and one an orphan, or a second loop.
`CONSTRAINT Calm` in `batch` explores nothing behind an early retry or a loop started
beside orphans. That loses nothing: neither is ever undone, the step into it is still
checked, and each property of that run is conditional on `Calm`. The product's values (nine slots, two replenishments) differ only in
the number of equal slots. `Shown = 9` shows every slot of these instances.
`DesignTasks`: two handlers are enough for every race of two, which are the ones
the properties are about (a third handler adds no kind of step); two upsets give
a stop and a resume, or a stop and a dead handler. The theorems of section 4
hold for any number of each, and so remove the doubt for the properties they
state. `CustomerAccess`: two administrators give every race of two changes; four
ticks let an access of two expire and be prolonged past a session.
`LarkReminders`: five hours let a stage with its reminder and one repetition be
interrupted by a pause of each length, and a threshold of two leaves an hour in
which the access ends before the first reminder is due; the scan of the worker and
one administrator are the two writers of a snapshot. `LarkDelivery`: one row of each
kind, since rows meet only in the worker's list of claims; two faults hit a row
again when it has been taken up. `SingleEdit`: one slot makes the two edits wait
for each other; two restarts let one hit what the other resumed.

`parts`: two batches on three styles of up to two images and two templates;
two connections, two requests, up to three policies of each kind; two recipients,
one rule, two requests; three threads and two mishaps; three keys, two versions,
two requests; every one of 24 releases and a fresh database, stopped twice.
`CONSTRAINT Straight` ends the behaviours of the first three at the first overlap
their properties excuse (`skewed`, `crossed`, `clashed`); the step into it is
still checked.

**Symmetry** is used for interchangeable coroutines, handlers and keys, in runs
without liveness properties only.

**Fairness** (`FairSpec`). `CandidateJob`: weak fairness of the loop, of each
run, and of carrying an accepted retry to its scheduling. It is what asyncio does
with ready coroutines; provider calls have timeouts, so a wait always ends; a
processing request is polled by the customer's page, and a poll starts the loop
(`Schedule`). Crashes, escaped exceptions, retries and `Poll` for tokens are not
owed. `BatchGeneration`: weak fairness of the loop and of the runs together; no
exception is owed or ruled out. The candidate's `Settles` is checked without retries,
and `Ends` is about calm requests; what a retry of a processing request does to the
end of the request is the run `neverends`.
`SingleEdit`: weak fairness of every coroutine; that a page polls is not assumed,
since `resume_pending` takes up what a restart left, but an exception that no
clause catches ends the coroutine until a poll or a restart, and `Settles` says
so. `LarkDelivery`: weak fairness of the worker, which goes on after every
exception and is started with the process, and of the ends of leases and delays.

**Calm.** `CalmInv`, `ChargedOncePerReset` and `LogoIffSucceeded` are about calm
histories: every retry was accepted after its request had ended, and no
exception escaped. Restarts are allowed anywhere. That a retry of a processing
request is accepted is a finding, below; `SucceededHasLogo` needs no such
condition. In `BatchGeneration` calm is weaker: exceptions may end loops and
candidates at any point, as long as no loop is started while a candidate of an
earlier one is running. `WithinBudget` and the first half of `EndMatchesLogos` need
not even that.

## 4. What is proved

Assumptions, all evaluated by TLC: there is a run (a handler); 0 is not a key;
`Kie` and `Notify` are Booleans; the bounds are natural numbers, and sets that are
counted or summed over are finite. No bound has a particular value in any proof; the
one hypothesis on a constant beyond its type, `Budget <= 2` in three theorems, is the
constant of the code. Every inductive invariant was first checked by TLC on the
instances of section 3. So were `VisibleIsFirstLogoOrNewest` and
`ActiveKeepsConnection`, which are proved below and which no run repeats.

### CandidateJobProofs

* `TypeCorrect`: `TypeOK`. The inductive invariant `TypeInv` adds `RetryTurn`: a
  retry between its read and its commit holds a failed row, and there is room
  for it within the bound.
* `DeliveredIsThere`: `SucceededHasLogo`, for every interleaving. The status, the
  result and the logo version are set in one commit; `PlainCommit` says that any
  other commit, however stale, that does not write "succeeded" and leaves the
  result alone can neither deliver nor take back.
* `CalmHolds`: `CalmInv`, which is inductive together with `TypeInv`. It is the
  argument for everything calm: there is one coroutine at most (`OneRun`), it
  belongs to the loop of a processing request or to the retry of an ended one
  (`Ownership`), so no one else can have written between its read and its commit
  (`NothingStale`), and the row says how often the provider may have been charged,
  erroneous answers apart (`Charges`). `RunFacts` and `RowFacts` split it by coroutine and row;
  `StepCalm` reduces a step of the one active run to facts about its new state.
* `ChargedOnce` and `DeliveredStaysDelivered`: `ChargedOncePerReset` and
  `LogoIffSucceeded`, from `CalmInv`.
* `AllChargesBounded` (`ChargesBounded`), from `Spending`: all that was charged, the
  erroneous answers included, is at most two for every retry and restart so far, plus
  one for each attempt the one run there is has begun.

### DesignTasksProofs

* `TypeCorrect`: `TypeOK`, with `HandlerInv`: what a handler has loaded exists,
  it has a key where it writes a record, it has a confirmation where it is going
  to replace tasks, and an image where it is going to deliver.
* `RowSteps` is the lemma the rest stands on: in any step records only grow, and
  either no status moves, or one task is accepted, or one is delivered, or an
  adoption commits.
* `OneOpen` (`OneOpenTask`), `KeyOnce` (`KeyCreatesOneTask`) and `Watched`
  (`StageWatched`) come from `TaskInv`. For keys it needs `KeyInv`: the key of
  every task is recorded under the adoption endpoint, so an adoption whose record
  is new has a key no task has. For snapshots it needs `OneOpenTask`: the
  snapshots an adoption stops are all there are, because it loaded the only open
  task or the unique index refuses it.
* `StopWins` (`StopBeatsAdministrator`) and `ReplacementConfirmed`
  (`ConfirmedReplacement`): the two action properties, from `RowSteps` and
  `HandlerInv`.
* `DeliveredKept` (`DeliveredHasFile`): `FileInv` says that the image a handler
  is delivering is on disk, belongs to no other handler and to no task; so a
  losing delivery removes its own file only.
* `PromiseKept` (`KeepsBoardPromise`): `DesignTasks` implements `TaskBoard`, with the
  rows as the board (`Seen`: status, key and image) and the customer as active unless
  stopped. `BoardStep` maps each step: an adoption that commits submits (`AdoptSubmits`),
  an acceptance and a delivery do what they say, a stop or a resume turns the customer,
  and everything else (reads, refusals, opinions, deaths, expiries) leaves the board.
  The handlers act on what they read before, so the steps need the invariants: an
  adoption loaded one task at most, which is then or was unfinished (`LoadedInv`), so
  it replaces one at most; the index on open tasks refuses it unless that is the only
  open one; its key is new because its record is (`KeyInv`); a delivered image is new
  because it is this handler's (`FileInv`). An adoption may replace a task that was
  delivered after the adoption read it, and `TaskBoard` says so.

### PromiseKept: CandidateJob implements CandidateOnce

`PromiseKept` (in `CandidateJobProofs`): with a Kie provider, every behaviour
without accepted retries and escaped exceptions, restarted as often as one likes,
is one of `Once!Safety`, the safety part of `CandidateOnce`, with the tasks behind
erroneous answers as what is wasted. The run `restarts`
checks it with the fairness of the abstract specification
(`KeepsCandidatePromise`). The step that needs an argument is the delivery, which
the abstract candidate may do only when it has been charged: `PaidInv` says that
as long as the provider has made no task, no row, retry or coroutine knows one and
none is at a step behind the submission. That the charge is the only one, and that
no commit reopens a decided row, is `CalmInv`.

### BatchGenerationProofs

* `TypeCorrect` and `Budgeted` (`WithinBudget`): `LoopInv` counts what the loop has
  planned together with what is there.
* `VisibleRight` (`VisibleIsFirstLogoOrNewest`), for every list of rows: the scan is
  a recursive function of the number of rows it has read, and `VisibleShows` says
  what it shows after each. It is an induction, done by the least number of rows at
  which it could be wrong.
* `EndsMatchLogos` (`EndMatchesLogos`) and `NothingLeft` (`NothingLeftRunning`), from
  `LogoInv`, `RetriedInv` and `CalmInv`: while no retry was early and no loop has
  overtaken orphans, every run belongs to the loop, to a loop that has ended and has
  no successor yet, or to one slot retry; and no row is running without a run while
  the loop counts.
* `SlotPaidOnce` (`OneSuccessPerSlot`), `FullSuccessShown` (`FullSuccessFillsSlots`)
  and `ShownStays` (`ShownLogoStays`, an action property) **assume `Budget <= 2`**,
  the value of `REPLENISHMENT_BUDGET` (`batch_prompt_compiler.py:28`). The loop
  replaces `failed_jobs[:remaining_budget]`, failed rows that already have a
  replacement among them; `SlotInv` and `PlanInv` are the argument that with two
  this cannot pay a slot twice: after a first replacement of both failures nothing
  is left, and after a first replacement of one, the only failed rows are of one
  slot. With a budget of three TLC finds `OneSuccessPerSlot` violated. All three are
  about calm requests, with any number of exceptions.

### SingleEditProofs

* `TypeCorrect`: `TypeOK`, with `RunsInv` (only a processing request runs).
* `ChargedAtMostOnce` (`ChargedOnce`, which TLC checks as part of
  `EditsKeepPromise`), for the requests of Kie connections, from `PaidInv`: what the row remembers of its
  submission (the claim, then the task) says how often the service may have made a
  task, at each step of a coroutine and without one.
* `NumberedInOrder` (`NumbersInOrder`), from `NumbersInv`: while one request at a time
  is under way, the newest version a coroutine has read is still the newest.
* `AllChargesBounded` (`ChargesBounded`), for all requests, from `SpentInv`: what was
  charged is at most `MaxTries` per finished run plus the rounds of the current one.
* `PromiseKept` (`EditsKeepPromise`): each Kie request takes only steps of `CandidateOnce`,
  with the creations answered by an error left out of what is charged. `BilledInv`
  makes `PaidInv` exact: from the moment a task is to be recorded, one was charged.

### CustomerAccessProofs and LarkReminderProofs

* `AccessTypesCorrect`; `StopEndsSessions` (`SessionsEndWithStop`) and
  `AdmittedEntitled` (`AdmittedWasEntitled`) from `SessionInv`, which follows a
  session through the requests that have read it: what a stop has found, what was
  being verified meanwhile, and what a visit has seen of the two rows.
* `RemindersTypesCorrect` (`TypeOK`), from `BaseInv`: what a request or the scan holds
  fits its kind.
* `ClocksRun` (`ClockRunsForActive`), from `ClockInv`: without an overlap, the copies
  that the administrators (`FreshInv`) and the scan (`ScanInv`) hold are the stored
  rows.
* `RemindersNotEarly` (`NotEarly`), from `HoursInv`: the hours of access a stage has
  had, and those its snapshot still waits for, are together never less than the next
  reminder needs; frozen or running, stored or held by the scan. It was this proof
  that showed the case of `NoCatchUp` in section 5 to be one of an early reminder
  as well.

### LarkDeliveryProofs

* `TypeCorrect`, and `PostsCounted` (`PostsBounded`) from `OutboxInv`: a card that was
  posted and not yet recorded belongs to the row the worker is at, and is paid for by
  the attempt or the fault that follows.

### PartsProofs

* `StyleRotation`: `BatchesAllocated` (`AllocationFair`), for any number of styles,
  images and templates. `AllocationIsFair` is the correctness of the largest
  remainder method: the rounded-down shares leave fewer images than there are
  styles (`SumTimes`, `SumBelow`), and exactly so many styles come first in the
  order of the remainders (`FirstOnes`). The lemmas on sums over finite sets are
  proved from the definition of `SumFunctionOnSet`, again by least counterexample.
  `TurnsTaken` (`TemplatesTakeTurns`), from `TurnInv`: the templates before the cursor
  have been used once more than those behind it.
* `ModelSettings`: `PoliciesRunAsPublished` (`RunsAsPublished`), `PoliciesKeepConnection`
  (`ActiveKeepsConnection`) from `ModelInv` (a policy, and a publish under way, is
  pinned to a version whose configuration is still the tested one), and
  `PoliciesMoveForward` (`PolicyMovesForward`), an action property.
* `LarkSettings`: `RulesHaveTargets` (`EnabledRuleHasTarget`), from what each editor has
  read (`EditMentions`).
* `AssetFiles`: `WholePreviewStays` (`PreviewStaysWhole`), an action property, from
  mutual exclusion (`WriterHoldsLock`).
* `SavedLogos`: `OneAnswerPerKey` (`AnswerStands`): what was given for a key is what is
  stored for it.
* `Migrations`: `UpgradeKeeps` (`UpgradeLosesNothing`), for any number of stops, on the
  schema of the 24 versions. `UpgradeMakes` says, version by version, that the statements
  a version chooses by what it finds make all it is to make that is not there, and that
  whatever a rebuild drops with its table (`Whole`) is on its list of columns and
  indexes; for the three rebuilds of v0018 that means every column and index that an
  earlier version gave the table. `MigrationsInv` follows the list: a table is dropped
  only inside the transaction and right after its rows were copied, and what is missing
  from the view is still on the list; so the file, which has every statement before the
  transaction and none after it, is always that of a version with possibly more.
  The three indexes of `MayLack` are left out of what is kept (`Left`), since they can
  be lost (section 5); a rebuild of v0018 makes again those it finds.
* The type invariants of the other five (`RotationTypesCorrect`, `ModelTypesCorrect`,
  `LarkTypesCorrect`, `FilesTypesCorrect`, `SavedTypesCorrect`).

### Only model-checked

Liveness (both `Settles`, `Ends`, `Notified`, and the fairness in
`KeepsCandidatePromise`) is beyond the proof system. Every other property of a passing
run is a theorem. The violation is TLC's counterexample. `MigrationsTypeOK` has no
theorem; it says of a concrete schema what TLC tries completely.

## 5. Where the code and its documentation disagree

One run checks a property of this kind and finds a counterexample:

* `neverends` (`EndsAnyway`): "Persist work first, then execute it through an
  app-owned recoverable worker" (`batch_generation_service.py:104`). A slot retry
  accepted while its request is processing runs the row beside the loop, whose
  `_recover_running_jobs` starts it again. One run stores the logo; the other sets
  the row back to running and then inserts a second logo version, which the unique
  `candidate_job_id` refuses. The error ends the loop, the row stays running, the
  next poll starts a loop that recovers it and fails at the same row: the request
  is never finished.

The following were met as well. Each is stated by a definition that TLC finds
violated when it is added to a run of its module; they are kept beside the
properties that hold and have no run of their own.

* `CandidateJob`: `OneTaskPerReset` ("Every selected candidate owns one provider
  task"). It fails already in a calm run without a retry or a restart: the provider
  makes the task and answers with a 5xx or a body that is not JSON
  (`model_provider.py:458`, l.779-846); the claim is given back
  (`batch_generation_service.py:659`), and the second attempt submits and pays again.
  An early retry pays twice as well. The first task is never asked for again; how often
  this may happen is `ChargesBounded`.
  `LogoIffSucceeded` without `Calm`: beside an early retry, a failure is committed over
  a success that was stored after the row was read, which leaves a failed row with a
  logo version. `RetryResetsFailedRow` (the retry validates a row and resets it later, by
  primary key, when it may be running), `AcceptedRetrySettles` ("Persist work first"
  again: a retry of a slot whose request has ended is committed and answered with
  202, and only then handed to a task in memory, `batch_generation_service.py:281`;
  if the process stops before that task has run, the row stays pending, since the
  loop and the polls take up processing requests only. The same call under the same
  key would schedule it again, which no one owes).
* `BatchGeneration`, without `Calm`. After an early retry, or when a poll has started a
  loop over the rows of orphans, two runs work on one row, or a row is counted as failed
  and replaced while an orphan is still going to deliver it. A slot is then paid for
  twice (`OneSuccessPerSlot`), the second success counts towards the target and leaves
  another slot of a full success empty (`FullSuccessFillsSlots`), the logo a slot shows
  is replaced by one of an earlier ordinal (`ShownLogoStays`), the orphan runs on after
  the request has ended (`NothingLeftRunning`), or no loop ever gets past the row
  (`Ends`). For the orphans it takes one exception out of a candidate, such as a full
  disk in `create_generated_logo` or a locked database.
  `EndMatchesLogos` excuses three cases: a retry with a token that is still good after
  its request ended as failed is accepted and pays for a logo that the customer, whose
  page shows a failed request, is not offered; a retry accepted between the count and
  `_finish` delivers a logo in a request that then ends as failed; and a policy or
  connection that is changed before a replenishment ends the request as failed beside
  the logos it has delivered (`batch_generation_service.py:462`).
* `DesignTasks`: `NoOpenBesideCompleted` (an adoption overtakes a delivery and
  opens a task beside the completed one, which v0011 calls invalid),
  `CompletedStays` (a confirmed replacement cancels a task delivered after the
  adoption read it), `LatestOpinionStored` ("Persist the latest customer
  feedback/rating for a delivered task", `customer_decision_service.py:814`: the
  notification of a text has the outbox key of the task and a fixed 0, which is
  unique, so the second text of a task, given under a new key, is refused at the
  commit and lost; it takes an enabled channel and rule, `Notify`),
  `RecordHasFile` ("Remove an uncommitted staged file after a rejected state
  transition", `asset_service.py:107`: the second access check of a delivery comes
  after the asset record was flushed; its refusal deletes the file, the route makes
  an answer of the error, and the session commits the record. Nothing reads it).
* `LarkReminders`: `NoCatchUp` ("without catch-up reminders"): the due query does
  not see the pause the scan has made in memory, so a reminder is queued for a
  customer without access and sent when the access is back. It may also come before
  its hours have passed: when the access ends and the reminder falls due before the
  next scan, the hours in between have counted (`pausedAndFired`, which `NotEarly`
  excuses). `ClockRunsForActive` excuses a scan that an administrator's request overlaps
  (`overlapped`): the worker's pause, read before a resumption and committed after it,
  leaves a snapshot paused.
* `SingleEdit`: `OneEditAtATime`: the lock of `accept` is released before the
  route's commit, so two edits of one logo can be under way, and take one number
  (`raced`). `ChargedOnce` for the requests in `Direct`: a connection of another
  provider than Kie is called without a claim (`single_image_edit_service.py:301`), so
  a round or a restart after the image was drawn pays for another. For a Kie connection
  an erroneous answer costs a task, as above.
* `CustomerAccess`, flag `crossed`: a session whose verification read the access before a
  stop, and which is inserted after the stop read the sessions, is not revoked. It is
  good for nothing while the access is stopped and works again when it is resumed.
* `ModelSettings`: `UpgradeKeepsPublished`: an upgrade of the legacy edit policy
  replaces a policy that was published while it ran. The flag `crossed`, behind which
  `RunsAsPublished` and `ActiveKeepsConnection` say nothing, stands for three more: a
  test that overlaps an update marks the new, untested configuration as verified; two updates at once give one version number to two configurations;
  a delete that overlaps a publish leaves an active policy on a retired
  connection.
* `LarkSettings`, flag `clashed`: two requests at once can leave an enabled rule
  with nobody to mention.
* `StyleRotation`, flag `skewed`: a batch that is refused has moved the cursors, and two
  batches that overlap may move them once and use one combination twice.
* `AssetFiles`: `ShownPreviewIsWhole`: `is_file()` outside the lock finds a preview
  that is being written, and one left by a full disk or a stop is served for good.
* `SavedLogos`: an update to the version it has read writes nothing and answers
  200, though another request has moved the logo in between.
* `Migrations`: `AlwaysServes`: a stop between the bare `CREATE TABLE` of v0006,
  v0007 or v0018 and the INSERT after it leaves a table that every later start
  fails to create. `IndexIsMade`: an index of `MayLack` may be missing for good
  although its version is in the ledger. A stop between the CREATE TABLE of v0005 and its
  CREATE INDEX leaves `generation_candidate_jobs` or `logo_versions` without indexes:
  `checkfirst` passes the table over at the next start, and v0006 and v0007, which make
  the index with a column, find the column there and return. v0022 makes its index only
  in the branch that adds the column, so a stop in between loses it; a stop in v0001
  does, too.

## 6. What is not modelled, and why

* Prompts, snapshots, questionnaire content and the wording of answers are data
  that no property tells apart. A task's key stands for its content.
* `DesignTasks`: time is the Boolean `expired`, because the UPDATE compares with
  an instant sampled earlier in the handler. A feedback request with a text and a
  rating does what the two requests would.
* `CandidateJob` and `BatchGeneration` assume one `BatchGenerationService` per
  process. `get_generation_service` checks and sets it in a thread pool without a
  lock, which can break the assumption at the first two requests after a start.
* The draft of the batch policy and the Lark channel are single rows that the last
  save overwrites. The administrator's login, the encryption of links and secrets,
  the diagnostic files of connection tests and audit events take part in no
  property. Parsing of provider answers is the nondeterministic outcome of a call.
* `Migrations`: the indexes a table has from its first version are not followed one by
  one; a stop right after the CREATE TABLE loses them in the same way as those of
  `MayLack`. That rows violate no unique index a migration makes (v0011 cancels
  such rows first) is data. Foreign keys are not enforced during a start: SQLite
  has them off, and `PRAGMA foreign_keys = ON` inside a transaction does nothing.
* `AssetFiles` has the threads of one process. `scripts/backfill_thumbnails.py` writes
  previews from another, which does not see the lock.
* The reads (lists, details, the spreadsheet export) change nothing. The page store
  holds a copy that the next answer replaces. Rendering, the mocks, the general
  framework `pycore` and deployment scripts hold no state whose interleavings
  matter.

## 7. Plan

Done: the modules of section 2; every safety property and every refinement of a
passing run is a theorem. Left:

1. That a row of `BatchGeneration` moves as one of `CandidateJob` does, as a
   refinement; today the two are related by the code they map.
2. The two coordinators a start can make, over `BatchGeneration`'s loop; the page
   store with late answers.
