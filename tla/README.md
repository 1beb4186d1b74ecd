# Arima Executive OS: verification

TLA+ models of the concurrent parts of this backend, their model-checking
configurations, and machine-checked proofs. The application is a FastAPI
service over PostgreSQL (SQLAlchemy, asyncio): every HTTP request runs in a
database session of its own, and what makes it hard is what several sessions do
to the same rows. The repository's audit says of it "Database concurrency is not
proven" (`src/reports/stage1-production-evidence-audit.md`, "the repository
contains no concurrency test or production database isolation proof"), and its
tests run one request at a time on SQLite, where `FOR UPDATE` does nothing.
That is the gap this project fills.

- [1 Inventory](#1-inventory)
- [2 Modules and plan](#2-modules-and-plan)
- [3 Withdrawals](#3-withdrawals)
- [4 Trades, deposits and the ledger](#4-trades-deposits-and-the-ledger)
- [5 Background schedules](#5-background-schedules)
- [6 Agent runs and approvals](#6-agent-runs-and-approvals)
- [7 Voice sessions](#7-voice-sessions)
- [8 How a call is carried out](#8-how-a-call-is-carried-out): background jobs,
  orchestration, Telegram, market quotes
- [9 Outreach](#9-outreach)
- [10 Sign-in and registration](#10-sign-in-and-registration)
- [11 Conversations, sales records, caches](#11-conversations-sales-records-caches)
- [12 Projects, reminders, documents](#12-projects-reminders-documents)
- [13 Risk gate and Microsoft account](#13-risk-gate-and-microsoft-account)
- [14 Schema migrations](#14-schema-migrations)
- [15 What the runs show](#15-what-the-runs-show)
- [16 What is proved](#16-what-is-proved)
- [17 Where the code differs from what it says](#17-where-the-code-differs-from-what-it-says)
- [18 What is not modelled](#18-what-is-not-modelled)

Paths below are relative to `src/app/`.

## 1 Inventory

For each part that is modelled: its state; its operations; what it talks to;
what is hard; what makes it correct.

| part | state | operations | interacts with | hard | correct when |
|---|---|---|---|---|---|
| **Withdrawals** `services/operations.py`, `api/v1/routes/withdrawals.py` | `WithdrawalRequest` rows, one circuit breaker row per workspace, release postings | create (with retry), transition, customer cancel, circuit change | ledger (reservation and release), e-mail, audit | lock order, a check before the lock, idempotency keys, a breaker that trips meanwhile | reserved money = open requests; table followed; nothing approved through an open circuit |
| **Trades, deposits, ledger** `services/trade_accounting.py`, `services/deposit_accounting.py`, `services/ledger.py` | accounts and their entries, positions, settled trades | record, reverse, deposit, transfer between buckets | one another through accounts and positions | read-compute-overwrite of positions; reversals that restore an old position; deadlocks | every commit is one whole operation on the tables as they are; positions and balances are the sum of the live trades |
| **Background schedules** `services/background_execution.py`, `background/scheduler.py`, `background/dispatcher.py` | schedule rows that hold the schedule twice (columns, JSON definition) | create, update, pause, resume, cancel, poll | job runner | no lock anywhere; a poll works on rows listed earlier; crash between two commits | operators are not overruled; counts and maxima mean something |
| **Agent runs, approvals, tool executions** `services/agent.py`, `execution/`, `intelligence/workflow.py`, `voice/orchestration.py` | runs, approvals, executions, messages, and the objects each session holds | execute, resume, cancel, workflow; client changes of runs and approvals | providers, tools, conversations | many commits per call, stale objects behind row locks, approvals decided meanwhile | protected tools wait for their approval; refusals stand; runs are not left running |
| **Voice sessions** `voice/gateway.py`, `voice/session.py`, `voice/state.py` | one row per session | transcript (claim, recover, answer, fail), interrupt, cancel | orchestration, agent runs | check and write without a lock, timeouts, takeover of stale sessions, vanished requests | one transcript at a time; nobody leaves the session busy |
| **Job runner** `background/runner.py`, `background/policies.py` | one execution row with its attempts, the monitor's counters, the set of cancelled correlation ids | run, retry_execution, cancel | tools, integrations, agents, which commit the runner's session | the timeout is judged after the work is done; a success whose commit fails | attempts within the policy; work only with permission and approval; the row tells the attempts |
| **Orchestration** `orchestration/` | none between calls; evidence, executions and answer of one request | route, plan, approve, execute, model with native tool calls, validate | tools, market data, weather, providers, voice | retries of what had an effect, a deadline anywhere, the caller's commit after a failure | only confirmed calls reach a handler; an answer cites what there is; every request ends |
| **Telegram** `telegram/service.py` | one row per update, identities | process, verify, revoke, mark_delivered | agent workflow | three commits per delivery, redeliveries at once, revocation meanwhile | each update worked on once, for its owner |
| **Market data** `market/` | none between calls | current price over several providers | providers | answers that arrive late, a clock that runs on | only fresh prices of verified and entitled providers |
| **Outreach** `services/outreach.py`, `database/repositories/outreach.py` | drafts, approvals, queue items, sequences, campaigns, enrolments, events | edit, approve, schedule, claim and send, launch, enrol, record an event | mail providers, notifications | `SKIP LOCKED` claims, one commit after many sends, leases that expire | one worker per lease, one send per claim, nothing gated goes out undecided |
| **Sign-in** `auth/service.py`, `auth/tokens.py`, `database/repositories/refresh_token.py` | families of refresh tokens, one-time links | log in, refresh, log out, revoke, reset, verify, change e-mail | e-mail | a child inserted while a sweep looks; two uses of one token | one live token per family; a link works once |
| **Registration** `auth/service.py`, `auth/roles.py`, `auth/security.py`, `intelligence/access.py` | roles, accounts, workspaces, grants, rate buckets | register; change of the default agent | e-mail, agents | seeding of shared rows in several transactions | limit kept; whole accounts; no circle of waiting |
| **Agents and conversations** `services/agent.py`, `database/repositories/agent.py` | agent definitions, conversations, messages | create, archive, activate, disable, make default, append | agent runs | two defaults at once, concurrent appends, a close under an append | one default; numbers in commit order; closed is closed |
| **CRM** `services/crm.py`, `database/repositories/crm.py` | pipelines, stages, deals, leads | all changes of these; conversion of a lead | caches, notifications | locks of several rows, deletion under a move | a converted lead has one deal; deals stand in live stages |
| **Read caches** `services/cache.py`, `services/analytics.py` | cached views, their generation | get, compute, set, invalidate | CRM and the other writers | a computation that spans an invalidation | no dashboard older than its last invalidation |
| **Projects and tasks** `services/project.py`, `services/task.py` | projects, tasks | create, update, move, delete, archive | notifications | rows locked one after another | an archived project is frozen; active names differ |
| **Notifications** `services/notification.py` | notices with unique keys | the reminder jobs, read, delete | tasks, CRM | savepoints inside a transaction, jobs that die | each due date told once |
| **Documents** `services/documents.py`, `services/document_storage.py` | document rows, bucket objects, access log | upload, status, look, download | bucket | object and row are not one transaction | a row has its object; what is shown is logged |
| **Risk gate** `services/trading_contracts.py`, `services/risk_contract.py` | decisions by key, audit rows | evaluate | circuit breaker | a stop between the check and the commit | nothing approved, each key decided once under the circuit it names |
| **Microsoft account** `integrations/microsoft.py`, `integrations/microsoft_graph.py` | OAuth states, credential rows | authorize, callback, disconnect, call with renewal | Microsoft | no lock, read and late write | a consumed state admits no new callback; a disconnect is not undone |
| **Schema migrations** `database/migrations/`, `database/models/` | the schema and the records in it | upgrade, downgrade, by one transaction | the running release | downgrades with data, refusals, a release that writes meanwhile | a revision has one schema; head is the mapped classes; history is not deleted |

Not modelled (section 18 has the reasons): quant evidence and research,
intelligence ingestion and retrieval, integrations and tools, model providers,
e-mail delivery, founder control and portfolio summaries, experience events,
HTTP plumbing and configuration.

How the modelled parts meet. Withdrawals and trades share the ledger: the
reservation of a withdrawal is an operation of `TradeAccounting` too
(`Reserve`), so that its account lock is checked against trades. Voice sessions
call an orchestration that is, with its run, an attempt of `AgentRuns`; the
pipeline inside that call is `Orchestration`. A poll of the schedules calls the
job runner (`JobRuns`), whose jobs call agents, tools and integrations. Telegram
calls the same workflow as the voice gateway. In all these cases the caller's module
keeps the outcomes of the call (returns, asks, raises, never returns). Sequences
make drafts for the outreach queue: those two modules are composed
(`OutreachNext`). CRM writers invalidate the read caches; the cache module has
writers that commit and then invalidate. The migrations run against every record
the other parts write.

The hazards, each at its line and with the properties that cover it, are listed
in `PROJECT.json`.

## 2 Modules and plan

| module | is | uses |
|---|---|---|
| `WithdrawalStates` | statuses, transition table, request records | |
| `WithdrawalBook` | abstract specification of withdrawals: no handlers, no locks | `WithdrawalStates` |
| `Withdrawals` | the handlers with their row locks | `WithdrawalStates`, instantiates `WithdrawalBook` |
| `TradeRules` | the arithmetic and the conditions of a trade, a reversal, a posting | |
| `TradeBook` | abstract specification of accounting: one operation at a time | `TradeRules` |
| `TradeAccounting` | the handlers with their lock plans | extends `TradeBook`, which it implements |
| `BackgroundSchedules` | rows, one poll, operators | |
| `AgentRuns` | attempts with stale objects, clients | |
| `VoiceSessions` | one session and its requests | |
| `JobRuns` | the job runner, its executions and attempts | |
| `Orchestration` | one request from its route to its committed answer | |
| `TelegramUpdates` | updates, deliveries, identities | |
| `MarketQuotes` | a price asked of one provider after the other | |
| `SendItem` | abstract specification of one queued message: claims and outcomes | |
| `OutreachQueue` | drafts, approvals and the workers of the send queue | |
| `OutreachSequences` | sequences, campaigns, enrolments, events | extends `OutreachQueue`, instantiates `SendItem`, which it implements |
| `AccountSessions` | families of refresh tokens, mailed links | |
| `Registrations` | the rate limit, seeding of roles, new accounts | |
| `Conversations` | agents, their default, numbered messages | |
| `Crm` | pipelines, stages, deals, leads | |
| `ReadCaches` | readers, writers and two caches | |
| `WorkItems` | projects and tasks | |
| `DueNotices` | the reminder jobs | |
| `CustomerDocuments` | rows, bucket and access log | |
| `RiskGate` | the gate in front of executions | |
| `MicrosoftAccess` | one user's Microsoft credential | |
| `SchemaRevisions` | what each migration does, as data | |
| `DataModel` | the tables of the mapped classes | extends `SchemaRevisions` |
| `Migrations` | a database that is migrated under a running release | extends `DataModel` |
| `MC*` | instances for TLC; `MCCalls` and `MCWorkspace` put several modules side by side | the modules of their names |
| `FiniteSums` | what sums over finite sets add up to, for the proofs | `FiniteSetTheorems` |
| `*Proofs` | theorems; `OutreachProofs` is about `OutreachSequences`, `WorkspaceProofs` about the other modules of `MCWorkspace`, `CallsProofs` about `VoiceSessions` and the modules of `MCCalls` | `TLAPS` |

The order was: money (withdrawals, then trades); what acts without a user
watching (schedules, agent runs); voice; then what a call does on its way
(jobs, orchestration, Telegram, quotes); then the records of a workspace; the
schema under all of them. What the plan has left:

1. the composition of `JobRuns` with `BackgroundSchedules` and of
   `Orchestration` with `AgentRuns`, where the caller now keeps outcomes;
2. abstract specifications of jobs and of Telegram requests, and proofs that
   `JobRuns` and `TelegramUpdates` implement them;
3. agent memory, and the roles and MFA of accounts, as small modules of the
   kind of `Conversations`;
4. the figures of the risk engine (`services/risk_contract.py`) as operators
   against a reference definition.

Conventions. A module's name and those of its actions follow the code; one
action is what one session does between two points at which another session can
see or change something (a commit, a lock it may wait for, an unlocked read). A
definition called "Faulty variant" in its comment is used by no specification:
it is the change of the code that the property next to it is there to catch. A
property called `...Safe` is the conjunction of a module's type invariant and
its safety properties, each defined, named and commented above it.

## 3 Withdrawals

State. `requests[k]` is the `WithdrawalRequest` row with idempotency key `k`,
`circuit[w]` the breaker row of a workspace (it may be missing), `available`
and `reserved` the two buckets of a user's account as `LedgerService.balance`
sums them, `releases` the idempotency keys of the posted releases, `txn[p]` the
open transaction of handler `p`. Which rows `p` has locked follows from how far
it has come (`HoldsCircuit`, `HoldsAccount`, `HoldsRequest`, `HoldsSlot`); the
last is the slot of the unique index that an uncommitted insert owns.

| action | code |
|---|---|
| `BeginCreate`, `LockCircuit`, `Reserve`, `InsertRequest`, `CommitCreate` | `_create_once`: circuit `FOR UPDATE`, key looked up and balance compared unlocked, account `FOR UPDATE` in `transfer_bucket`, insert, commit |
| `BeginTransition`, `LockRequest`, `LockApprovalCircuit`, `Release`, `CommitTransition` | `transition` from the operations route |
| `BeginCancel` | the cancel route, whose `session.get` loads the row before `transition` locks it: `seen` |
| `BeginChangeCircuit`, `LockBreaker`, `InitBreaker`, `CommitBreaker` | `change_circuit` |
| `Abort` | any error: rollback. With the retry of `create` it is another `BeginCreate` with the same key |

`Release` of the ledger checks the reserved bucket and posts under the key of
the request and target, so a second release of the same kind by the same actor
is a no-op and one by another actor is refused.

**Bounds.** Two handlers, two keys, one or two customers and workspaces, funds
of 3 for amounts of 2: two open requests never fit, so a wrong reservation
shows. Two handlers are every pair of operations at every pair of steps;
more are covered by the proofs. `CancelActors` says who uses the cancel route:
nobody in `withdrawals_founder`, the customer in the other two.

**Fairness** (`FairSpec`, only for `HandlersFinish`). `SF_vars(Progress(p))`: a
handler waiting for a row lock is enabled each time the row is free and disabled
each time another takes it. PostgreSQL queues the waiters of a row, so one that
could go on again and again eventually does: that is strong fairness. `Arrive`
and `Abort` are not fair.

**Inductive invariants.** `SafetyInv`: locks are exclusive, and what a
handler found true under a lock (circuit enabled, amount within the bucket, no
request under that key) is true as long as it holds it. Neither is inductive
without the other: exclusion makes other handlers' commits leave the checked
rows alone. `NoOverdraft` needs just that. `BookInv` adds that a decision is
still the table's (`DecisionsFresh`) and that releases and closed requests
correspond. `DecisionsFresh` is what the cancel route breaks, so the theorems
that use it have `CancelActors = {}` as a hypothesis, and say so.

## 4 Trades, deposits and the ledger

`TradeRules` holds the arithmetic: what a trade does to the four accounts
(`Settle`), to the position with its average cost and realized profit
(`After`), when it is accepted (`CanRecord`), and when a reversal is
(`CanReverse`: the position looks like what the trade left, and the account it
debits has the money). Average cost and realized profit are counted in units of
`1/Scale`, and the code's rounding of the average at 18 places is a `\div` there;
the instances choose a `Scale` that makes their averages whole.

`TradeBook` applies these one at a time. `TradeAccounting` has the same tables
and, per handler, an operation with a **lock plan**: the sequence of row locks it
takes (`RecordLocks`, `ReverseLocks`, `DepositLocks`, `ReserveLocks`), how many
of them come before the decision (`Reads`), and what it read (`view`). A ledger
entry's foreign key takes `FOR KEY SHARE` on its account: `Shared` locks, which
only conflict with `FOR UPDATE`. The commit **overwrites** the position with
values computed from `view` but **adds** entries to the accounts as they are,
as the code does; that both come to one operation of the book is the refinement.

`TradesExplainPositions` is the types, `PositionMatchesTrades` (a position is what
its live trades add up to) and `ReversedByOne` (one reversal per trade);
`BalancesHold` is `NeverNegative` and `BalanceMatchesTrades`. `PositionMatchesTrades`
deserves a word. A reversal does not subtract its trade:
it writes back the position stored before it, and is admitted because the
position looks (in quantity, average and profit) like what the trade left. Other
trades and reversals can bring that look back. The property says that even then
the position is what the live trades add up to.

**Bounds.** `trades_book`: five trade keys, so that a history can record,
record, reverse, record again and reverse the first; two pairs, one of which
pays in the asset the other buys; fees. `trades_concurrent`: two handlers, three
trade keys, and a deposit or reservation of one customer; a second customer on the
opposite pair, at one price and with two keys in use (`CalmTrades`). Rows exist
from the start: the first creation of a portfolio, position or account (where
two sessions may both insert) is left out.

**Waiting.** `NoWaitCycle`: requests with different keys wait for each other in a
circle only while the pairs they trade on go round (`PairsGoRound`: the base of each
is the quote of another of them). So the orders of the locks agree on every row but
the clearing accounts, and there too for pairs that only follow each other. Two
customers on opposite pairs do reach a circle, in the run within a few steps: they lock
the clearing accounts in opposite orders (`services/trade_accounting.py:131`). The other way to deadlock, left out by
"different keys", is a trade and a reversal under one key, which take key and accounts in
opposite orders. PostgreSQL aborts one, and the client sees an error: unlike a withdrawal,
a trade is not retried.

**Inductive invariant.** `AccountingInv` = types, exclusive locks, and
`DecisionsHold`: what was decided is still so (`ViewHolds`). The proof's frame is
stated once: a step that leaves alone the rows a handler has locked keeps its
view (`FrameKeepsViews`), and a commit changes only rows it has locked
exclusively, or adds to accounts that it has at least share-locked, which no
decision of another handler then rests on.

## 5 Background schedules

`row[s]` has the columns and the definition, `poll` the listed rows as loaded
(`seen`), the ones to do and the current one, `op` the one operator request that
has loaded a row and not committed. Nothing is locked; a commit writes the columns
whose value the session changed (`Merge`), as SQLAlchemy's unit of work does:
two sessions that changed different columns both win, for the same column the
later commit does. `Complete` is the runner's own commit of the execution,
`Advance` the later commit of the schedule: a crash may fall between them.

The calendar is reduced to a positive period (the repeating kinds differ in how
they write it down), a schedule's job never changes, and there is one poll at a
time, in a session of its own: `execute_due_jobs` has no caller in the
application besides its tests, so nothing in the code says otherwise. Failed
jobs, unknown jobs and refused permissions end the poll with an exception
(`Fail`, `Refuse`), as the code does.

**Bounds.** Two rows, because the second is decided on after the first has run;
a limited repeating definition and a one-time one; two instants; two completed
runs. `OneMishap` is a state constraint of the run: at most one crash or one
replaced definition in a behaviour. The properties concern safety only, so the
constraint cuts off behaviours and distorts none.

**Why the invariants are strengthened.** `AtMostOneStrayRun` is inductive only
with: a row not waiting in the poll and switched off cannot run
(`StraysBounded`). `WithinMaximum` needs that columns, definition and the poll's
copy agree on counts and maxima (`MaximumKept`): without a replaced definition no
operator writes these columns, so the merge cannot mix them.

## 6 Agent runs and approvals

An **attempt** `t` is one call of `execute`, `resume` or `cancel`, or one
workflow that creates its run. It commits many times. The heart of the model is
what its session holds: `view[t]`, the status of the run object, and `seen[t]`,
the approvals loaded with it. SQLAlchemy does not refresh a loaded object when
a query, `FOR UPDATE` included, returns its row again; only
`AgentRepositoryBase.update`, which refreshes explicitly, does (`Hold`). So
`Transition` judges a move on `view[t]` and writes the row. A client request is
a fresh session with one locked transaction and is one action.

| actions | code |
|---|---|
| `BeginExecute`, `Start`, `SelectProvider`, `ProviderUnavailable`, `Answer`, `Complete`, `Fail`, `Wait` | `ExecutionEngine.execute` and its handlers |
| `BeginResume`, `Resume` | `ExecutionEngine.resume` |
| `BeginWorkflow` | `ExecutiveWorkflowService.execute_briefing`, `DurableVoiceOrchestration` |
| `CallTool`, `RequestApproval`, `AwaitApproval`, `ApprovalRefused`, `ToolRejected` | `ToolExecutionEngine` |
| `BeginCancel`, `ListApprovals`, `CancelApproval`, `ListExecutions`, `CancelExecution`, `CancelRefused`, `CancelRun` | `ExecutionEngine.cancel`, one commit per row |
| `CreateRun`, `PatchRun`, `PostApproval`, `Lapse`, `Decide`, `Expire` | the routes of runs and approvals, and the clock |
| `Crash` | the process dies between two commits |

Abstracted: all runs belong to one conversation, permissions are granted, which
tools need approval is fixed (`Gated`), the wait for a row lock inside one
transaction is not seen, and tokens, cost, timestamps, notifications and audit
rows are left out.

**Bounds.** One run, two attempts, one gated and one free execution, one approval
that either side may create. Two attempts are enough to make any held object
stale; the proofs are for any number.

`RunsSafe` is the types, `ToolsWaitForApproval` and `OutputWasWritten`.

**Inductive invariants** (in `AgentRunsProofs`). `GateInv`: whatever the row or
an object held by a session shows as approved is in `granted`, and a granted
approval and a called execution exist, so that what they belong to no longer
changes. `OutputInv`: an attempt in "written" has its
message committed. `ClaimInv`, behind `NoRunIsAbandoned`: if an attempt was
the last to write "running" and the row still says so, then the attempt is in
flight and its object says "running" too, so that every handler's guard lets it
move the run on.

## 7 Voice sessions

One session row (`state`, `transcript`, `response`) and any number of requests.
`VoiceSessionStore.update` reads the row, validates the transition, reads it
again and commits: `Accept` (or `Reject`) and `Write` are two actions, with
everything in between. `Claim` and `Recover` are single conditional `UPDATE`s
and are one action each. `plan[r]` is what request `r` has yet to write: an
orchestration writes "thinking", calls, and then writes one of `Outcomes`.
`Inspect` is the handler that resets a failed session; it may itself be rejected.

`Stale` is where time matters. A session is taken over when it has been
"thinking" for longer than `stale_session_timeout` (1800 s by default, at least
60 s); the call that wrote it is cut off after the execution timeout (7 s by
default, at most 60 s). The model draws the conclusion: when a session is stale,
no request is inside its call or its `except` clause. The two limits meet at 60 s
only if both are configured to the extreme. A vanished request (`Vanish`) leaves
the session for `Recover`.

**Fairness.** `WF_vars(Proceed(r))` per request: the event loop runs a task that
can go on. `Proceed` contains `Deadline`, because `asyncio.wait_for` fires whether
or not the awaited call ever returns; `Return` and `Raise`, which are up to a
provider, are not fair. Without the deadline `ServiceEnds` fails.

**Bounds.** Two transcripts compete for the claim, an interrupt and a cancel cross
them: every pair of routes.

**Inductive invariants.** `Shape` = `TypeOK` and `PlanInv`, which plan a request
can have in which phase. `WorkInv` names the worker of a busy session as a
transcript past its claim. `OwnerInv`: as long as no interrupt or cancel was
sent, a served transcript owns the row, and its next write is legal where the
session stands. It is one invariant for three properties, because legality
of the next write is what keeps a transcript from being rejected in the middle.

## 8 How a call is carried out

Four modules, one per way into the system, checked together by the run `calls`:
`part` in the initial state says which of them moves.

### Background jobs: `JobRuns`

`BackgroundJobRunner` has one database session and runs one request after
another; `cancel` is called by other tasks in between. `held[x]` is the
execution row in that session, `saved[x]` its status in the database: the two
differ because the runner commits at the end only, while the services a job calls
commit the same session as they work. `worker` is the job under way.

| actions | code |
|---|---|
| `RunNow` (`Refuse`, `Begin`) | `run`: permission, approval, the row, the monitor |
| `StopCancelled`, `Invalid`, `StartWork`, `Work`, `WorkRaises` | one attempt up to the result of its plan |
| `TooLate`, `Succeed`, `SuccessIsLost` | the judgement after the work: the timeout, the commit and its failure |
| `NextAttempt`, `Settle` | the retry policy, the verdict of the last attempt |
| `Abandon` | the task is cancelled or a flush outside an attempt fails |
| `RetryExecution`, `Cancel` | `retry_execution`, `cancel` |

The timeout is compared with the time the plan took *after* it has come back. So a
late attempt has done its work, is recorded as failed, and is done again by the
retry. `WorkIsAccountedFor` says what remains true: at most one piece of work per
attempt, never for a dry run, never without permission and approval, never in an
attempt that began after the cancellation. `MonitorCounts` is the exact account of
`active_jobs`, its two leaks included. Bounds: two executions (one to be retried as
the other), two attempts, five requests that differ in approval, permission, dry
run and target.

### Orchestration: `Orchestration`

One request in `OrchestrationPipeline.execute`: `stage` is where it is, `tries`,
`round` and `pending` are the state of the retry loop and of
`NativeToolLoop.complete` inside it, `evidence` the ids an answer may cite,
`executions` the log of this try and `recorded`/`kept` the rows in the session and
those committed. The deadline (`DeadlinePasses`) may cut off any awaited operation,
also after it had its effect. The caller commits the session of a request that
failed, with whatever is pending in it.

`CallsWereConfirmed`: whatever calls the model invents, only confirmed writes and
confirmed and guarded destructive calls reach a handler, and nothing in a
gated plan. `RowsTellCalls` ties the committed rows to the calls that were made;
with a retry they tell less, because the loop starts over and forgets.
`AnswerIsBacked`: a statement about the system's state cites evidence of this
request. `EveryRequestEnds` needs `WF` on `PipelineStep`: every awaited operation
comes back, raises, or is cut off by its deadline or by the timeout of its client.
Bounds: one retry, two rounds, one call a round, five plans (live tools, gated and
not, with and without native tools), four calls that cover each action and an
unknown tool.

### Telegram: `TelegramUpdates`

`messages[u]` is the row of an update, `delivery[d]` a call of `process` with its
three commits (`Insert`; `Authorize`, which marks the message processing; `Complete`
or `FailUpdate`) and its replays,
`identities` the bound senders, `clerk` the verify and revoke requests that read
without a lock and write the columns they changed. Deliveries may come at once and
die anywhere (`Die`). `WorkedOnOnce`, `NoMessageIsDropped` and `AnswersBelong` are
the safety; `AcceptedUpdatesEnd` needs `WF` per delivery and excuses updates whose
delivery died: the code leaves those as they are for ever (section 17). Bounds: one
update in two payloads, two deliveries, two users.

### Market quotes: `MarketQuotes`

`gateway` walks over the providers in order: local gate, usage, catalogue, one quote
per configured instrument, record, price. `clock` runs while answers are under way,
`member` may be lost. `AnsweredQuoteIsGood`: what is answered is of an admitted and
fully verified provider, was fresh when it was asked for and is not from later than
that. `OnlyScopedProvidersAreCalled` and `EveryFallbackIsTried` are the order. All
providers are modelled as Twelve Data. Bounds: three providers (good, out of scope,
without a key), two instruments, a clock of 0..2 with staleness after 1.

## 9 Outreach

**State.** Per draft `d`: `draft[d]`, `approval[d]`, `item[d]` (the queue row),
`execution[d]` (the row of the sequence step). `batch[w]` is the session of a
worker: the items it claimed, which of them it has tried, and the outcomes it has
not flushed or not committed. `handed[d]` counts what the provider was given.

| actions | code |
|---|---|
| `CreateDraft`, `ScheduleDraft`, `RequestApproval`, `DecideApproval` | the routes: one locked transaction each |
| `ClaimQueue` | `claim_queue`: `SKIP LOCKED`, lease, attempts counted, its own commit |
| `Try` (`MailboxUnavailable`, `RateLimited`, `ProviderUnavailable`, `Send`, `SendFails`), `Flush`, `CommitQueue` | `process_queue`: all outcomes in one commit |
| `WorkerDies`, `Tick` | the process ends; time, on which leases and retries rest |
| `BeginStep`, `CommitStep`, `BeginLaunch`, `CommitLaunch`, `LaunchFails` | steps added under the sequence's lock, a launch without it |
| `Enroll`, `PauseEnrolment`, `ProcessEnrolment`, `RecordEvent` | `process_enrollments`, the enrolment routes, automations |

**Properties.** `OneWorkerPerLease` (items whose worker outlived its lease are
excluded, and section 17 says why), `HandedPerClaim` (a claim gives the message to
the provider at most once, crashes and takeovers included), `SentWasHanded`,
`GatedWaitsForDecision`, `StepsMadeOnce`; and `LaunchedStepsStay`, an action
property: a sequence that was launched keeps its steps although the launch reads
without a lock.

**Refinement.** `SendItem` is what the queue promises of one message, with no
workers, leases, clock, or batches: a claim settles on an outcome, outcomes come from open
claims, a message that ended is not claimed again. `OutreachSequences` maps to it
for a message `AnyDraft`: its row's status, its attempts, the number of workers
that hold it untried, the number that hold an outcome of it. `ImplementsSendItem`
is checked for every behaviour of the queue and of the sequences. An overtaken
worker's late outcome is allowed by `SendItem` (`Record` of an open claim): that
is what the code does.

**Bounds.** Two workers, two drafts of which the second is idle where there are several
claims (`OneDraft`, `CalmQueue`), two claims per item, a lease of one tick, a daily
limit of one, two positions of which one is gated, one contact, event and editor.
Several workers and claims are the matter of the queue; with sequences on top there is
one worker. `process_queue` and `process_enrollments` have no caller in the
application, so nothing in the code limits their number.

## 10 Sign-in and registration

### Sessions: `AccountSessions`

`family`, `parent`, `revoked` are the refresh-token rows, `link[l]` the one-time
links, `txn[r]` a request's transaction. PostgreSQL's READ COMMITTED `UPDATE` takes
the rows of its snapshot, waits for the locked ones and looks at each again: here a
snapshot (`targets`) and one later step (`EndSweep`). A child inserted in
between is not in the snapshot.

| actions | code |
|---|---|
| `Login`, `Refresh`, `IssueChild`, `RefreshReused` | `login`, `refresh_token_pair` with the reuse of an old token |
| `LogOut`, `LogOutAll`, `RevokeSession`, `ChangePassword`, `EndSweep` | log-outs and the revocations of other operations |
| `VerifyEmail`, `ResetPassword`, `ConfirmEmailChange` | consumption of a link |
| `ResendVerification`, `RequestPasswordReset`, `RequestEmailChange`, `InvalidateActive`, `LinkSent`, `LinkNotSent` | issue of a link: the older ones invalidated, the mail sent before the commit |
| `RollBack` | any error |

`OneActiveToken`, `RotationIsAChain`, `LinksUsedOnce` hold because a refresh locks
its token and a link is consumed under its lock. That *log out everywhere* may leave a
token of a refresh in flight alive is the code's behaviour (section 17) and not
excluded. Bounds: three tokens, two families, two requests, two links, together at
most four rows, the third token only while no link is issued (`CalmSessions`).

### Registration: `Registrations`

A request is two transactions. The first increments the rate-limit bucket of the
window and commits before the count is judged. The second looks the address up,
inserts each missing one of `DEFAULT_ROLES` in order in a savepoint, inserts account,
tenant, workspace and membership, reads the default agent unlocked, inserts the
grant (which key-shares the agent row), mails the link and commits. Inserts wait for
another insert of the same unique key under way. `LockTarget`, `LockDefault`,
`CommitDefault` are the change of the default agent that the grant meets.

`WithinHourlyLimit`; `NoCircularWait`, which rests on the roles being inserted in
one order; `AccountsAreWhole`: an account's role stands even if the registration
that was inserting it rolled back, and its link was mailed; `DuplicatesExist`, for
"do not ... misclassify an unrelated persistence failure as a duplicate email".
Bounds: two registrations at once of three in all, two addresses, two windows, a limit
of two; in the second hour requests come one at a time, and the default changes
while at most one is under way (`CalmRegistrations`).

## 11 Conversations, sales records, caches

### Conversations

`agentStatus`, `defaults` are the agent definitions, `conversation` and `numbers`
the conversations with the sequence numbers of their messages in commit order,
`turn[p]` a request's transaction. `SetDefault` locks the candidate (`candidate`), then the
defaults its SELECT found (`FindDefaults`, `swap`), and commits (`MoveDefault`) or
runs into the unique index (`DefaultRefused`); `ArchiveAgent`, `DisableAgent` lock one
row. `WriteMessage` locks the conversation, `NextSequence` reads the largest number,
`CommitMessage` writes. `OneDefault`: there is one active default and once there is
one there always is; `NumberedInOrder`: who has read up to a number never finds a
smaller one later; `ClosedIsFinal`. Bounds: two agents, one conversation of two
messages, three requests at once.

### Sales records: `Crm`

`pipelines`, `mainPipelines`, `livePipelines`, `stageOf`, `stageKind`, `deal`,
`lead`, and per request `desk[k]`, the record it has locked. An operation that
takes its locks in one statement is one action. Those that lock a record and then its
stage and pipeline are split: `LockDeal` with `UpdateDeal` or `MoveDealStage`,
`BeginUpdateLead` with `UpdateLead`, `BeginConvertLead` with `UsePipeline` or
`UseNewPipeline` and `ConvertLead`. `CrmRollBack` is a refusal in between or a
deadlock victim. `ConvertedOnce`, `DealsStandInStages`, `StatusFollowsStage` (stages
whose own kind was changed afterwards are excluded: section 17). Bounds: one lead,
two deals, pipelines and stages, two requests, three statuses of leads, three
changes of pipelines and stages; the second deal is left out once these are used up
(`CalmCrm`).

### Read caches: `ReadCaches`

A reader looks (`Miss`), computes from the database (`Compute`) and stores later
(`Store`); a writer commits (`Write`) and invalidates one cache after another
(`Invalidate`); entries expire (`Lapse`). `data` counts the commits, so a view is
the number it was computed from. `DashboardFresh` holds because the dashboard's
readers pass the generation they computed from. The CRM cache has no such check and
may store an older view: it is in the module, and no property claims more of it.

## 12 Projects, reminders, documents

### Projects and tasks: `WorkItems`

Rows with explicit locks: `locked[row]`. A request that changes a task locks the
task (`LockTask`), by the join its project (`LockProject`), and for a move the destination
(`LockDestination`), then commits; names are checked (`CheckName`) and guarded by a
unique index (`NameConflict`). `ArchivedStaysFrozen`: what an archived project holds
never changes again, however a move overlaps the archive; `ActiveNamesDiffer`;
`CompletionHasItsTime`; `CommitsWhatItRead`. Two opposite moves deadlock, and
`RollBackWork` is the victim. Bounds: two projects with a task each, a third project
still to come, two requests at once of three in all (`WorkStart`).

### Reminders: `DueNotices`

A job lists what is due (`BeginTaskJob`, `BeginCrmJob`), inserts one notice per item
in a savepoint (`InsertNotice`), looks a duplicate up again (`Duplicate`, `Skip`,
`GiveUp`), and commits all (`CommitNotices`). Users read and delete, items are
completed, jobs die. `ToldOnce`: a due date is told once, and again only after the
user deleted it; `NothingIsDropped`; `JobsNeverCross`. Bounds: two task items and one
sales item, dates 0 and 1, one deletion per key, two jobs; one item completed and
notices read one at a time or all (`CalmNotices`).

### Documents: `CustomerDocuments`

`FlushRow`, `Put`, `CommitUpload` are an upload over row, bucket and commit, with
`PutFails`, `CommitUploadFails`, `CleanUp` and `UploadDies` in every gap;
`Look`, `Fetch`, `RecordAccess`, `Answer` a reader. `FoundDocumentsHaveTheirObject`:
an object without a row may be left, a row without its object may not;
`ShownIsLogged`. Bounds: two documents, one reader, who may be the customer or
a founder.

## 13 Risk gate and Microsoft account

### Risk gate

One request is one transaction: look-up (`AskGate`), insert of the row
(`InsertDecision`, which waits for another insert of the key, or `KeyTaken`), the
circuit `FOR UPDATE` (`ReadCircuit`), the assessment (`AssessRisk`) and the commit with
its audit entry. `SwitchCircuit` waits for the row. `CircuitHolds`: the circuit a
decision records was in force when it was committed; `OneDecisionPerKey`;
`NothingPasses`. Nothing in `src/app` calls the gate yet. The figures that
`RiskEngine.validate` compares are an input. Bounds: two keys, signals and requests,
one switch, with the circuit's row there or not.

### Microsoft account

`oauthState`, `credential` and what the provider knows (`spent`, `issued`).
Nothing locks a row and no index keeps an account to one: a call reads, talks
to the provider and writes the columns that changed. `BeginCallback`, `Exchange`,
`FindCredential`, `StoreCredential`; `BeginDisconnect`, `Disconnect`; `Resolve`,
`SendGraph`, `ResolveAgain`, `Renewed`, `RenewalRefused`, `RenewalFails`.
The provider may send back several codes for one OAuth state (`Codes`: the authorization
URL was opened twice). `ConsumedStateHolds`: a code leads to one credential write at most, a
state is consumed by one, and once it is consumed only the callbacks write that had come
in before (`presented`); so a state is not one-time among callbacks that overlap
(section 17). `DisconnectHolds`: a call that did not see the disconnect does not undo it.
Bounds: two OAuth states, one with two codes, two rows and calls, three token pairs.

## 14 Schema migrations

`SchemaRevisions` is the chain of 28 revisions as data: each upgrade and downgrade
as a sequence of operations on tables (with their foreign keys), on columns that
were added later, on unique indexes that may bar existing records, and on the three
CHECKs of enumerations that are re-created with every new kind (PostgreSQL).
`DataModel` is the tables of the mapped classes. `Migrations` runs them: `env.py`
runs the whole way to a target in one transaction, so `migration.draft` is what
the transaction sees and `db` what is committed; the deployment runs `alembic
upgrade head` before it replaces the running release (`railway.toml`), so the release
goes on writing (`Save`), except where a migration has a table locked.

`SchemaIsOfRevision`: whatever way led to a revision, refused and broken migrations
included, its schema is the one the chain builds from nothing. `HeadIsTheModel`: the
last revision has exactly the tables and foreign keys of the mapped classes and their
enumerations, which compares 28 files with the models. `TradesOutlive`: a settled
trade outlives every migration, also one that commits between the count in the
downgrade of 0026 and the drop of the tables; what saves it is the later re-creation
of the audit CHECK without `trade`. `TracesHaveRecords`, `ChainFits`.

`ChainIsSound` says of the chain alone, one revision and one record at a time, what the
steps of a migration need: each part fits every schema it can find, ends in one that the
next part or the next revision expects, and does to a single record nothing that the
properties forbid. It has no constant and no variable in it, and TLC evaluates it
once, as the assumption `ChainAssumption`; the proof (section 16) gets from it to any
records and any interleaving.

Twelve kinds of records stand for the rows that matter: one of each kind that has an
audit row or a notice, settled trades, and twins that an index would refuse. Two at a
time are enough for every operation, because each looks at one kind of record or at
two of one kind, and twins are one record here. Which release writes which record is
an assumption on the environment: the release of the current revision.

## 15 What the runs show

| run | shows |
|---|---|
| `withdrawals_founder` | two handlers of two customers: the reserved bucket is the open requests, one release per closed request, the table is followed, the circuit is enabled at the commit, and all of it implements `WithdrawalBook` |
| `withdrawals_cancel_route` | with the cancel route: no bucket below zero, checks stay valid under locks, every handler ends |
| `withdrawals_stale_cancel` | finds the double release of section 17 |
| `trades_book` | all histories of five trades and reversals: positions and balances are what the live trades add up to |
| `trades_concurrent` | two racing handlers implement `TradeBook`, and wait in a circle only on opposite pairs |
| `schedules_poll` | a poll over two rows and an operator: counts, maxima, stray runs, and no operator overruled |
| `schedules_unset` | finds the row that is listed and refused |
| `runs_attempts` | two attempts and clients: approvals gate tools, refusals stand, runs are not abandoned, outputs exist |
| `runs_ended` | finds the ended run that is overwritten |
| `voice_routes` | two transcripts, an interrupt, a cancel: no busy session without a worker, service ends; undisturbed: one transcript at a time, legal moves, the right answer |
| `calls` | section 8: `JobsSafe`, `OrchestrationSafe`, `TelegramSafe`, `QuotesSafe`, and that requests and updates end |
| `workspace` | sections 9 to 14: `OutreachSafe`, `LaunchedStepsStay` and `ImplementsSendItem`; `SessionsSafe`, `ConversationsSafe`, `CrmSafe`, `CachesSafe`; `RecordsSafe` (work items, reminders, documents, risk gate, Microsoft account, registrations); `SchemaSafe` (migrations) |

`calls` and `workspace` are unions of small systems that share nothing: the first
variable of their state (`part`, `area`) says which of them moves, so a behaviour
is one of `TelegramSpec`, of `CrmSpec`, and so on, and a property of one module is
violated only by behaviours of that module. They are one run each because the
questions are of one kind, what overlapping requests may do to these records. The
definitions `Calm...` of `MCWorkspace` are bounds in the next-state relation of the run
only: they cut off behaviours in which two independent things happen together. All
properties there are safety properties, so a bound hides behaviours and never
makes a property fail to be about the ones it leaves.

Fairness in `calls`: `OrchestrationFairness` and `TelegramFairness` (section 8); the
other parts have safety properties only. The liveness properties are trivially true in the
parts in which nothing is under way, and are violated by the mutants of the part they are about.

Deadlock is checked for withdrawals, trades under concurrency and schedules
(these systems go on for ever). It is switched off where everything may be used
up: every trade key, every attempt, every voice request, every execution, token,
notice or revision.

Each property was also run against a faulty variant of a definition it depends on
(a lock not taken, a condition dropped, a handler without its effect), and is
violated by it.

## 16 What is proved

Proved for every value of the constants, that is any number of handlers,
customers, keys, rows, attempts and requests, from the named assumptions on the
constants in each module (null values differ from rows and identifiers, amounts
and quantities are positive, initial customer funds are not negative, a pair has
two assets, a definition has not run more often than its own maximum, the sets of token
rows, of workers and of an orchestration's calls are finite, attempts and rounds are
limited, there is a provider to ask) and, for the migrations, from `ChainAssumption`, which has
no constant in it and is evaluated. That what is added up is finite is no assumption:
the rows made so far are finite, a part of the inductive invariants.

| module | theorems |
|---|---|
| `WithdrawalsProofs` | `TypeCorrect`, `Safety`, `NeverOverdrawn`, `CircuitGates`; without the cancel route `ReleasedOnce`, `LegalTransitions`, `ReservedIsWhatIsOpen` (a reserved bucket is the sum of the open requests), `Refinement` (the handlers implement `WithdrawalBook`) |
| `TradeAccountingProofs` | of the book: `BookTypeCorrect`, `BookNeverNegative`, `TradesExplain` (`TradesExplainPositions`), `BalancesAlwaysHold` (`BalancesHold`); of the handlers: `AccountingTypeCorrect`, `DecisionsStayValid`, `AccountsNeverNegative`, `AccountingRefinement` (the handlers implement `TradeBook`), `HandlersKeepSums` (so they keep the sums too), `NoHandlersInACircle` (`NoWaitCycle`) |
| `BackgroundSchedulesProofs` | `SchedulesTypeCorrect`, `PollUndoesNothing`, `StrayRuns`, `CountsAreRuns`, `RunsWithinMaximum`, `NotTwiceAtOnce` |
| `AgentRunsProofs` | `RunsTypeCorrect`, `GateHolds`, `RefusalStays`, `OutputExists`, `RunsAreSafe`, `AttemptsMoveOn` |
| `CallsProofs` | `VoiceTypeCorrect`, `WorkersStay`, `ServedOneByOne`, `OwnAnswer`, `TransitionsFollowed`; `JobsAreSafe`, `OrchestrationIsSafe`, `TelegramIsSafe`, `QuotesAreSafe`, each of that module's own specification, and `CallsAreSafe`: the specification of the run `calls` keeps the four |
| `OutreachProofs` | `OutreachIsSafe` (`OutreachSafe`), `OutreachImplementsSendItem` (`ImplementsSendItem`), `LaunchedStepsAreKept` (`LaunchedStepsStay`), of `OutreachSpec` |
| `WorkspaceProofs` | `DashboardIsFresh` (`CachesSafe`), `ConversationsAreSafe`, `SessionsAreSafe`, `CrmIsSafe`, `WorkItemsAreSafe`, `NoticesAreSafe`, `DocumentsAreSafe`, `RiskGateIsSafe`, `MicrosoftIsSafe`, `RegistrationsAreSafe`, `MigrationsAreSafe`, each of that module's own specification; `SchemaIsSafe` (`SchemaSafe`) and `WorkspaceIsSafe`: the specification of the run `workspace` keeps all of them |
| `FiniteSums` | lemmas on `SumFunctionOnSet`: it adds up (`SumFirst`), by disjoint parts (`SumSplit`), a changed summand changes the sum by the difference, a sum of naturals is one |

The refinements of withdrawals and trades map the tables to themselves: each commit is one step
of the abstract specification, every other step leaves the tables alone.

Sums. `SumFunctionOnSet` is a recursive function over subsets, and the library's induction
theorem for finite sets cannot be instantiated. `FiniteSums` uses the principle of the least
element instead (`WFMin`): among the subsets of a finite set that lack a property
there is a smallest one, and taking one element from it leads to a contradiction. With it
`ReservedIsWhatIsOpen` follows from what each commit does to one request and one
bucket. `TradesExplain` needs more than the sums: `HistoryInv` says that the rows fit each
other (`RowsFit`: a reversal is about one trade, that trade is marked, and names it),
so that a commit adds one live trade to the sums or takes one away, and a reversal restores
a position that equals the sum without the trade it reverses.

`NoHandlersInACircle` holds for all pairs. `Rank` orders what a handler wants: trade row,
portfolio, the account of a posting, a customer's account of a trade, the clearing
accounts. Whoever is waited for and itself waits wants something of a higher rank, as long as
neither holds the clearing account of its quote (`RankGrows`); the two accounts of one customer have one
rank because no other trade of that customer gets past the portfolio (`OnePerPortfolio`),
so only a posting can be waiting there. Ranks end at five, so every circle has handlers that
hold the clearing account of their quote. What such a handler waits for is held, at once or
by what a deposit waits for, by another such handler whose quote is its base
(`BaseIsQuote`): their bases are the set of assets that `PairsGoRound` asks for.

The arguments of `CallsProofs`, besides those on voice. `JobsInv`: between its commits an
execution under way is in the state that its place in `run` says (`InHand`), and the
monitor's count is the job under way plus its leaks. `PipelineInv`: of each call, what was
invoked is what this try recorded, the call under way, and no more than a full loop for
each forgotten try; the limit per try comes from rounds and calls per round.
`TelegramInv`: an unfinished update has one worker or is lost, and the worker's step fixes its
row, its user and whether its workflow was called. `QuotesInv`: a provider behind the
current one was tried in full, an instrument is available only as far as it was verified, the
times read are ordered. `CallsAreSafe` and `WorkspaceIsSafe` add nothing but the fact that a step
of the union is a step of one part and leaves the others alone.

The arguments of `WorkspaceProofs`. `DashboardIsFresh` (`CachesInv`): a reader's
generation is never ahead of the cache's, and a view computed under a generation that
is still the cache's is no older than the last invalidation. `ConversationsAreSafe`
(`ChatInv`, `DefaultInv`): one request at a time holds a conversation, the number it
was given is the next one and the conversation is still active; any two defaults are
the same agent. `SessionsAreSafe` (`TokenInv`, `LinkInv`): a rotation holds an active token that
no other request holds, any two active tokens of a family are the same, and no two
requests hold one link. The last two bound cardinalities, and do so by "any two
are equal". `RiskGateIsSafe` (`GateShape`, `GateExclusion`): what a request has read of
the circuit stays so because it alone holds the row, and its key is its own because it
alone has inserted it. `MicrosoftIsSafe` (`CallsInv`, whose part for one call is
`FineCall`): a call that holds new tokens got them for a code that is spent and has stored nothing yet,
and no other call has that code; if its OAuth state is consumed by now, it was under way when
that happened (`presented`); a renewal works on a row that exists.
`RegistrationsAreSafe` (`ApplicantsInv`, whose part for one request is `FineApplicant`): a
request that counts holds the only right to its bucket, and its count is one more than
the bucket's; the roles it does not miss are there or come with it; what it has inserted
comes before what it misses in the order of `DEFAULT_ROLES`, so of two requests that
wait for each other's role each would be behind the other.

`CrmIsSafe` (`CrmInv`, with `DesksApart` and `DesksFit`): what a request has read and locked of a
deal, a lead or a stage stays so until its commit, and no two convert one lead.
`WorkItemsAreSafe` (`WorkInv`): who holds a row holds it alone, a request's copy of a project or
task it locked is the row, and a new task's row is created by one request. `NoticesAreSafe`
(`NoticesInv`): keys inserted and not committed are of one job and not told yet; jobs insert
in the order of the items, so two that waited for each other would each be ahead of the other.
`DocumentsAreSafe` (`DocumentsInv`): a committed row's upload has ended with its object
in the bucket, and a reader gets its answer after its access was logged.

`MigrationsAreSafe` (`MigrationsInv`, with `SoundDb` and `OnItsWay`). What is committed has
a schema its revision may have (two before market prices, one after); the draft of a
migration has one from which the rest of its way can start; both keep every trace with
its record and a settled trade with its audit row; and draft and committed database
have the same tables but for those the migration holds, so that what `Save` may write it
can write to both. The step of a migration is the fold of its operations. `OnlyDone` and
`OnlyFits` say that an operation does to the records of any set what it does to the
database with only these in it, and asks of the schema alone whether it fits;
`PerformedAgree` carries that through the fold (by the least operation at which they would
differ, since the fold has no induction here): the run on the database agrees with its
run on the bare schema about the schema, and with the run on each single record about
that record. So `ChainIsSound`, which speaks of bare schemas and single records, decides
all of it (`PartOfTheWay`). `ChainIsSound` is the assumption
`ChainAssumption` of `Migrations`; nothing in it depends on a constant, and TLC evaluates
it in the run `workspace`. The prover cannot: it would have to compute 28 schemas.

The arguments of `OutreachProofs`. `QueueInv` says what a worker may rely on between
its claim and its commit, when it holds no lock: what it holds is queued, and is in
processing as long as no lease was outlived (so nobody can claim it), and what it
settled as sent was handed over. `OutreachInv` adds that a draft made for a step is behind
the position of its enrolment, which only grows, and that a sequence is a draft while a step is
being added. For the refinement each action is shown to be one of six steps of a single
message, on the *sets* of open claims (`MessageSteps`); only the theorem turns the sets into
the numbers of `SendItem`. `HandedPerClaim` follows from the same six steps.

Only model-checked:

- liveness (`HandlersFinish`, `ServiceEnds`, `EveryRequestEnds`, `AcceptedUpdatesEnd`):
  it needs ENABLED, which the prover does not handle;
- `ChainIsSound`, a closed formula: evaluating it is all there is to check.
## 17 Where the code differs from what it says

Shown by a run and listed as findings:

1. **A rejected withdrawal can be cancelled, and is paid back twice**
   (`withdrawals_stale_cancel`). The cancel route loads the request, and the
   later `SELECT ... FOR UPDATE` returns the loaded object unrefreshed. If a
   founder rejects in between, the cancel decides on the old state and posts a
   second release, out of the reservation of another open request.
2. **A repeating schedule created without a first run never runs, and stops every
   poll** (`schedules_unset`). The computed first run goes into the column only;
   the query finds the row, the dispatcher reads the definition and raises.
3. **A run that has ended is overwritten** (`runs_ended`). `RunService.transition`
   locks the row but judges the move on the object loaded earlier: a run that a
   client cancelled becomes running, completed or failed.

Seen while modelling; part of the models, with no run of their own, because no
source states the contrary plainly:

- two `execute` calls that both read a run as queued both start it
  (`execution/engine.py:108-123`);
- `ExecutionEngine.cancel` turns an approval that was granted after the listing
  into a cancelled one (`execution/engine.py:285-306`); it never turns a refusal
  into a grant (`RefusalIsFinal`);
- a cancelled schedule that is resumed runs again, but stays out of
  `list_active_for_user` because `cancelled_at` is kept
  (`services/background_execution.py:229`, `276`);
- replacing a definition keeps the row's run count and takes over the count and the
  maximum of the new definition, which the dispatcher judges by, so a schedule may
  run past its maximum (`services/background_execution.py:182-227`):
  `WithinMaximum` excludes replaced definitions;
- a voice session whose interrupt or cancel commits between the check and the
  write of a transcript is overwritten by the transcript (`voice/session.py:84-99`):
  three of the voice properties are stated for undisturbed sessions for that reason;
- a voice session left in processing, tool execution or awaiting approval by a
  vanished request, or by an approval, can only be cancelled (`voice/gateway.py:166`).

The same, for the parts that came later. "Modelled" means that the module makes the
behaviour possible, and that a property excludes it or is stated so that it is no
violation.

*Job runner* (`background/runner.py`), all modelled:

- the timeout is judged after the work (188): work in time for nothing is done again;
- a success whose commit fails (213) is recorded as a failed attempt and takes
  `active_jobs` down twice, below the `ge=0` of `background/schemas.py:229`; a cancelled
  task leaves it up for ever;
- `retry_execution` drops the approval and `dry_run` of the request, and may be repeated
  for one failed row without limit; a denied approval is recorded as one that is awaited.

*Orchestration*, modelled: a retry starts the native loop over, so that calls of the
failed try were made and are in no row; the id of an approved call may be used again;
the caller's `runs.fail` commits the rows a failed request left pending.

*Telegram* (`telegram/service.py`), modelled: a delivery that dies leaves its message
received or processing for ever, and every redelivery is answered from that row (200).

*Market data*: `received_at` (`market/twelve_data.py:532`) is taken before the request is
sent, so an observation made meanwhile is newer than it and raises a `ValueError`
(`market/provider.py:167`) that the gateway does not catch (`market/gateway.py:86`): no
fallback is tried. A primary without entitlement ends the request as well (56). Modelled.

*Outreach* (`services/outreach.py`):

- a worker that outlived its lease commits its outcomes later; a retry reopens an item
  that another worker holds (771), and the message is sent twice. Modelled:
  `OneWorkerPerLease` is about items that were not overtaken, `SendItem` allows it;
- two workers may pass the daily limit together (modelled); `attempt_count` counts claims
  that were rate-limited (modelled);
- an event whose automation enrols a contact that is enrolled already can never be recorded
  (664, modelled); asking for approval again after a decision fails on the global
  `dedupe_key` (291-314), and so does a second failure notice in a batch (978): not modelled;
- `request_approval` and `decide_approval` lock in opposite orders (277, 331): one of two
  may be a deadlock victim, which is a request that did not happen.

*Sign-in* (`auth/service.py`), modelled except where said:

- a child token inserted by a refresh in flight escapes a concurrent `logout_all` or
  reuse revocation (512, `database/repositories/refresh_token.py:80`);
- a log-in that verified the old password before a reset commits its session after the
  reset has revoked all (207-232; passwords are not in the module);
- two issues of one purpose at once may leave two active links (892-913); a change of
  password leaves reset links valid;
- the count of failed log-ins is an unlocked read-modify-write (936-958): not modelled.

*Registration*: a link may be mailed for an account whose commit then fails; a grant may
be of the agent that was the default when it was read; a change of the default waits for
registrations that hold a grant, mail included. Modelled. Not modelled: the bootstrap
of a deployment needs an active administrator that only an operator's route makes; no code
in `src/app` revokes an agent grant, `revoked_at` is only read.

*Conversations*: of two `set_default` at once the second hits the unique index and the
error is not caught (modelled as `DefaultRefused`); a conversation may be created
on an agent archived meanwhile (modelled).

*CRM* (`services/crm.py`):

- two conversions may both create the default pipeline: the second fails at the flush,
  outside the `try` (modelled as a refusal);
- `update_pipeline` can leave no active default pipeline; `update_stage` changes the kind of a
  stage without its deals (both modelled, the second excluded by `recast`);
- deleting a stage or pipeline with closed or archived deals fails on the foreign key,
  uncaught (modelled as not possible); `convert_lead` and `update_stage` lock pipeline and stage in
  opposite orders (a victim is `CrmRollBack`);
- `complete_activity` (927) writes to an archived lead, and takes its time before the lock:
  not modelled.

*Caches*: the CRM analytics cache has no generation check (`services/cache.py:112`); a view
older than the last invalidation stays until its time to live ends (modelled, no property).

*Work items*: two opposite moves deadlock (`services/task.py:157`); a request whose task was
moved while it waited is told it does not exist. Modelled.

*Reminders*: `create_due_notifications` and `create_crm_due_notifications` have no caller
in `src/app`; a duplicate that is deleted before it is looked up ends the job with nothing
committed (modelled as `GiveUp`).

*Documents* (`services/documents.py`): rows are inserted with the `storage_key` "pending",
which is unique, so uploads run one at a time for as long as the bucket takes (108, modelled);
objects may be orphaned (modelled); a download that passed the look-up is served after a
revocation (modelled); a commit whose outcome is lost would delete the object of a
committed row (not modelled).

*Risk gate* (`services/trading_contracts.py`): a second request with the key under way gets
an uncaught `IntegrityError` (180); a circuit without a row locks nothing, so
"unavailable" may be recorded while the row is made; execution is disabled, so the
approved branch is unreachable. Modelled.

*Microsoft account* (`integrations/microsoft.py`), modelled: an OAuth state is
"one-time" (`database/migrations/versions/20260820_0017_oauth_credentials.py:1`) only for
callbacks that come one after the other: `consumed_at` is read without a lock (123) and not again
before it is set (160), so two codes of one state (its URL opened twice) both write; two callbacks at once may leave
two active rows, after which every call is ambiguous until a disconnect (138); a callback that
read its row before a disconnect stores tokens in a revoked row and reports success; one that had read
the row revoked activates it even after a newer disconnect; a refused renewal revokes the
row even if another call has just stored a good token.

*Migrations*: downgrades of 0005, 0006, 0025 and 0026 are refused once there are audit rows or
notices of their kinds; 0003 refuses twin project names and 0010's downgrade two owners'
equal names, with no message of its own; the downgrade of 0019 drops the ledger
unguarded, where 0026 says "financial history must not be deleted"; 0012, 0016 and 0018
delete audit rows. All modelled. Not modelled: between the commit of the pre-deploy step
and the start of the new release, the old release's inserts fail wherever a column without default was
added (0003, 0009, 0021, 0022), and users it registers after 0009 have no workspace.

## 18 What is not modelled

- **Inside the modelled parts**: audit rows (but for the migrations), most
  notifications, e-mail and its timing (the receipt of a withdrawal is sent before the
  commit, `services/operations.py:298`), payload fingerprints, provenance, timestamps,
  the first creation of portfolio and account rows, permissions (taken as granted, or a
  refusal before anything is written), and PostgreSQL's own deadlock detection (a circle of
  waiting handlers is a deadlock of the model, a violation of `NoWaitCycle` or
  `NoCircularWait`, or a rollback action where the code can run into one).
- **Left for later**: agent memory (check-then-insert without an index,
  `database/repositories/agent.py:624`), MFA and failed log-ins, the assignment of roles,
  companies, contacts, notes and activities of the CRM, the run bindings of
  `intelligence/access.py`, the figures of the risk engine, mailboxes, templates and
  audiences of outreach, two migrations at once, the order in which the engine locks a conversation and its run
  (`execution/engine.py:351`), and the compositions of section 2.
- **Behaviours that are in the models and that no property is about**, because the code
  promises nothing there: trades on opposite pairs that deadlock
  (`services/trade_accounting.py:131`), a cancelled schedule that is resumed
  (`services/background_execution.py:229`), a tool execution that is named again and called
  again (`execution/tools.py:117`), a process that dies between two commits and leaves its run
  running (`execution/engine.py:123`), a vanished voice request (`voice/gateway.py:166`).
  The trades on opposite pairs are in `TradeAccounting` and outside its instance.
- **Left out for good**: pure inserts, read-only summaries, HTTP clients, rendering and
  configuration (the last paragraph of the inventory). They keep no state that two
  actors could disagree about.
