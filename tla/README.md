# Solvenda in TLA+

Solvenda is a multi-tenant platform for UK debt advice: a TypeScript monorepo over
Postgres, in which advisers keep case files, an AI layer proposes, a workflow engine
carries cases along, messages come and go, and an append-only ledger records who did
what. This directory holds TLA+ models of its core logic, the TLC configurations that check
them on small instances, and TLAPS proofs of what matters most.

1. [The system](#1-the-system): components, state, operations, what is hard
2. [Modules](#2-modules): what models what, and how
3. [Runs](#3-runs): what TLC checks, bounds, fairness
4. [Disagreements](#4-disagreements): where the code and its own comments differ
5. [Proofs](#5-proofs)
6. [What is not modelled](#6-what-is-not-modelled)

Running it, in this directory:

    tlc -workers 2 -config JobQueue.cfg MCJobQueue.tla
    tlapm JobQueueProofs.tla

## 1. The system

### How it runs

Every access to the database goes through `withTenant`, `withPlatform` or `withPublic`
(`packages/db/src/client.ts`): one transaction per callback, at Postgres' default
isolation READ COMMITTED, with a statement timeout, and ROLLBACK when the callback
throws. Requests of several people, drains of the job queue and deliveries of webhooks
overlap freely. There is hardly an explicit lock in the code; it relies on row locks of
UPDATEs, on unique indexes, on triggers and on advisory locks. Anything a transaction
reads and uses later may have changed in between, and a page of the console acts on what it was
rendered with. That is the common source of what is hard here, together with
effects that leave the transaction (a message that was sent), with operations that are spread over
several transactions, and with answers that are computed anew in several places from the same rows.

### Inventory

| Component | State | Operations | What is hard | What makes it correct |
|---|---|---|---|---|
| **Job queue** (`workflow/src/queue.ts`) | jobs with status, attempts, `run_after`, `locked_at`, key | enqueue, emitEvent, claimJobs, completeJob, failJob, reclaimStalled | concurrent drains, crashes between claim and report, slow drains | one drain per job unless its lock runs out; attempts bounded; nothing lost; one job per key |
| **Workflow engine** (`workflow/src/engine.ts`, `schema.ts`, `templates.ts`) | run, step rows, approvals, effects | advanceRun (nine step types), decideApproval | concurrent drives, rollback after effects, resumption, loops | effects once, recorded, guarded by approvals; runs end |
| **Vulnerability register** (`core/src/case-file/vulnerability.ts`, `consent.ts`) | records, consents | record, record no indicators, amend, close, consent | consent read before a later insert | health detail rests on a consent of that client |
| **AI proposals** (`ai/src/proposals.ts`, `apps/web/lib/console/apply-proposal.ts`, trigger in 0011) | proposals | raise, decideProposal, decideAndApply | decision and record are separate transactions; two deciders | nothing of a model's is recorded without a person |
| **AI invocation** (`ai/src/capabilities/registry.ts`, `context.ts`, `invoke.ts`) | enablement per firm, invocations | assertEnabled, assembleContext, invokeCapability | an allowlist read in two ways over one object | a model sees what its capability may see, and the record says so |
| **Authorisation** (`auth/src/authorize.ts`, `permissions.ts`, `principal.ts`) | none | authorize | precedence of refusals | automation is kept out of what is regulated |
| **Audit ledger** (`audit/src/record.ts`, `verify.ts`, 0003, 0005, 0007) | one hash chain per tenant | recordAudit, auditedMutation, verify | concurrent writers, the first row, rollback, lock order | no gap, no fork; a change and its row commit together |
| **Sessions** (`auth/src/session.ts`, `apps/web/lib/control/session.ts`) | sessions, failure counters, locks | login, completeMfa, load, revoke | a lockout against concurrent sign-ins, two clocks | guesses are bounded; a revoked session stays revoked |
| **API keys** (`integrations/src/api-keys.ts`, `apps/web/lib/console/api.ts`) | keys, request log | resolve, rate limit, log | counting before logging | the limit is overshot by no more than the calls at once |
| **Webhooks** (`integrations/src/webhooks.ts`) | endpoints, deliveries | queue, succeed, fail | late answers | retries end, a status says what happened |
| **Conversations** (`comms/src`, WhatsApp route, conversation pane) | conversations, messages, identities, documents | receive, link, reply, ingest, file, scan | redelivery, links made meanwhile, sending before inserting | never another client's thread; a message arrives |
| **Statements, advice, household** (`core/src/case-file`, `core/src/advice`) | versions of statement and decision | save, evaluate, supersede, record | "the current one" replaced by two at once, old pages | one current version, none lost |
| **Opening a case** (`core/src/casework/open-case.ts`) | references | createClient, openCase | two advisory locks in two orders | references collide never |
| **Migration** (`migration/src`) | identity map, outcomes, rows | run, reconcile | one failing record in one transaction | balanced means complete |
| **Rules, eligibility, case types** (`core/src/rules`, `advice/eligibility.ts`, `case-types`) | none | evaluate | missing facts are null | what is unknown opens nothing |
| **Evidence, debts, assets, checks** (`core/src/evidence`, `core/src/case-file`) | the rows of one file | edits, synchronisation, expiry | three places judge the same evidence | they agree; looking changes nothing |
| **Case Intelligence** (`core/src/intelligence`, `apps/web/lib/console/data.ts`) | none | signals, health, readiness | facts handed over by a page | vulnerability costs no health |
| **Money** (`core/src/money.ts`, `sfs/statement.ts`) | none | convert, distribute, total | rounding | no penny lost or made |

How they interact: `emitEvent` and `enqueue` put jobs in the queue; a drain (external to
the repository, which calls these functions only from
`packages/workflow/test/engine.test.ts`) claims them and drives runs. The engine creates tasks,
proposals, messages and further events in its own transaction, and asks a model through `invokeCapability`. An inbound
message is stored, its file ingested, and its text scanned by the same `invokeCapability`. A person decides approvals and
proposals from the console; an accepted proposal ends in the vulnerability register. The console's pages read the
case file through `loadCaseDetail`, which hands facts to the rules. Everything writes the audit ledger
in its own transaction.

`PROJECT.json` lists the components with their status and, under `hazards`, each line
where this can go wrong and the property that would show it.

## 2. Modules

A transaction is one action where nothing others can see happens between its statements
(the statement takes what it needs and its locks at once), and several actions where
it reads first and writes later, or where it holds locks that make others wait.
What a transaction has written and not committed is kept in a variable of the connection
and is invisible to the others.

Names of actions and variables are the code's. Alternatives marked "Seeded fault" are
not used by any specification: they are plausible bugs of the definition that follows, kept
beside it to show that the properties notice them. `PROJECT.json` (`mutants`) says which property
notices which; `map` gives the lines of each definition.

| Module | Of | Checked through | Proved in |
|---|---|---|---|
| `JobQueue` | the queue | `MCJobQueue` | `JobQueueProofs` |
| `WorkflowEngine` | one run | `MCWorkflowEngine` | `WorkflowEngineProofs` |
| `VulnerabilityGate` | register, consents, proposals | `MCVulnerabilityGate` | `VulnerabilityGateProofs` |
| `AuditLedger`, implementing `AuditedStore` | ledger | `MCAuditLedger` | `AuditLedgerProofs` |
| `Inbox` | conversations | `MCInbox` | `InboxProofs` |
| `Sessions`, `ApiKeys`, `WebhookDelivery` | access | `MCFirm` | `AccessProofs` |
| `Authorisation`, used by `Assistance` | who may do what; asking a model | `MCFirm` | `AccessProofs` |
| `CaseOpening`; `CaseFile`, implementing `VersionedFile`; `Migration` | casework | `MCFirm` | `CaseworkProofs` |
| `CaseTypes` < `Evidence` < `CaseRecords` | the file of a case and how it is judged | `MCAssessment` | `AssessmentProofs` |
| `Figures` < `Budgeting` | money and statements | `MCAssessment` | `AssessmentProofs` |
| `Rules` < `CaseTemplates`; with `CaseRecords` in `CaseAssessment` | the shipped types, their rules and what is open to a client | `MCAssessment` | - |

`MCFirm` puts components side by side that share no variable: a behaviour belongs to one of
them, which `part` names, so their state spaces add up and are not multiplied. Its theorems need one specification for all of them
(`FirmSpec`), and each proof splits on the part that moves. `MCAssessment` does the same for a file, the rules and the figures.

### JobQueue

`jobs` is the table, `held[w]` the `ClaimedJob` snapshots drain `w` has not reported on,
`events` the emitted domain events with the subscribers each found, `active` the
definitions that subscribe. Each operation of `queue.ts` is one action: `Enqueue`,
`EmitEvent`, `ClaimJobs`, `CompleteJob`, `FailJobForGood` and `FailJobForNow` (the two outcomes of
`failJob`), `ReclaimStalled`. Time is two bits: `due` (`run_after <= now()`) and `stale`
(`locked_at` older than the threshold). `completeJob` and `failJob` address the job by id
alone and compare the attempts **of the snapshot**, as in the code.
`LockExpires` and `LockOverrun` tell two situations apart that the code cannot:
the drain is dead, or it is only slow, and then two drains hold one job and either of them reports late. `overruns` and
`belated` are history: how often the lock of a job ran out under a drain at work, and how many reports found the job settled already.
No guard reads them; the properties say with them how much an overrun may do. The order of claims (`ORDER BY run_after`) is left open.

### WorkflowEngine

One run. `run` is its row, `rows` the step rows, `approvals` the approval of each
approval step, `effects` counts what each step did (never, once, more), `yes` is history: the approvals somebody has given. `tx[w]` is the
`advanceRun` call of drain `w` with its uncommitted writes. A call is `Begin` (load, early returns),
rounds of the loop (`Skip` a step that succeeded before, or `Execute` and `Record`),
`LeaveLoop` and `Commit`; `RollBack` and `SqlError` throw away all of it except a communication that went
out. The early returns, the budget (`sequence < maxSteps`, which skipped-over steps do not use), `ON
CONFLICT DO NOTHING` on (run, step, sequence), `onError`, rejection with and without `onReject`, dry
runs and the order of writes are as in the code. `decideApproval` is `DecideRead` and `DecideWrite`, because the check
that the approval is pending is not repeated by the UPDATE.

Which way a branch goes and whether a `when` holds is left open, so the
accumulated context is left out; a step lists how executing it `may` turn out. A step's effect on the database is
one bit of its transaction. A step may also fail `"partial"`: an ai-capability step that throws after its first writes is caught
by `executeStep` without a savepoint, so the invocation and the proposals raised so far are committed beside a row that says "failed" (`AfterFailure`).
`Definitions` is a set of parsed definitions, assumed to pass what
`parseWorkflowDefinition` checks (`ValidDefinition`). `MCWorkflowEngine` holds both
shipped templates of `templates.ts` and a few definitions the parser accepts, among them an analysis that is tried again until it succeeds (`Retried`).

### VulnerabilityGate

`consents`, `records`, `proposals` are the tables (a consent: whose, whether it permits
special-category data, whether it ended), `task[a]` is the request person `a` makes.
`decideAndApply` is five transactions in the code and at least one action each here: `Apply` (reads the
proposal and checks the consent first), `Decide` / `DecideWrite`, `RecordProposed` / `Insert`, `Link`. Direct work on the register is
`RecordDirectly` / `Insert`, `NoIndicators` / `InsertNone`, `Amend` / `AmendWrite`, `Close`.
The unique index of 0024 and the trigger `ai_proposals_guard` are guards (`IndexAllows`,
`GuardAllows`). Wording, severity and reviews are left out.

### AuditLedger and AuditedStore

`value` is what the audited rows hold, `ledger[t]` the committed rows of a tenant,
`head[t]` its chain head, `tx[w]` a transaction with its uncommitted changes and audit rows. An
audited mutation is `ReadBefore`, `Mutate` (waits for the row lock) and `RecordAudit`
(reads the row again, waits for the advisory lock, links); a transaction has any number of
them and ends with `Commit` or `RollBack`. A hash is modelled as the pair of what is hashed,
that is, SHA-256 has no collisions. `Chain` is what `verify_audit_chain` recomputes, with the
head and with the absence of gaps. In the application, handlers audit by hand with the same three steps;
`auditedMutation` is the helper that packages them. The platform's own ledger (0021) is one more chain.

`AuditedStore` is what all this promises: a store and a log, without transactions, locks, hashes or rollbacks, where
every step changes rows and appends what it changed at once. `AuditLedger!Implements` maps `log` to
the committed rows without their hashes.

### Inbox

A `delivery` is one request of the provider: `Route` (the lookup of the account, whose failure is answered like an unknown
number), `Receive` (reads match and conversation), `Write` (the INSERTs and UPDATEs of `receiveInbound`, or `InsertRefused` by the
unique index), `Fetch` and `Store` (`ingestAttachment`), `Answer`, `Scan`. The provider hands a message in
again when it has no answer, and sometimes when it has one. An adviser's `task` is the pane as it was rendered and what they do from there:
`LinkConversation`, `Close`, `StartWriting` / `Send` / `Record` (send.ts hands the message to the channel before its row is written),
`FileAttachment`, `RejectAttachment`, each on the client and conversation the page was **rendered with**. `carried` counts what the channel has taken,
which no rollback undoes. Text, queues and owners are left out.

### Sessions, ApiKeys, WebhookDelivery

`Sessions`: an attempt reads the account (`Read`), spends its time on the password, then writes: `RegisterFailure` as the one UPDATE that
counts and locks, `SignIn` or `OpenHalf`. `Time` moves the two clocks of a session. The
control plane's session (`apps/web/lib/control/session.ts`) has the same steps for operators and other rules for the second factor.
`ApiKeys`: a call resolves its key, counts the requests of the minute, is served, and is logged last; the minute may change at any time.
`WebhookDelivery`: deliveries are sent without being claimed, so several senders may report one delivery, late and in any order.

### Authorisation and Assistance

`Authorisation` holds the catalogue of permissions, the roles a firm starts from, the kinds of principal and `Authorize`, the chain of refusals in
the order of the code. `Assistance` uses it. `Registry` is the eight capabilities with the fields each may see. A
context is the set of leaves of a JSON object, each with the keys above it, where a key is a dotted name itself: that is what tells
a flat map with the key `sfs.lines` from an object with `lines` below `sfs`. `Read` (of `readPath`, which walks segments) and `Withheld` (of `isPermitted`, which looks at
the dotted name) therefore differ on it. `AskFromRun` is an analysis step of a workflow, `AskFromScan` the scan of
an inbound message; the answer is a later action (`Answer`, `Fail`, or `Lose` when the process dies), and `Answer` raises proposals
row by row with the throw in between that undoes the scan's transaction and is caught by the workflow's. `ProposeField` is the regulated
`update-field` step. `Look` and `Decide` are the two halves of `decideProposal`.
`Switch` stands for whoever writes a firm's row for a capability: nothing in the repository but the seed does.

### CaseOpening, CaseFile, VersionedFile, Migration

`CaseOpening`: a caller opens a client, a case, or both in one transaction; the locks on the reference prefixes and on the audit chain are held to its end,
`RefuseCase` is what `openCase` throws at (no such client, another jurisdiction, no stages) after the client may have been inserted, `DeadlockBroken` is Postgres breaking one off. `CaseFile`: a person's `page` holds household, statement and standing decision as of its rendering; `Save...` is
`saveStatement` with its row lock, `Evaluate` to `AdviseCommit` the transaction of the advice page. Locks are `holds`, rows become visible with the commit.
`VersionedFile` is the promise: two series of versions of which the last one stands, published in single steps.
`Migration`: one run is one transaction over the records in the plan's order; a record is what the run can tell of it (no identifier, filtered, unreadable, refused by the
table, no column with a value, which record it refers to). The source may hold records of entities the plan does not have (`Unplanned`), which no run reads.

### CaseTypes, Evidence, CaseRecords, Figures, Budgeting, Rules, CaseTemplates, CaseAssessment

`CaseTypes` is what a case type is and what `parseCaseTypeDefinition` requires of one. `Evidence` is `evidence/state.ts`: `Resolve` per requirement, and the two
summaries made of it, `EvidenceMap` and `OutstandingEvidence`. `CaseRecords` is the file of one case of any type: its rows are the variables, the operations of `core/src/case-file` the actions,
and what pages show without asking a rule are operators on the rows: `Resolved`, `Signals`, `Score`, `Ready`. Time is `since` and `waited`, each at one of a few
places of its thresholds; `elsewhere` is what other parts of the platform have put down that signals read: failed compliance checks, proposals, unanswered messages.
`recordNoIndicators` is two actions, since it looks for what contradicts it without a lock (`LookForIndicators`, `clearing`) and inserts later (`RecordNoIndicators`).

`Figures` is `money.ts` and `buildStatement`, with shares computed by exact division, where the code compares remainders of floating-point quotients. `Budgeting` builds a statement line by line next to an
amount that is shared out.

`Rules` is the expression language with the code's typed three-valued meaning (`Numeric`, `Truthy`, the depth limit as `Broken`). `CaseTemplates` holds the eight
shipped case types with every eligibility rule, and `CaseAssessment` what the rules are asked and what is open to the client: `Snapshot` and `BuildFacts` (`loadCaseDetail`, `facts.ts`), `Available`.
An expression is evaluated by a recursive operator, and the modules the proofs are about do without it; that is why they are modules of their own.

`MCAssessment` explores all of it in three parts: a file through its operations; the rules of each type over facts that become known one by one, where
each fact takes the values its rules compare it with and their neighbours; statements and shares against exact arithmetic.

## 3. Runs

States are distinct states.

| Run | Instance | Asks | States |
|---|---|---|---|
| `job_queue` | 2 jobs, 2 drains, 1 event, 1 subscriber, 1 caller key, 1 or 2 attempts, 2 crashes or overruns, fair | How many drains may hold one job and report on it late, attempts accounted for, no early dead letter, an event has its jobs, what may change a settled job, every queued job settles | 583,804 |
| `workflow` | both templates and a polling loop, dry or wet, 1 drain, 1 decider, 3 rollbacks, fair | An awaited approval can be decided, what is reported is what is stored, calls return, runs end | 1,796 |
| `workflow_drains` | both templates, a regulated-field definition with SQL errors, a retried analysis, dry or wet, 2 drains, 2 deciders, 2 rollbacks | Approvals guard, what is recorded was done and what was done is recorded, a dry run does nothing, what is done is done no further time, an ended run takes no step | 199,031 |
| `vulnerability` | 2 clients, 1 record, 1 consent, 1 proposal of health information, 2 people who may all do everything, 1 death | Health detail has a consent of that client, accepted is recorded, undecided is not, closures and decisions stand | 370,355 |
| `audit_ledger` | 1 tenant, 2 rows, 2 values, 2 transactions with up to 2 changes, 3 chain rows, fair | The chain verifies and does not fork, the ledger implements `AuditedStore`, every transaction ends | 61,216 |
| `inbox` | 1 thread, 2 clients, 1 message with a file, 2 deliveries, 1 adviser, 1 message written, 1 mishap, fair | Nothing reaches an unconfirmed client, what is owed is shown, sent was carried, held was cleared, the message arrives | 799,046 |
| `firm` | 2 accounts, 2 sign-ins, 1 session, 2 failures; 2 keys, 2 calls, limit 2; 2 endpoints, 2 events, 2 senders; 2 people, 2 capabilities, 1 run's question beside the scan's, 2 proposals; 3 openings; 2 people who save, 3 versions, 1 death; 3 source records, also of entities no plan has, 1 run | How far concurrent reads may overshoot a limit, what is over stays over, what a model sees and what it settles, locks suffice, the file implements `VersionedFile`, balanced is complete for the plan's entities | 1,927,377 |
| `assessment` | a file through 3 operations; every fact a rule reads; 2 lines | The places that judge evidence agree, pennies are conserved, looking erases nothing, vulnerability costs no health, what is unknown opens nothing | 181,727 |
| `sign_off_stuck`, `facts_missing`, `records_dropped`, `assets_ignored` | the smallest that shows it | Each finds one statement of the repository violated (section 4) | - |

### Bounds

Most hazards here are races of two actors over one row, so two drains, two deciders, two writers, two calls; three openings let a third wait
behind two that wait for each other. Two jobs let one be claimed while the other is retried, or have a key the other asks for, and an overrun of one be seen not to touch the other. Attempts 1 and 2 have both a first-failure
dead letter and a retry. Two overruns of one lock let a third claim begin while the reports of the first two are still to come. Two changes in a transaction are what it takes for a deadlock between the chain and a row; three chain rows are a first, a middle and a last one. Three
versions let the second be replaced by a request that had seen the first. `MaxFailures` 2, `FailingAt` 2 and `DisabledAt` 3 keep the order of the code's 5, 5 and 20, as only crossing them
has an effect; counters are capped where the code sees no difference.
Three records let a migration have a duplicate, a failure and a reference at once; of records that no run reads one stands for all (`OneRecord`), and planned ones differ only in what the run looks at (`Records`). Three operations on a file are an item, what it rests on and what replaces it; the file starts at every stage that is not the last.
Facts have no bound: they become known until all are that a rule of the type reads. In seven of the eight types nothing may block although something is still unknown, which is what the property is about; in `das-dpp` nothing is open before everything is known, so that there is nothing to lose.
Mishaps are bounded to keep the state space finite; every property that speaks of them counts them. Two tenants in `audit_ledger` make a run too long,
and the theorems cover any number of them. All invariants of the runs but `StatusHonest` and the ENABLED in
`LocksSuffice`, and all action properties but `UnknownOpensNothing`, are proved without any bound (section 5).

In the assistance part of `firm`, `duplicateDebt` is the capability of the run: it may see one of the two facts, proposes, and is not regulated, beside
`vulnerabilityIndicators` of the scan, which is; one of the two people advises, the other does not. `facts_missing` takes `ieDiscrepancy`.

**The choice of definitions.** `StatusHonest` and `EverythingEnds` are checked for the definitions of the `workflow` run with one drain, and are not
true of every definition the parser accepts, nor with two drains (`sign_off_stuck`); section 4 says which shapes break them. They hold for both templates
that ship. `GuardedNeedsApproval`, `EffectsHonest`, `DoneOnce` and `EndIsEnd` are checked with two drains and two deciders, and proved for every definition.

**CHECK_DEADLOCK FALSE** is set where the system may really stop: a queue with all jobs settled, a run that is over, a bound that is reached. What must not stop there is a property of its own (`LocksSuffice`, the liveness properties).
`audit_ledger` is checked for deadlock.

### Fairness

Crashes, rollbacks, overruns, inserts and decisions are never forced.

- *Queue*: a cron drains and reclaims again and again (`claimJobs`, `reclaimStalled` are made
  to be polled), time passes, a drain that is alive reports what it holds. Weak fairness of each.
- *Engine*: the scheduler calls `advanceRun` again for a run that is not over (its comment: "Safe to
  call repeatedly"), a call that has begun goes on, time passes, a person who is asked decides in the
  end. Deciding is strongly fair since an attempt may be refused (no note, no permission) any number of
  times before one succeeds.
- *Ledger*: strong fairness of a transaction's own progress, because Postgres grants a lock in the order it was
  asked for; weak fairness of the rollback of one that waits, because `withTenant` sets
  `statement_timeout` on every transaction (`client.ts:102`), and Postgres looks for deadlocks
  besides. Without it two transactions wait for ever for each other, which the seeded fault
  `Waits_Never` shows.
- *Inbox*: the provider hands a message in until it is answered, and a request that is being served is served
  on; both weakly fair. Advisers need do nothing. A message whose number could not be looked up is answered as if it were
  unknown and is excepted from `MessageArrives` (`dropped`).

`firm` and `assessment` have no fairness and no liveness property: nothing retries in those components of itself. What may not stop there is
stated as a state property: somebody holds all the next step waits for (`SomebodyMayGo`), and whoever does has a step enabled (`SomebodyProceeds`).

### Seeded faults

Every property of a passing run has a mutant of a mapped definition that violates it under the run's own configuration.

## 4. Disagreements

Four runs expect a violation; each quotes what the repository says of itself.

- `sign_off_stuck`: drain A executes the step before an approval while drain B, driving the same run, gets to the approval, commits,
  and a person decides. A then reaches the approval and writes `awaiting-approval`. Nothing is pending any
  more, so nothing ever sets the run running. (`engine.ts:241`, or `186` if A finds the approval on record)
- `facts_missing`: an analysis step hands `invokeCapability` the run's facts, a flat map of dotted names, and `readPath` walks nested objects. Every field is
  reported missing, the payload is empty, and the fact is not counted as withheld either, since `isPermitted` splits the dotted key. (`engine.ts:348`)
- `records_dropped`: the source holds a record of an entity the plan does not have. `runMigration` goes through the plan's entities and `reconcile` through those that have outcome rows, so
  the record leaves no row and the run is balanced, against "Every source record produces a row" and "A migration that quietly drops 300 notes" (`runner.ts:17-20`, `88`, `341`).
- `assets_ignored`: `loadCaseDetail` hands the rules an asset total of 0, and no earlier insolvency, whatever is recorded, so the blockers about them never apply. (`data.ts:233`)

Met while modelling, without a run of their own. *Queue and engine*:

- A drain that outlives the reclaim threshold holds a job that a second drain holds too, and its
  late `completeJob` or `failJob` settles or reopens the second drain's attempt: also a settled job can become queued again or dead
  (`queue.ts:85-118` go by the id alone). `ClaimsCurrent` and `FinalIsFinal` say how far this goes: one drain and one late report more for each overrun of this very lock, and nothing else.
- `next` of two steps may point at each other (`Circle`; run `workflow` with `Definitions <- OnlyCircle`). On the second round both have succeeded, are skipped, and the skip does
  not use the budget: the call spins until the process is stopped. (`engine.ts:206`)
- Two drains that look before either has committed may execute one step twice; `DoneOnce` is as much as holds. Two deciders of one approval both read it pending, the later UPDATE wins; one of them
  has said yes wherever a guarded step is taken (`GuardedNeedsApproval`).
- A late decision sets a finished run running again (`engine.ts:552`). A drain then starts at the step the run was left at: at its end, it finds this step succeeded, walks past it and returns "completed" without
  writing, so the row says `running` for good, to be driven again and again; no step is taken on it (`EndIsEnd`).
  A run that failed or was closed by a rejection is taken up again where it stopped.
- An ai-capability step that throws midway leaves its invocation and the first proposals beside a row "failed" (`engine.ts:358`, `498`, `proposals.ts:71`); tried again, it raises them again.
- The sequence starts at 0 in every call. A step that fails at the same place in a later
  call as in an earlier one collides with the earlier row, and its record is dropped by ON CONFLICT DO
  NOTHING: a retry that succeeds then is on record as failed only (`Retried`), and is executed again if the run comes back to it. `EffectsHonest` therefore asks of a step that can fail for a record, not for a success. Neither template has this shape.
- A branch without a target that is taken (a default of null) leaves the loop with "completed", while the row stays
  `running`; the next drive starts from the first step.
- A communication is sent inside a transaction: if that is rolled back, the retry sends again; once its success is on record it is not sent any more (`DoneOnce`).
- An SQL error in a step is caught in JavaScript, but Postgres has aborted the transaction; `onError` is
  never reached and the run is driven into the same error again.
- `startWorkflowRun` has no caller outside tests; two starts with one key at once meet at the unique index, and the second one gets an error and not the run. (`engine.ts:85`)

*Register, proposals, models*:

- "Nothing found" is checked, something is recorded, "nothing found" is inserted: both are active (`NoContradiction`; `vulnerability.ts:364`); so they are in `CaseRecords`, and the surfaces that read them agree none the less.
- A role with `ai:accept_proposal` and without `vulnerability:write` (the shipped insolvency practitioner, `permissions.ts:187`) accepts; the record is refused afterwards (`apply-proposal.ts:126`).
  `AcceptedIsRecorded` therefore speaks of proposals whose decider, as stored, may record.
- A consent withdrawn between the check and the insert leaves a record that rests on an ended consent
  (`SpecialHasConsent` therefore asks for a consent that was granted, not for one that has not ended).
- Two people who make the same decision on one proposal both pass the check, and the trigger lets the same
  decision through twice: the second is stored as the decider, and both go on to record.
- A signal the model flags as sensitive whose driver is not health is gated by consent and then stored without the mark.
- A proposal for a regulated field cites the last invocation on the case, be it unrelated or failed.
- When a scan's proposals throw half-way, the invocation's row is rolled back with them although the model was asked.

*Ledger*:

- Two audited mutations of one row: the second read its "before" before the first committed (`BeforeIsTrue` fails; `record.ts:98`).
- `verify_audit_chain` does not compare the last row with the chain head, so it cannot see that the end of
  a ledger is missing; `Chain` here does.

*Conversations*:

- A message redelivered after it was stored is stored and assessed a second time (`AssessedOnce` fails; `vulnerability-scan.ts:120`, `route.ts:122`).
- A failed lookup of the account is caught and answered 202, so that the provider does not try again (`route.ts:113`): the `dropped` of `MessageArrives`.
- The pane's `windowOpen` for a letter is that of the rendering, against its comment "Recomputed here rather than trusted from the page".
- A reply clears `reply_due_at` also when its delivery failed (`conversations.ts:421`), and also of a message that came in while it was written; `OwedIsShown` is as much as holds: what is unread is due.
- `receiveInbound` decides whose message it is from a row it has read; a link made meanwhile leaves that message unattached (`conversations.ts:205`).
- `fileAttachment` compares owners only when the message has one (`attachments.ts:215`); a file rejected while it is being stored becomes a held document; a crash between receiving and ingesting leaves it pending for good.

*Access*:

- `completeMfa` neither counts nor clears failures; a sign-in under way when the lock is set still signs in (`session.ts:79`), hence the bound in `LockoutBounded`.
- A late failure turns a delivered webhook pending again, a late success reactivates a disabled endpoint, and an endpoint that is failing is
  not re-enabled by hand (`webhooks.ts:140`).
- `provision.ts:66-110` makes the tenant and its roles in two transactions.

*Casework and assessment*:

- A decision is recorded on the statement the page was rendered with (`DecidedOnCurrent` fails), against "recomputed on the server at submit"; so is a saved statement's household.
- The console opens a client and a case by locks in another order than the API; Postgres breaks one off.
- A dry run is said to "produce the same report as a live run" (`runner.ts:15-17`); it looks neither at the identity map nor at constraints (`DryRunPredicts` fails). A refused INSERT aborts the
  transaction, so that nothing at all of the failing run is recorded, against `runner.ts:19-21`. A re-run inserts again, against `mapping.ts:50`. Records that share an identifier share an outcome row.
- An item marked not applicable is not owed and keeps the case from being ready for advice for ever (`SurfacesAgree` states the exception); a verified consent item survives the withdrawal of the consent.
- `not`, `neq` and `eq` of a fact nobody has entered are satisfied by ignorance; three facts of the shipped rules are read so and are excepted in `UnknownOpensNothing` (`AbsenceIsAnAnswer`).
- `parseCaseTypeDefinition` checks the keys of stages for duplicates and not those of evidence requirements (`schema.ts:97-146`); with two requirements of one key, one of which is met, the key is met and owed at once. No template has this.
- `mhc-evidence-present` reads a fact whose name no requirement has, and several facts of the shipped rules are never set by a caller.

## 5. Proofs

All theorems are for every value of the constants that satisfies the module's ASSUME, or the hypothesis named: any number of
drains, people, rows, definitions, bounds. Those about `FirmSpec` speak of each part of `MCFirm` with any instance of it.

| Theorem | Says | Assumes |
|---|---|---|
| `JobQueueProofs!TypeCorrect` | `TypeOK` always | `LimitsAssumption` |
| `JobQueueProofs!ClaimsHold` | `ClaimsCurrent` always, overruns included | `LimitsAssumption` |
| `JobQueueProofs!FinalStays` | `FinalIsFinal`, overruns included | `LimitsAssumption` |
| `JobQueueProofs!KeysHold` | one job per key; `EmittedMeansQueued` always | `LimitsAssumption` |
| `JobQueueProofs!AttemptsAreHonest` | `AttemptsHonest` always, overruns included | `LimitsAssumption` |
| `WorkflowEngineProofs!TypeCorrect` | `TypeOK` always | `DefinitionAssumption` |
| `WorkflowEngineProofs!DryRunsDoNothing` | `DryRunDoesNothing` always | `DefinitionAssumption` |
| `WorkflowEngineProofs!ApprovalsGuard` | `GuardedNeedsApproval` always, with any number of drains and deciders | `DefinitionAssumption` |
| `WorkflowEngineProofs!EffectsAreHonest` | `EffectsHonest` always, with any number of drains, rollbacks and deciders | `DefinitionAssumption` |
| `WorkflowEngineProofs!StepsAreDoneOnce` | `DoneOnce`, likewise | `DefinitionAssumption` |
| `WorkflowEngineProofs!TheEndIsTheEnd` | `EndIsEnd`, likewise | `DefinitionAssumption` |
| `VulnerabilityGateProofs!TypeCorrect` | `TypeOK` always | `GateAssumption` |
| `VulnerabilityGateProofs!ConsentHolds` | `SpecialHasConsent` always | `GateAssumption` |
| `VulnerabilityGateProofs!NothingUndecidedHolds` | `NothingUndecided` always | `GateAssumption` |
| `VulnerabilityGateProofs!RegisterHolds` | `RegisterJustified` always | `GateAssumption` |
| `VulnerabilityGateProofs!DecisionsStand` | `DecisionStands` | `GateAssumption` |
| `VulnerabilityGateProofs!ClosedForGood` | `ClosedStaysClosed` | `GateAssumption` |
| `VulnerabilityGateProofs!AcceptedAreRecorded` | `AcceptedIsRecorded` always | `GateAssumption` |
| `AuditLedgerProofs!TypeCorrect` | `TypeOK` always | `LedgerAssumption` |
| `AuditLedgerProofs!ChainHolds` | `ChainSound` always | `LedgerAssumption` |
| `AuditLedgerProofs!ChangesHold` | `ChangesAudited` always | `LedgerAssumption` |
| `AuditLedgerProofs!LedgerImplements` | `Implements`: the ledger refines `AuditedStore` | `LedgerAssumption` |
| `InboxProofs!TypeCorrect` | `TypeOK` always | `NilIsNoRow` |
| `InboxProofs!OwedShown` | `OwedIsShown` always | `NilIsNoRow` |
| `InboxProofs!ConfirmedOnly` | `OnlyConfirmed` always | `NilIsNoRow` |
| `InboxProofs!HeldCleared` | `HeldWasCleared` always | `NilIsNoRow` |
| `InboxProofs!SentOnlyCarried` | `SentWasCarried` always | `NilIsNoRow` |
| `AccessProofs!AutomationIsKeptOut` | no automated principal is allowed a regulated permission, or one of another firm | - |
| `AccessProofs!PersonIsEntitled` | what a person who is allowed something must be and have | - |
| `AccessProofs!AcceptingIsAdvising` | of the shipped roles, only the advising ones accept on regulated information | - |
| `AccessProofs!PeopleDecide` | `RegulatedByPeople` always | `WellConfigured` |
| `AccessProofs!LimitsAreKept` | `LimitsHold` always | `FirmAssumption` |
| `AccessProofs!DeadForGood` | `DeadStaysDead` | `FirmAssumption` |
| `AccessProofs!AssistanceIsKept` | `AssistanceKept` always | `FirmAssumption` |
| `CaseworkProofs!FileIsVersioned` | `Implements`: the case file refines `VersionedFile` | `WorkAssumption` |
| `CaseworkProofs!WorkLands` | `NeverCollides` and `SavesLand`, the safety half of `LocksSuffice`, always | `WorkAssumption` |
| `CaseworkProofs!SomebodyMayAlwaysGo` | `SomebodyMayGo` of openings and of the case file, the other half but for its ENABLED, always | `WorkAssumption` |
| `CaseworkProofs!NothingLeftBehind` | `BalancedIsComplete` always | `WorkAssumption` |
| `CaseworkProofs!FirmTypeCorrect` | `FirmTypeOK` always | both |
| `AssessmentProofs!NoPennyIsLost` | `PenniesConserved` always | `BudgetAssumption` |
| `AssessmentProofs!FileIsTyped` | `TypeOK` (of `CaseRecords`) always | `RecordsAssumption` |
| `AssessmentProofs!SurfacesStayAgreed` | `SurfacesAgree` always | and `Regular(Type)` |
| `AssessmentProofs!OpeningIsHarmless` | `OpeningErasesNothing` | `RecordsAssumption` |
| `AssessmentProofs!HealthIsBlindToVulnerability` | `HealthIgnoresVulnerability` | `RecordsAssumption` |

**The hypotheses.** `DefinitionAssumption` is what `parseWorkflowDefinition` checks, and the theorems about the engine need nothing else: not the number of drains or deciders, not the shape of the definition.
What is true of the shipped templates and one drain only (`StatusHonest`, `EverythingEnds`) is left to TLC. `Regular(Type)` is what `parseCaseTypeDefinition` checks and that no two requirements of a type share a key, which it does not check; that every shipped type is
regular is the ASSUME `TemplatesAreRegular` of `MCAssessment`. `BudgetAssumption` says that pence are whole, a trigger figure is not negative, and weights are natural numbers of a positive sum: with none,
`distributePence` throws. `FirmAssumption`, `WorkAssumption`, `GateAssumption`,
`LedgerAssumption` and `NilIsNoRow` say that bounds are numbers, that what is under way at once is finite and that the value for "no row" is no row. `WellConfigured` says that
people hold roles a firm starts from and that workflows name capabilities of the registry; a firm may edit its roles, and then the theorem speaks of what `Authorize` asks for and no more.

**Claims** (`ClaimInv`). That a snapshot is current is not inductive: a reclaim could take the job
away. `SnapshotCurrent` is kept because it is claimed for each job by itself, of jobs whose lock has not run out. For the others `Room(j)` counts: the attempts of a job that are in
somebody's hand and the reports that came after it was settled are together no more than its overruns and the one claim a locked row stands for, and the late reports alone no more than the overruns. A reclaim uses the room an
overrun made, a claim takes it, a late report moves one from the first number to the second. `FinalIsFinal` follows: on a settled job the row stands for no claim, so whoever reports holds one that an overrun paid for.

**Keys** (`KeyInv`). `EmittedMeansQueued` needs that a key is never reused or lost: an absent row has no
key, a key has one row.

**Consent** (`ConsentInv`). A request reads the consent in one step and writes the record in a later one, and an amendment
writes back what it had loaded. `InsertsUnderConsent` and `AmendsUnderConsent` say that what a request carries is still
a consent of that client when it is written. They hold because a consent ends and never changes hands (`GrantsStay`), and a
row never changes its client or loses its mark (`RowsStay`). An amendment that names no consent re-checks the record's
own; that this is not "any consent of the client" needs the very property being proved (a special record has one).

**Decisions** (`DecisionInv`). `Warranted` says that a request which is about to record a proposal has seen it accepted; acceptance
stands by `StatusStays`, which rests on the trigger and not on the check before the UPDATE.

**What was accepted** (`CourseInv`). The decision and the record are transactions of one request, so the invariant follows the request: an accepted signal that can be
recorded has a row, or the person the proposal names as its decider has a request under way (`Carries`) that will write one, unless a request died or a consent ended, which nothing undoes (`ExcusedStays`).
`OnCourse` says that such a request has every check behind it but the permission. It is the stored decider whose request counts: of two people making the same decision, the second
replaces the first, and only what that one may do matters from then on.
`RowCourse` says what may become of a row of the register; `ClosedForGood` is one case of it.

**Chain** (`ChainInv`). What is committed is a chain only because what is about to be committed continues it:
`Continues` says of each transaction with audit rows that the committed ledger with these rows is a chain up to the
transaction's head, and `OneLinks` that at most one transaction of a tenant has any, which is the advisory
lock. `LinkExtends` is the core of it: a chain with one more row linked to its last is a chain.

**Changes and refinement** (`ChangeInv`). `Accounts` says of each transaction and row that the last of the transaction's audit
rows about it says what the transaction has written, unless it is just about to record it. With
`ChainInv` (a transaction's rows come after all committed ones) a commit makes its last row the last of the ledger. The same two invariants
give the step of the refinement: every action but `Commit` leaves `value` and `Log` alone, and a `Commit` appends to one tenant's log rows numbered
on from its last, with each row's value the last of what was appended about it.

**Attempts under overruns** (`BudgetInv`). The bound on attempts is a budget: every claim that was taken over while its
drain still works cost a mishap, and every such claim can be reported once. `Spare(j)` is the set of attempt numbers below the limit that somebody still holds and that are not the last word on job `j`, `Spent(j)`
the attempts beyond the limit; together they never exceed the mishaps. A reclaim moves one from the first to the second at most, and a late failure, which compares the
attempts of its own snapshot, uses up a spare one.

**Dry runs, guards** (`DryInv`, `GuardsHold`). A dry run stays dry in every copy a call has of it (`SameDry`), which is the reason that a later commit does nothing. An approval guards what cannot be
reached without it: for each set of steps `R` that is closed under everything that can happen without the yes (`Before`), run, rows and every call stay within `R` (`AllWithin`) until somebody has given it (`yes`), whatever was decided over it later. This is
about sets and not about paths, so it needs no induction over the definition.

**Records and effects** (`Honest`). Two things are followed for each step: no success is written, in the tables or by a call under way, without its effect being counted, and no effect is counted without a row, be it this call's or one it
collided with (`CallHonest`). Both survive a commit because rows are only ever added, and a rollback because it drops a call's rows with its effects. A step that cannot fail has rows of successes only (`OnlySuccesses`), so that for it a collision hides nothing.

**Done and ended** (`DoneKeeps`, `ReadAsked`). A success on record is seen by every later `SELECT`, so only a call that looked before it was committed can do the step again (`InvolvedIn`), and none becomes such a call afterwards.
At an end step that is on record, a call can only walk past it and leave (`AtEnd`). What a late decider writes is about an approval that had been asked for (`ReadAsked`), so nothing new is asked.

**Conversations**. `TypeInv` carries that what a delivery has read is a row that is still there. `OwedShown` is nearly inductive by itself. `OwnInv`: whose client a delivery or a page has read was confirmed for that thread,
and confirmations are never taken back, so what is written later on is right. `HeldInv`: no two deliveries work on one row (`Apart`), so the file a delivery has fetched is the file of the row it writes. `SentInv` counts: rows
down as sent and requests that have handed over and not recorded are together at most what the channel took.

**Sessions, keys, webhooks** (`LimitInv`). None of the limits is inductive. Between two locks, the guesses looked at are the counted failures while the account is open; once it is locked nobody new gets in, and the
sign-ins that had read it are what is left (`GuessesLeft`). A key's `Counted` is the log plus the lost entries plus the calls that are let through and not logged yet, and a call counts before it is logged, which is how `Limit` is
overshot by one less than the calls at once. A delivery is pending only with attempts left, whatever a late answer writes (`Retried`).

**A model and a firm** (`RecordInv`, `IInv`). `Look` checks the person, `Decide` writes later, so what was checked is carried (`Entitled`): whoever is deciding on a
regulated proposal has a second factor and advises. It stays true as proposals are only ever added and no action changes whether one is regulated. The check itself is
`PersonIsEntitled` and `AcceptingIsAdvising`. `RecordInv` says of each recorded invocation what `assembleContext` makes of its context: on a nested one,
what is sent and what is withheld are each other's complement, since the names of the allowlists are pairs and the leaves of a scan's context have two keys.

**The case file and its refinement** (`FileInv`). Whoever has come past a lock holds it (`TxFits`), nobody else does (`Alone`), and what such a transaction has read of the last version is still the last: exactly the last version
stands (`LastStands`), and it was retired by this transaction and no other. Then every commit is the one step of `VersionedFile` that publishes a version, every other action a stutter, and the unique index on
the standing one has nothing to turn away.

**References** (`OpenInv`). What is given under a prefix is `1 .. Top(t)`; a number that is drawn and not committed is `Top(t) + 1` (`Numbered`), whose owner holds the lock on the prefix (`OpenFits`, `Held`).

**No deadlock** (`LocksInv`, `OrderInv`). Which locks a transaction holds at most at each point is inductive by itself, and with who holds them alone (`FileInv`, `OpenInv`) it says who can go on. In the case file, whoever has come furthest:
who holds the chain never waits, if nobody does then nobody waits for it, and among the rest the one who has the case row waits for no other row. Of the openings, whoever has the chain goes on, or waits for the prefix of the cases;
its holder goes on too, or waits for the chain, and these two are the circle that Postgres breaks. No larger circle can form, which is what the check for two in `DeadlockBroken` rests on. With nobody holding the chain, a
prefix is held by somebody past its lock, who waits for nothing that is held; the insert never waits, since the number is drawn under the same prefix.

**Migration** (`MigrationInv`). A row of a run stands for a record, every record that was passed has a row, and one that was brought is attached to its own (`Kept`). That does not yet give completeness, as records share rows;
it is the count that does: as many rows of an entity as there are records, and a row for each record, means one record per row (`OnePerIndex`, by the theorem on surjections of finite sets).

**Pence** (`NoPennyIsLost`). A sum is a fold over a sequence, defined by recursion on its length, and the library's induction theorems are out of reach. The induction is done on sets instead: a
family of subsets of a finite set that holds the empty set and, with each of its sets, that set and one element more, holds the whole set (`Grows`, which needs only that a non-empty finite set of numbers has a
least element). With it a sum over indices is shown to exist and to be determined (`SumsExist`, `OneTable`), which gives what is needed of sums: they add (`SumOfSums`), scale (`SumScales`) and are monotone (`SumIsAtMost`).
The shares of `distributePence`: the floors fall short of the total by less than their number, and by exactly the sum of what rounding lost over the total weight. Who gets one of the pennies left over is decided by how many
come before (`Before`, a strict total order); so the ranks are all the numbers from 0 on, each once (`RanksAreNumbers`), and as many shares get a penny as pennies are left (`SharesAreExact`). A share without weight loses
nothing, so all that lose something come before it, and they are more than the pennies left.
A line of a statement is rounded by half a penny at most, and the drift of a total is the sum of the drifts of its lines (`LinesAreNear`).

**The file of a case** (`FileStays`). The type invariant is inductive. `SurfacesAgree` relates two readings of one resolution:
given that a key has one requirement, a requirement of the stage that the evidence map lacks is resolved as missing, expired or declared, and these are the states that are owed, or as not required, which
for what the stage asks for happens through an item marked not applicable and in no other way; a case is ready only without a signal about evidence, so that nothing of its stage is owed. `OpeningErasesNothing` compares resolutions before and after a row with status
`outstanding` is added: it counts as no row. Health: the weight of a vulnerability's own signal is 0, and recording one settles the requirement of an assessment at most, so the signals that
weigh are a part of those before (`RecordingSettles`), and a part of a set weighs no more (`SumOfAPart`, `ScoreGrows`).

**Only model-checked.** `StatusHonest`, which is not true of every definition, nor of two drains. And what the prover cannot reach: the liveness properties (`EveryJobSettles`, `EverythingEnds`, `TransactionEnds`, `MessageArrives`), which rest on fairness;
the part of `LocksSuffice` that says that who may go on (`MayGo`) has a step to take, which is stated with ENABLED; and `UnknownOpensNothing`, since a rule is evaluated by a recursive operator. That property is about the shipped types besides, not about any type:
a rule may be written so that ignorance satisfies it (section 4).
Statements about a particular shipped template hold of it by TLC only, unless they follow from `Regular`.

## 6. What is not modelled

- Rendering and thin edges of the web application (most of `apps/web`, `packages/ui`): no state of their own. The server actions that carry logic are modelled with the component they drive.
- Adapters and simulators (`packages/integrations/src/adapters`): external services, without state worth checking.
- Password and TOTP cryptography, provisioning, seeds, plans and schema migrations: one-off or not control flow. Row-level security policies are declarations, not steps; the models take tenants
  as separate and look at one.
- Prompts, output schemas, redaction patterns, costs and models of a capability; the text Case Intelligence composes.
- The engine's accumulated context and its conditions: branches and `when` are left open, which considers every way they may go. What two calls do to the context (`engine.ts:238`) is therefore not
  checked, and is listed as a hazard without a property.
- Disclosure wording and reviews of vulnerability, redaction of audit rows, assignment of conversations, signatures of webhooks and scopes of keys, support access of platform operators.
- Other case-file sections (employment, creditors, notes, tasks, documents): audited single-row edits that nothing else reads.
- Time is modelled by the comparisons that are made with it.

What would come next: the queue and the engine composed, once the repository has the drain that joins them; the meaning of an expression by a recursive function, about which could be proved by the same induction on sets
that the sums use which rules a missing fact satisfies.
