# Verification of raytsystem

raytsystem (`src/src/raytsystem`, Python) is a local operating system for
agent work: it ingests sources into a canonical ledger, keeps a task board,
runs digital employees on tasks, and surrounds them with governance services.
Everything is files and SQLite databases on one machine, written by several
processes at once, any of which may die anywhere. This directory holds TLA+
models of that code, TLC runs, and TLAPS proofs.

`PROJECT.json` lists, for every definition that models code, the source lines
it stands for; for every property a mutant of the code that breaks it; and the
hazards of the code with the properties that would catch them.

## Inventory

| Component | State | Operations | Hard behaviour | What makes it correct |
|---|---|---|---|---|
| Control database `control.py` | lease rows, operations, promotions, outbox | acquire, renew, verify, release, guard | takeover, stale clock samples, a guard held over a filesystem commit | a fence names one owner; no stale write |
| Task ledger `tasking.py` | task, event and generation files, `CURRENT` | create, transition, snapshot, history | lock-free readers, crash between files, retries | readers see valid boards; commands apply once; refines the board |
| Ingestion and promotion `ingestion.py` | staged bundles, write-ahead log, `ledger/CURRENT`, run manifests, views | ingest, recover, rebase, promote, reconcile | leases that run out, crash at any write, expiring approvals | no lost, unapproved, half-visible or repeated commit |
| Execution plane `execution/` | assignments, runs, leases, receipts, budgets | assign, heartbeat, pause, cancel, recover | takeovers, late results, emergency stop, retries | only the attempt on record is launched; only the owner's result is reviewed |
| Platform record store `platform_store.py` | record heads, receipts, events | append, receipt | several transactions per service call | optimistic revision check |
| Emergency `emergency/` | the stop, breakers, receipts | activate, recover, observe, close | concurrent activations, half-done calls | actions are not lost; breakers latch |
| Workflows `workflows/` | run and step records | start, drive, approve, deny, wake, pause, resume, cancel | drive against cancel, deaths | the run tells the truth about its steps |
| Notifications and outbox `notifications/` | notices, dedup pointer, outbox entries | emit, transition, prepare, mark | repeated emits, late reports | emits are counted; attempts are bounded |
| Packages `packages/` | revisions, pointer, staging and installed trees | ingest … rollback | source edited during a copy, overlapping activations | what is installed is what was approved |
| MCP governance `tooling/mcp.py` | server record, revisions, policies | discover … block, invoke | block against enablement | monotonic states |
| Telemetry `telemetry/` | traces, spans, exports | create, record, close, export | overlapping updates of a span | the spans are one tree |
| Evals `evals/` | runs, results, baselines, comparisons | run, accept, compare, reject | results that differ between two runs of one observation | a verdict rests on what was accepted |
| Replay `replay/` | execution records, effect results, plans | record, plan, stage, materialize | results recorded between plan and use | no side effect is repeated |
| Gateways `protocols/` | ACP sessions and sequences, A2A requests, audit streams | initialize, event, resume, end; submit, cancel | lost replies, repeated tokens | the streams tell everything, once |
| Secrets `secrets/` | the key in the keychain, encrypted blobs | probe, encrypt, decrypt, rotate | two first probes | what was sealed can be opened |
| Documents `documents/` | Markdown files, identities, index, revisions, operations | create, update, rename, move, restore, rebuild | edits by hand, crash between file and record | one path per identity, replaced text is kept (it is not: `DocumentsReplaced`) |
| Skill authoring `skill_authoring.py` | `SKILL.md` files, journal, witness files, receipts | save, fork, recover, read under the guard | crash at every link and rename, edits by hand | a reader sees committed text only |
| Task workspaces `execution/workspace.py` | workspace directories | prepare | sources that move while they are read | handed over whole, from one moment |
| Git checkpoint `git_checkpoint.py` | commit, reference, records | create, verify, commit guard | crash between the three | record and reference agree |
| Drafts `saving.py` | draft bundles, operations, leases | stage, join | takeover, timeout, crash | a result has its bundle |
| Installation, templates `bootstrap/`, `templates/` | the user's project, managed blocks, installation record | plan, apply, uninstall, initialize | user edits, interrupted calls | the user's files are kept (not what is written meanwhile: `InstallationUsers`) |
| Brand migration `brand_migration.py` | legacy and current names | migrate, roll back | other processes at the same names | nothing is lost |
| Backups `backup/` | bundles, records, restored trees | create, verify, restore | edits during the copy | disclosures hold no secret |
| Schema migrations `migrations.py` | version in the configuration, journal, records | plan, apply | overlapping apply calls | an unfinished migration can be retried (not always: `MigrationsRetry`) |
| Code graph `codegraph/` | snapshots, `CURRENT`, write-ahead log, cache | detect, build, query, status | edits during a build, lease loss | each file of the graph was there during the build, and since the question |
| Search, projections, linting, extractors | derived data | rebuild, query | — | functions of a generation |
| Tool hub, web control plane, command line | sessions | routing, printing | — | thin layers over the services |

How they interact: the execution plane drives the task ledger and takes leases
from the control database; promotion takes two leases and holds them over the
swap of `ledger/CURRENT`; the workflow engine and the execution plane ask the
emergency service before they act; packages consult evals and approvals. There
are no messages: processes meet in files, SQLite rows and advisory locks.

## Modules and code

* **ControlLeases** - the lease table. One variable for the rows, one for the
  tokens workers remember, one for the open guard. `Acquire`, `Renew`,
  `Release`, the guard's opening, the write under it and its end are actions;
  every call uses a clock sample up to `MaxLag` old, because the code reads the
  clock before it waits for the database.
* **TaskRules** - commands, statuses and the transition table of `tasking.py`.
  **TaskBoard** - the abstract board: a command is applied atomically, once.
  **TaskLedger** - the writers: lock, publish object, event and generation,
  check the closure, re-read and replace `CURRENT`; deaths between any two
  steps; readers without a lock. `ImplementsBoard` is the refinement, with the
  board, the applied commands and the clock computed from the generation that
  `CURRENT` names.
* **Promotion** - the ingest pipeline, one durable write per action, for two
  operations of one source or of two (`SourceMaps`). Content-addressed objects are represented by what they hash: a generation is
  the sequence of operations committed, a transaction is an operation on a
  generation.
* **Evidence** - what Promotion treats as data: classification and quarantine,
  the definitions of sources and revisions, normalization snapshots, the
  proposals (made from the first excerpt or imported), the validation of a
  bundle, also under the guard, and the merge of its claim with the active one.
* **ExecutionSaga** - one task's heartbeats by several services: preflight,
  checkout, transition, binding, launch, renewal, verification, review,
  receipt, unwinding, recovery. It contains the task ledger and the lease
  table as far as the saga sees them.
* **PlatformStore** - `append_record`'s revision check, which all platform
  services use. **Emergency**, **Workflows**, **Notifications**, **Outbox**,
  **Packages**, **McpGovernance**, **Telemetry**, **Evals**, **Replay**,
  **Gateways**, **Secrets** - one service each. A call is entered, remembers
  what it has read, and makes one store transaction (or one directory
  operation) per action; a moved record ends it where it is, as the exception
  does. **Platform** composes them: the workflow calls that
  `assert_runtime_allowed` opens need the stop to be off, and a quota chosen at
  the start says which services a behaviour exercises.
* **Documents**, **SkillAuthoring**, **TaskWorkspaces**, **Checkpoints**,
  **Drafts**, **Installation**, **BrandMigration**, **Backups**,
  **Migrations**, **CodeGraph** - the services that keep files in the
  workspace. Here a step is one link, rename, exchange, write or transaction,
  because a process may die after each of them and people edit the same files
  with programs that take no lock. A file is its text, and its inode where the
  code compares inodes. **Workspace** composes them with Evidence, one area per
  behaviour; a migration is applied after a backup was made.

Abstracted everywhere: payloads, hashes, names and messages (equal content is
an equal value), logging, the hash chain of events, feature flags (a disabled
service refuses every call and changes nothing).

## Runs

| Run | Expectation | Question |
|---|---|---|
| `Core` | pass | The four stores everything rests on, one per behaviour. Lease table: three workers, two of them retries of one run, two partitions. Task board: nineteen commands on two dependent tasks in every order. Task ledger: two writers with crashes, retries and a reused key, refining the board. Promotion: two operations (one of the real corpus) of one source or of two, two pipelines, crashes, one expiry |
| `PromotionRepeat` | violation | An operation is committed at most once |
| `PromotionStale` | violation | A child is committed only on a terminal parent |
| `ExecutionSaga` | pass | Two services, two keys, two starts: retries of one key with the same start and with another, rival keys, faults and deaths |
| `ExecutionTwice` | violation | A run's process is started at most once |
| `ExecutionOwner` | violation | A running task is moved only by its lease owner |
| `Platform` | pass | Two overlapping calls of each of eleven platform services, one of which may die |
| `EmergencyBreaker` | violation | An open security breaker keeps the runtime stopped |
| `Workspace` | pass | Two overlapping calls of each of eleven file-keeping parts, one of which may die, while people edit the files |
| `DocumentsReplaced` | violation | Text the document service takes off a path can be restored |
| `InstallationUsers` | violation | What the user writes while an installation is at work is kept |
| `MigrationsRetry` | violation | A migration that is not done can be done |

What the passing runs show, part by part:

* `Core`: a fence names one owner (`FenceNamesOneOwner`), a checked guard stays
  valid while it is open (`GuardStaysValid`), nobody overtaken writes under one
  (`NoStaleWrite`); work rests on finished dependencies (`WorkRestsOnDone`);
  lock-free readers load whole generations (`ReadsStayValid`), answers and
  retried answers stay true (`AcksStayTrue`), the files are the board
  (`ImplementsBoard`) and every command ends (`CommandsEnd`); a success is in
  the ledger (`SuccessIsCommitted`), commits are never lost (`LedgerGrows`),
  replaced parents are reconciled (`ParentReconciled`) and the views never go
  back (`ViewsFollowLedger`).
* `ExecutionSaga`: an agent process is started only for the attempt that is on
  record, with its lease and start (`LaunchIsOnRecord`); what goes to review is
  the work of the run that set the task running (`ReviewIsRunnersWork`) and
  stays (`ReviewedWorkKept`); a lasting emergency stop drains every execution
  (`EmergencyDrains`).
* `Platform`: breakers are probed at most once between closes
  (`ProbesBounded`) and no active stop is lost (`ActionsNotLost`); a run says
  what its steps say (`RunMatchesSteps`); notices count every emit
  (`EmitsCounted`); every hand-over is reported once (`SendsReported`); what is
  installed was approved (`InstalledAsApproved`); MCP revisions only advance
  (`RevisionsAdvance`); spans form a tree (`SpansRooted`); verdicts rest on
  accepted results (`VerdictsGrounded`); replays repeat no effect
  (`NothingRepeated`); the records of gateway sessions and requests are what
  their audit streams say, entry by entry (`StreamsTellAll`); sealed blobs open (`BlobsOpen`).
* `Workspace`: an identity is at one path (`IdentitiesUnique`); a guarded
  reader of skills sees committed or hand-written text (`GuardedReads`); a task
  workspace is whole and what the service read for it was current at one moment
  (`HandedTogether`; in fixture mode the commit is the caller's and nothing is
  claimed of it, and nothing is claimed of a call under which a source was put
  back to an earlier version, for the second look compares hashes); checkpoint record and reference agree (`CheckpointsAgree`); a
  draft result has its bundle (`ResultsWhole`); what the user wrote while no
  installation was at work survives them all (`UsersFilesKept`); brand
  migration loses nothing (`NothingLost`); disclosures hold no secret
  (`NothingDisclosed`); of what the code graph's `CURRENT` describes, and of
  what a query judged it by, each file had that content during the build, or
  since the question (`AnswersCurrent`); a succeeded operation keeps its
  evidence in a claim (`EvidenceStands`).

Two properties hold under a condition that the definition states:
`HandedTogether` as just said, and the second half of `EvidenceStands`: a live
worker whose preparation lease ran out may define a source a second time, after
which evidence of that source no longer resolves and the next promotion of it
is refused.

The eight violations are disagreements between the code and a docstring, test,
ADR or document; `PROJECT.json` quotes the lines.

* `PromotionRepeat`: `recover_run` loads its bundle before it takes the leases;
  if another worker rebases and commits the operation meanwhile it is rebased
  and committed again.
* `PromotionStale`: run manifests and operation rows are rewritten without a
  fence.
* `ExecutionTwice`: the store answers a record that is the same to the byte
  with success, and a retry gets the live lease of its run back, so of two
  retries with the same `started_at` both start the process.
* `ExecutionOwner`: a second heartbeat with another key blocks a running task
  whose lease it does not hold.
* `EmergencyBreaker`: the breaker is stored as open first; if the activation
  that follows meets a concurrent change it raises, and because the breaker is
  then already open no later observation activates the stop.
* `DocumentsReplaced`: the way back of a failed move unlinks the destination,
  whatever an editor has saved there since the link. An exchange that is
  swapped back after a second edit takes text away in the same manner.
* `InstallationUsers`: files are sorted into new and existing ones and written
  later without another look, and a managed block is read and written back in
  two steps; what the user writes in between is overwritten.
* `MigrationsRetry`: a loser writes back the configuration it read. With a third
  call, or a death or failing write in the loser, the journal says `applied`
  over the old configuration, which `apply` refuses for ever.

### Bounds

Every bound is a constant named in its module. Two concurrent actors are enough
for every race described under hazards (a reader of stale state and a writer);
ControlLeases has three so that a retry, the original and a rival meet. Lease
time is small (`TTL = 1`, `MaxLag = 1`, `MaxClock = 1`), which still contains a
renewal, an expiry, a takeover and a late sample. The four parts of Core share
no variable, so a behaviour moves one of them, chosen at the start. Promotion has two operations because its
properties relate a generation to its parent. The workflow has two commands
with a gate between, the shortest run in which a drive stops, is decided and is
driven again. The outbox has nine calls, enough to use up two attempts and to
overlap one more. Packages begin fresh or with one revision active, so that
five calls reach a supersede, a rollback and their races. In Workspace every
part has three calls (task workspaces and backups two, checkpoints four) of
which two overlap and one may die, so that a third finds what the death left;
documents and skills count an edit by hand as one of the three. In Evidence
the budget of changes (`MaxChanges`) is shared by another extractor version, a
stricter scanner, an edited manifest, a damaged snapshot, a lost lease and a
death. `DocumentsReplaced` and
`InstallationUsers` use the bounds of `Workspace` with one area;
`MigrationsRetry` has three callers, who all overlap, and no deaths or
failures. Backups begin
with a secret and a local path, one in what is published and one in what is
diagnosed. The code graph has three calls and edits of two files together,
enough for an edit between a build's two looks or between a query's. Deadlock is not
checked where the system is request driven or the bounds stop it; TaskLedger
and ExecutionSaga check progress as a property instead.

### Fairness

`TaskLedger` assumes weak fairness of taking the lock (the code waits on a
blocking advisory lock that the system hands on) and of a writer's next step;
a crash is a step too and releases the lock, as the kernel does.
`ExecutionSaga` assumes that a renewal loop that keeps failing notices it, that
a stored stop signal is acted on, and that a cancelled process ends (the
supervisor kills it). Nothing else is fair: no client has to retry.

## Proofs

Eight modules hold theorems. Each is about the specification a run checks, for
every value of its constants: any number of processes, calls, deaths and
records. Every argument has the same shape. An inductive invariant, stated at
the end of the component's module as a conjunction of named parts, holds in the
initial states; every action preserves it (one lemma per action or per group of
actions that change the same variables); the property follows from it, or, for
an action property, from it and the step. The invariants were first checked by
TLC. What they add is nearly always the same idea: what a call remembers
between two of its steps, and how much of that is still true when it is used.

| Module | About | Theorems of properties that runs check | Inductive invariants |
|---|---|---|---|
| `ControlLeasesProofs` | lease table | `FenceOwnership`, `GuardValidity`, `StaleWritesExcluded` | `LeaseInv` |
| `TaskBoardProofs` | abstract board | `WorkIsGrounded` | `BoardInv` |
| `TaskLedgerProofs` | task files | `ReadersAlwaysLoad`, `AnswersStayTrue`, `LedgerImplementsBoard` | `LedgerInv` |
| `PromotionProofs` | ingest and commit | `SuccessAlwaysCommitted`, `LedgerOnlyGrows`, `ParentsAreReconciled`, `ViewsOnlyFollow` | `PromotionInv` |
| `ExecutionSagaProofs` | heartbeats | `LaunchesAreOnRecord`, `ReviewsAreTheRunners`, `ReviewedWorkStays` | `SagaInv` |
| `RecordsProofs` | platform records | `SealedBlobsOpen`, `VerdictsStayGrounded`, `ReplayRepeatsNothing`, `SpansStayRooted`, `EmitsStayCounted`, `StreamsAlwaysTellAll` | `SecretInv`, `EvalInv`, `ReplayInv`, `TraceInv`, `InboxInv`, `OutboxInv`, `GatewayInv` |
| `GovernanceProofs` | governance, and the platform as a whole | `GovernedRevisionsAdvance`, `StopLosesNothing`, `BreakersLatch`, `InstalledIsApproved`, `RunsMatchTheirSteps`, `PlatformSendsReported` | `McpInv`, `EmergencyInv`, `PackageInv`, `WorkflowInv` |
| `WorkspaceProofs` | services that keep files | one for each of the ten properties of the run `Workspace` | `CheckpointInv`, `DraftInv`, `BackupInv`, `SpaceInv`, `BrandInv`, `DocumentInv`, `GraphInv`, `InstallInv`, `EvidenceInv`, `SkillInv` |

**The lease table.** `LeaseInv` adds that a worker's token never exceeds the
row's (`TokensBehindRow`), that a row's owner is the run its newest token was
handed to (`RowOwnerHasNewestToken`) and that an open guard's rows keep owner
and token (`GuardKeepsRows`). Without the second, an owner that acquires again
and keeps its token could not be told from a takeover.

**The board and its files.** `BoardInv` joins types, dependencies, the command
count, key uniqueness and that applied commands name tasks of the board
(`AppliedTasksExist`); it needs that `done` is final in the transition table
(`DoneIsFinal`) and that a fresh command is not in the log (`FreshIsNew`).
`LedgerInv` says of the files that every task of the history `CURRENT` names has
a newest entry, so that the board computed from it exists (`BoardChosen`), that
a writer past the lock holds it (`LockHeld`), and that what an accepted command
is about to publish extends the generation it read, which is still current
(`WorkOnTop`). Every move of the pointer is then one command of `TaskBoard` and
every other step is invisible there, which is `LedgerImplementsBoard`.
`LedgerWorkIsGrounded` and `LedgerAppliesOnce` carry the board's theorems over
to the files.

**Promotion.** `WorkStands` says what a worker has established when it reaches
a step: from the plan on, its parent is no longer than the active generation
and was found reconciled if it is still the active one; from the publication
on, its generation is on disk; past its commit, its claim is in the ledger. A
parent once reconciled stays so until it is replaced, which is why a check made
many steps before the swap still holds there, even for a worker that lost its
leases meanwhile. The two violation runs show what does not hold.

**Heartbeats.** `CallStands` says what a call knows as long as the board has not
moved: that it set the task running at its revision, that it found the task
ready, that its result was verified, that its record is the stored one.
`RunningStands` says the same of the command kept in the idempotency table, and
`RescueStands` of a recovery. A call that stands before the launch has its own
record and lease in the store. Two such calls of one run are possible when they
started in the same millisecond, which is what `ExecutionTwice` shows; no other
call gets there.

**Platform records.** A call that writes with a remembered revision writes on
the head it read, or is refused; the invariants say what else it read is still
true then. `OutboxInv` has `CallsRemember`, `AttemptsLeft` and `NoEntryYet`;
`GatewayInv` has that a session not opened is blank; `WorkflowInv` has that
steps are done in the order of the graph (`InOrder`) and what each kind of call
has read or written so far (`WorkCallStands`). `ServiceSteps` reduces a step of
the composition to a step of one service or a stutter of it, so that each
theorem is about the specification the run `Platform` checks;
`PlatformTypeCorrect` is the type invariant of the whole.

**Files.** `CkCallStands`, `StageStands`, `PrepStands`, `DocCallStands`,
`BuildStands`, `EvCallStands` and the like say what a call that died leaves
and what the next one may assume. Four are worth spelling out:

* `SkillInv`: whoever is past the exclusive lock is alone with it
  (`LocksHeld`). Without an open intent there are no witnesses and every live
  file is the last committed or hand-written text; with one, all other skills
  are intact and the target is as `SaveStands` or `ForkStands` say until the
  receipt is stored, and is the last text after it (`FilesStand`). What is the
  transaction's own is told by inode, so an edit by hand at any moment is
  displaced and put back rather than lost.
* `GraphInv`: the workspace's past is a sequence of moments, and every file a
  pass has looked at had what was found at one of them since the pass began
  (`DoneSeen`, `BuildStands`, `QueryStands`). Contents may come back, and
  directories are listed and files read one by one, so nothing says that all
  files stood together; that the files found in the two passes were there
  before and after one moment with the snapshot's head is what remains. The
  builder with the newest fence reads later than what `CURRENT` names, so the
  pointer never goes back in time.
* `InstallInv`: a file that the user wrote while no call was at work is on no
  record as ours and on no list of a call at work as new, and the text a call
  has read to write back is still the user's (`InstallCallStands`).
* `EvidenceInv`: a bundle holds the operation's own evidence and, while its
  parent is the active generation, all evidence of its statement
  (`BundleStands`); who looks a source up or makes it still owns its lease,
  unless somebody alive lost one (`EvCallStands`).

`WorkspaceTypeCorrect`, `PromotionTypeCorrect`, `SagaTypeCorrect`,
`LedgerTypeCorrect`, `TypeCorrect`, `LiveLeasesKept`, `BoardTypeCorrect`,
`CommandsApplyOnce`, `KeysAreUnique`, `OutboxTypeCorrect` and
`EverySendReported` (the outbox alone) are proved beside these.

### Assumptions on constants

All are named `ASSUME`s of the module that declares the constant, and TLC
evaluates them on every run of a module that extends it. Most say that a bound is a natural number, that a
parameter is a function or a sequence of the right kind, or that a null value is
not a member (`ConstantsOK`, `BoundsOK`, `PromotionConstants`, `SagaConstants`,
`EmergencyAssumption`, `PlatformAssumption`, `DraftsAssumption`,
`BackupAssumption`, `SpaceAssumption`, `DocumentAssumption`,
`NotificationAssumption`, `McpAssumption`, `SkillAssumption`). The ones that say
something about the system:

* `CommandsOK`: a task id has one creating command (the code derives the id from
  the operation key).
* `OutboxAssumption`: the retry limit is between 1 and 20. The shipped policy
  says 3; the code does not validate the value, and an entry with more than 20
  attempts would no longer be readable.
* `WorkflowAssumption`: the order of the steps respects the edges, which the
  definition's validation computes.
* `SpansAssumption`: there are finitely many spans and one is the root.
* `GatewayAssumption`: sessions and requests have different audit streams.
* `EvidenceAssumption`: files and revisions have different identifiers, and
  every revision makes one of the statements.

### Only model-checked

Liveness (`CommandsEnd`, `EmergencyDrains`), because the prover has neither
fairness nor `ENABLED`; and the eight violations, which are counterexamples.
Every other property of a passing run is a theorem. Induction over data is out
of the prover's reach: no theorem says what a recursive definition computes for
every input, and no module that a proof uses has a RECURSIVE operator.

## Plan

1. Proofs: what a repaired code would guarantee where a violation run shows the
   present one does not; `ExecutionSaga` as an implementation of a task of
   `TaskBoard`.
2. A second task in ExecutionSaga, so that two runs meet at one budget policy.
3. The tool hub's run journal and pipeline; authority and policy decisions as
   operators compared with a table.

## Not modelled

* Parsing, extraction, search, ranking, rendering and clustering compute data
  from data and share no state: the extractors, the search and query layers,
  the rebuildable views, the analysis half of the code graph, Markdown.
* Cryptography, SQLite, Git and the file system are trusted to do what their
  interfaces say (atomic rename, exchange and link, serialised writers).
* The web control plane and the command line translate requests into the calls
  modelled here. Contracts are data definitions.
* Execution configuration, authority and policies are decisions over
  configuration files that nobody changes while they are read.
* The tool hub runs external programs and journals what they did; it is next in
  the plan.
* Within modelled parts, `PROJECT.json` says under each component what is left
  out. Behaviours the models reach and no property forbids, because the code
  claims nothing about them: a workflow start that died leaves steps that make
  the same key conflict; an install that died leaves a staging directory that
  has to be removed by hand; a rotation may overwrite a blob that was encrypted
  to the same path meanwhile; a query loads `CURRENT` a second time after it
  judged it (`codegraph/querying.py`), so that a build between the two gives an
  answer from a newer snapshot than the one judged; the files of a code graph
  need never have stood together, when one is edited and put back while the
  others are read; and `write_bytes_atomic` makes a missing directory anew, so
  that a brand migration rolled back by another call may leave a second, nearly
  empty state beside the old one.
* Edits by hand are those of an editor that replaces the file. A program that
  writes into the open file of a skill changes both the original and its
  witness, which no link count or inode can tell.
