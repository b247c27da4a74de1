# Verification of Chatlog

Chatlog turns the transcripts of coding agents into an immutable, content
addressed corpus, derives structure and insights from it, and hands selected
context back to agents.  Several processes (CLI, MCP server, workbench, hooks)
work on one data root; there is no server that owns it.  What makes it correct
is therefore how files are written, renamed, linked and removed, in what order,
under which lock, and what a process that finds a half-finished state does with
it.  These modules model that, not the text processing.

## Inventory

| part | state | operations | what is hard |
|---|---|---|---|
| Operation intents (`operation-intents.ts`, `durable-fs.ts`) | `operations/{pending,completed,aborted}`, `corpus/manifest.json` | create, advance, resume, abort, complete, recover | crashes between any two writes, the authority point, retries |
| Ingest and importers (`ingest.ts`, `importers/*`) | the manifest, content-addressed objects | ingest, import | recipe migration, sampling, the transaction above |
| Source authority (`source-authority.ts`) | `active_sources` in SQLite, a per-process guard cache | reconcile, assert | a cache of a file that others replace |
| Derivation (`derive.ts`, `refinery.ts`, `derived-*.ts`) | `derived/`, refinery, invalidation marker | derive, refine, mark, clear, read | several files written one after the other, stale readers |
| File lock (`lock.ts`) | `<name>.lock`, `<name>.lock.reclaim` | acquire, reclaim, release | reclaiming from a dead owner without ever removing a live lock |
| Insight ledger (`insight-ledger.ts`) | immutable ledgers, compiled snapshots, `insight-current.json`, SQLite rows | apply, recompile, migrate, read | compare-and-swap over three writes, its own lock, idempotent retry |
| Context sessions (`context-session.ts`) | session files, staged outbox | create, open, reserve, commit, publish | token budget, capacity, exactly-once events |
| Context plane (`context-plane.ts`, `context-events.ts`, `context-release.ts`) | event batches, release pointers | prepare, confirm, feedback, outcome, authorize | races of confirmations, checks outside the lock |
| Pattern annotations (`pattern-annotations.ts`) | records, manifest, SQLite lock | write, load | compare-and-swap, chain of predecessors with a limit |
| Recall (`recall-budget.ts`, `recall-runtime.ts`) | an in-memory budget ledger | consume, run rounds | parallel branches, timeouts, late answers |
| Memory lab (`workbench/memory-lab.ts`) | drafts and finals | save, finalize, apply | a queue per process, several processes |
| Experience memory, nominations | an aggregate file | read what the ledger published; merge | read-modify-write without a lock |
| Adapters, events, projection, redaction, candidate ranking, analytics, encoding | none | pure functions | (not a matter of state) |

Interaction: every command that touches the corpus takes the ingest lock, runs
recovery, reads the manifest, reconciles SQLite, writes an intent, replaces the
manifest, derives.  Readers (context plane, insight ledger, recall, memory lab)
take no ingest lock: they see the corpus through SQLite and through the checks
of `derived-authority.ts` and `derived-invalidation.ts`.  The context plane
writes its events under the ingest lock, nested in the finalization lock, and
the insight ledger has a lock of its own.

## Modules

| module | what it is |
|---|---|
| `AuthorityLedger` | abstract specification of the operations on the corpus |
| `OperationIntents` | the operations with their files, crashes and recovery |
| `OperationIntentsProofs` | its theorems: recovery and the ledger |
| `OperationOutcomesProofs` | its theorems: receipts, projection, markers, durability |
| `MCOperationIntents` | its instance for TLC |
| `FileLock` | the lock file, its claim and the processes that use them |
| `FileLockProofs` | its theorems |
| `MCFileLock` | its instance for TLC |
| `InsightLedger` | the insight ledger, its lock, publication and migration |
| `InsightLedgerProofs` | its theorems |
| `MCInsightLedger` | its instance for TLC |
| `SessionBudget` | abstract specification of a session's budget and its exposures |
| `ContextDelivery` | sessions, calls, outboxes, events and the release pointer |
| `ContextDeliveryProofs` | its theorems |
| `MCContextDelivery` | its instance for TLC |
| `AnnotationRegister` | abstract specification of the reviews of patterns |
| `PatternAnnotations` | records, manifest, lock, views and writes of reviews |
| `PatternAnnotationsProofs` | its theorems |
| `MCPatternAnnotations` | its instance for TLC |
| `RecallRuntime` | one recall: ledger, rounds, branches, timers, reasons |
| `RecallRuntimeProofs` | its theorems |
| `MCRecallRuntime` | its instance for TLC |
| `FiniteSums` | lemmas about sums over finite sets, for two of the proof modules |

## Operation intents

`OperationIntents.tla` is `operation-intents.ts` together with the commands
that run under the ingest lock.  One command runs at a time (that is what the
lock is for; see the file-lock module for when it holds), so the model has one
program counter `pc` and the command's locals; every durable write, transaction
or unlink is one action, and between any two of them `Crash` may end the
command.  The next command begins with recovery, from the files alone.

* State: `manifest` is what `open()` sees, `manifestDisk` what a power failure
  leaves; `pending`, `completed`, `aborted` map an operation to the intent in
  that directory; `marker` is `derived/invalidation.json`, `derived` the two
  derived files and the refinery (each by the hash of what it was made from),
  `sqlite` the active-source projection, `receipts` the import receipts.
* Actions: `Start` to `Unlink` are `recoverPendingOperations`, `Resume` to
  `Complete` are `resumeCommittedOperation` and `resolveDerivation` step by
  step, `Begin` to `RenameFails` the transition of an ingest or import,
  `RefineCommand` and `ReconcileCommand` the commands without an intent.
  `DerivationFails` and `RenameFails` are the errors the code catches, `Crash`
  those it does not and the death of the process, `PowerLoss` undoes a rename
  whose directory was not synchronised, `LoseDerived` and `LoseAnalysis` are a
  user who deletes rebuildable state.
* Data: a manifest is an element of `Manifests`; `SourcesOf` and `ContentOf`
  are its two hashes.  The instance has the empty manifest, two that differ in
  their recipes only, and one whose sources differ while the conversations are
  the same, so all outcomes of the two hash comparisons occur.

`AuthorityLedger.tla` is what all this promises: an operation is opened against
the current authority, moves it once or not at all, and then completes or
aborts accordingly.  `LedgerSpec` is that specification under the refinement
mapping at the end of `OperationIntents`; crashes and recoveries are stutters.

| run | question | bounds |
|---|---|---|
| `intents` | settling, recovery, drained roots, receipts, refinement | 2 operations, 2 crashes, populated root |
| `intents_power` | durability of the manifest, which the operation files account for; one receipt per import | 2 operations, fresh root, 1 power failure, analysis lost once |
| `intents_drain` | stale derived state is not served; every intent is settled | 1 operation, 2 crashes, 2 losses, fair |
| `intents_fresh_root` | the finding | 1 operation, 1 crash |

Two operations are enough because recovery admits a new one only when the older
is settled (that is `RecoveryDecides`, and proved); two crashes reach a crash in
the recovery of a crash.  A power failure ends the command as a crash does and may undo
its rename, so in `intents_power` it is the only interruption: the first operation
starts on a fresh root, the second on the manifest of the first.

Fairness (`FairSpec`): a running command takes its next step, and commands keep
being started (hooks run one at the end of each agent session, and every one
begins with recovery).  Nothing is assumed of crashes except that they are
bounded.

Finding (`intents_fresh_root`, expected to be violated): the fallback of
`loadManifestOrEmpty` to an empty manifest tests for an `ENOENT` code that the
error of `loadCorpusManifest` does not carry.  If the first operation of a root
dies before its manifest is written, its intent is never settled.

Met while modelling:

* Recovery of an operation that crashed between rename and directory `fsync`
  completes it without that `fsync` (`operation-intents.ts:533`), so a power
  failure after the recovery may take the manifest back; `SettledIsDurable` is
  about a command that ran to its end.
* If derived state disappears between the crash that follows the receipt write
  and the replay, the import is resolved anew and leaves a second receipt
  (`OneReceiptPerImport` holds in `intents_power` because only `analysis/` is
  deleted there).

### Proofs

`OperationIntentsProofs.tla` proves, for every set of manifests and every
bound, `TypeCorrect`, and under `PowerSafe` `LedgerInvariant`,
`NeverSettledTwice`, `CommittedIsAccounted` and `RecoveryAlwaysDecides`.
`PowerSafe` is `MaxPowerLosses = 0 \/ MaxCrashes = 0`: commands may die, or
power may fail, but not both in one history.  Without it TLC refutes each of
these properties, for the reason given above: the recovery of a command that
died before its `fsync` does not make up for that `fsync`.  `ImplementsLedger`
needs `MaxPowerLosses = 0`, because a ledger does not take a move back.

The safety properties are not inductive: why an operation is not settled twice
depends on where the program is, and what it holds in memory.  `LedgerInv` has
three parts.  `ControlInv` says which operation is pending and that the
in-memory intent is the pending one; it needs no assumption about power.
`StepMatchesOperation` says what each step of the program may rely on
(at `rename` the operation has not moved the manifest, at `abort` the manifest
is still the old one, and so on).  `FilesMatchManifest` says of every operation
how its three files relate to the manifest.  `PowerInv` adds that the disk is
behind only between a rename and its `fsync`, and then by that one transition;
so a power failure takes back the pending operation's rename and nothing else
(`PowerLossTakesBack`).  The steps of a resume are handled
together (`ForwardActions`: none of them changes the manifest or the transition
of the intent), so the proof that a step preserves the invariant has one case
for all of them and one for each action that settles, creates or renames.

`OperationOutcomesProofs.tla` goes on with what an operation leaves behind.

| theorem | states | under | inductive invariant beside `LedgerInv` |
|---|---|---|---|
| `MemoryAgrees` | `InMemory` | nothing | it is one |
| `ReceiptsMatch` | `ReceiptsMatchOperations` | `PowerSafe` | `ReceiptsInv` |
| `ImportsLeaveOneReceipt` | `OneReceiptPerImport` | `PowerSafe`, `derived/` is not deleted | `OneReceiptInv`, `DerivedSoFar` |
| `DrainedRootIsAccounted` | `DrainedRootAccounted` | `PowerSafe` | `ProjectionInv`, `MarkerInv`, `BehindInv` |
| `StaleIsNotServed` | `StaleNotServed` | `PowerSafe` | `MarkerInv`, `DerivedSoFar`, `BehindInv` |
| `SettledIsOnDisk` | `SettledIsDurable` while `crashes = 0` | nothing | `DurableInv` |

`InMemory` is what the rest stands on: the intent in memory is the one in the
pending file, except for a resolution that the next write records, so a command
that dies loses at most that.  `ReceiptsInv` says that a receipt belongs to an
import whose manifest took effect; `OneReceiptInv` that a resolution recorded as
completed stays *servable* until the operation is settled, so that replay reuses
it and writes the same receipt (this is what deleting `derived/` breaks, see
above).  `ProjectionInv` and `MarkerInv` allow the projection and derived state
to lag behind a manifest only while an operation is in flight and has not passed
its reconcile, or its mark; `BehindInv` says that until the `fsync` they still suit
the manifest that a power failure would bring back.  The marker proof uses the
assumption `SourcesDetermineContent`: `manifestSourcesHash` covers the content
hash of each source, so equal sources have equal conversations.

## File lock

`FileLock.tla` is `lock.ts`, with one system call per action.

* State: `lock` and `claim` are the inodes that the two names stand for,
  `record` and `aged` the content of an inode and whether it is older than the
  grace; `claimAged` is the age of the claim; `pc`, `file` and `saw` are the
  position of a caller, the inode its `open` created and the record it read;
  `running` and `incarnation` are the processes.  `claimant` (who linked the
  claim) and `lapses` (below) are history variables.
* Actions: `Create` to `Chmod` and `Exists` to `Judge` are `acquireFileLock`,
  `Link` to `DropClaim` are `reclaimStaleLock`, `Finish` and `Release` the
  release.  `Die` and `Restart` end a process and give its pid to another,
  `Age` and `AgeClaim` let time pass.  `Returning` are the pids whose next
  process calls the lock again.
* The lock relies on two limits of time: a record is written within a second of the
  creation of its file (`PARTIAL_LOCK_GRACE_MS`), and a reclaim takes less than a
  minute (`RECLAIM_CLAIM_STALE_MS`).  Nothing in the code makes a live process keep
  them, so in the model it need not: `Age` and `AgeClaim` may happen at any step.
  `lapses` records when one of them was too short for a live process: `write`, an
  owner's lock came of age before its record was written; `read`, a claimed record
  came of age between the read that found it empty and the look at its age;
  `claim`, the claim of a live reclaimer was removed by another.

| run | question | bounds |
|---|---|---|
| `file_lock` | exclusion; a live owner keeps its lock (before a lapse) | 3 callers, 2 processes, each pid reused once, 2 inodes |
| `file_lock_live` | an abandoned lock is reclaimed | 2 callers, 2 processes, no calls from the next process of a pid, 2 inodes, fair |

`MutualExclusion` and `LiveLockKept` claim nothing once `lapses` is not empty, and
`file_lock` does not explore such states further (`CONSTRAINT InTime`).  What happens
there is told below.

Two inodes are what the two names can hold at once; three callers are a dead
owner's successor, a reclaimer and a third party that appears in between; one
process hosts two of them, as the CLI's pid also appears in a lock that another
call of the same process left.  `CHECK_DEADLOCK FALSE`: when all processes are
dead nothing happens any more.

Fairness (`FairSpec`): a live caller takes its next step and comes back after a
refusal (`withContextFinalizationLock` retries for five seconds; an ingest is
started again by the next hook), and time passes.  Live waiters that meet an
expired claim can remove each other's claims in lock-step for ever, since
`finally` removes the claim by its path: `AbandonedReclaimed` claims nothing of
histories with such a removal (a `claim` lapse).

Met while modelling (without the condition on `lapses` TLC finds both):

* A live process is held up for more than a second between `open` and `writeFile`.
  Its empty lock is reclaimed, and it works beside the next owner.
* A claim that is older than a minute is removed by its path after a `stat`
  (`lock.ts:146-147`), although its reclaimer may still run, past its comparison of
  the inodes.  Its `unlink` then removes the lock that was created since.  The comment
  at `lock.ts:135-136` says that this never happens: "A replacement lock is never
  removed, even if it appeared after the original stale read."

### Proofs

`FileLockProofs.tla` proves `LockInvariant`, `CallersExclude` and
`LiveLockIsKept` for all callers, pids and inodes, without an assumption about
time: the statements say themselves that they end with the first lapse, and TLC
refutes exclusion and the keeping of live locks without that.  Exclusion is
not inductive: that nobody owns the lock when a reclaimer unlinks it depends on
what the reclaimer saw several steps ago.  `OwnerHasLock` says that an owner's
inode is under the lock's name, with its record once written;
`ReclaimerHasClaim` that a claim has one reclaimer and that past its second
look the claimed inode is `Stale`, which no step undoes: a dead owner stays
dead (`RecordsInPast`: the pid's next process is a later incarnation than any
recorded), and nobody writes to an old empty inode.

## Insight ledger

`InsightLedger.tla` is `applyInsightCommand`, `recompileCurrentInsightLedger`
and `migrateInsightLedger`, with one file operation or transaction per action.

* State: `draft` are the commands that a preview made, `context` the source
  projection that an ingest may replace at any time; `ledgers`, `artifact`,
  `rows` and `pointer` are `memory/insight-ledgers/`, `memory/insight-compiled/`,
  the insight tables and `insight-current.json`; `lock` is the file `.lock` of
  this ledger, which is not that of `lock.ts`.  A writer has `pc`, `task` and
  what it read and prepared.  `acked`, `torn` and `strays` are history
  variables.
* A ledger is the sequence of its commands and stands for its hash; a command
  carries the ledger it was made for.  `Current` is the fold of
  `projectInsightState`, `Appends` and `Repeats` are `appendInsightTransition`.
* Actions: `Create` to `Release` are `withLedgerLock`, `Read` to `Point` the
  work under it, `Migrate` to `MigrateArtifact` the migration, which takes no
  lock.  `Die` may end a writer at any step.
* Nothing keeps the lock with its writer: a waiter unlinks whatever has the name by
  the time of its `unlink`, and a migration runs at any time, again too.  `strays`
  records when that went wrong: `lock`, a waiter removed the lock of a live writer;
  `migration`, a migration replaced a published ledger or ran beside a writer.
* The snapshot's file is named by the hash of the startup text only, so two
  ledgers with the same text share a file: `Output` is the set of insights that
  the text shows, and `at` tells the compilations apart.

Abstracted: `analysis/chatlog.sqlite` exists; valid time, scopes, roles of
evidence, conflicts, duplicates and risk classes are left out, and all revisions
of an insight have the same text; commands come from a human with authority;
idempotency keys are lower case and trimmed (`appendInsightTransition` compares
the raw key with the stored one when the ledger has moved on, so others are
refused on a retry); a write of the lock's record does not fail; the pid of a
dead process is not given to another one.  A command counts as answered when its
pointer is written; its answer follows the release of the lock.

`AckKept` is what a user relies on, `LinearHistory` how it comes about,
`OncePerKey` what a retry relies on, and `LedgersValid` that no sequence of
accepted commands makes a ledger that cannot be loaded.  `PublicationAgrees`
says that the snapshot and the rows agree with the pointer between publications,
unless one was cut short since the last: then readers reject
(`readCurrentInsightLedger` fails closed) until the next publication, a
recompilation's or a repeated command's too, repairs it.  `AckKept`,
`LinearHistory` and `PublicationAgrees` claim nothing once `strays` is not empty,
`OncePerKey` and `LedgersValid` have no such condition.

| run | question | bounds |
|---|---|---|
| `insight` | all of the above (before a stray) | 2 writers, 2 insights, 2 commands, 3 calls, 1 death, 1 ingest |
| `insight_serialized` | finding | the same without an ingest |

Two commands on two insights give a dispute or a supersession of an accepted
insight, two commands made for the same ledger, and two under one key; the third
call is the repetition of one, a recompilation or a migration.  `insight` does not
explore states after a stray further (`CONSTRAINT InOrder`), which for `OncePerKey` and
`LedgersValid` is a bound: that they hold regardless is proved.  `CHECK_DEADLOCK
FALSE`: the calls are bounded.

Finding (`insight_serialized`, expected to be violated): a waiter whose `open` found
the lock and whose look at it finds it gone takes it for stale
(`insight-ledger.ts:416`) and unlinks whatever has the name by then (`:423`).  Two
writers then work at once, so that the pointer of one drops what the other has
acknowledged.  No crash is needed; the lock of a dead writer that two waiters judge at
the same time is lost in the same way.  `design-specs/experience-memory.md:222` says:
"Writes are serialized by `memory/insight-ledgers/.lock`".

Met while modelling: a migration that is applied again replaces the pointer
(`insight-migration.ts:334`), and commands that were acknowledged since the first one
are no longer in force; their ledger remains on disk.  `README.md:587` says: "The v2
insight ledger is the only publication authority after migration."

### Proofs

`InsightLedgerProofs.tla` proves `LedgerInvariant`, `AcknowledgedKept`,
`HistoryIsLinear` and `PublicationIsWhole`, `CommandsAreUnique` and
`SavedLedgersLoad` for all writers, insights, keys and commands, without an
assumption about the lock or about migrations.  The first four say themselves that
they end with the first stray, as they must (see above).

`AckKept` is not inductive: that a pointer
does not drop a command depends on what its writer read many steps ago.
`HolderHasLock` gives exclusion, `PreparesNext` says that what a holder read and
prepared follows from what is published *now*; both hold until a stray.  `HasTask`
and `MigratesLegacy` tell the calls under the lock from migrations.  What `Current`
computes plays no part in it.

That no ledger has a command or a key twice, and that each passes
`ChainValid`, does not depend on the lock at all: `ContentInv` says of every
ledger in a file or in some writer's memory that it is `Composed`: its commands were
drafted, for ledgers of earlier commands, are there once, under keys that differ,
and each follows the revision that it was drafted for.  An append that would break
that is refused.  So even a writer that was overtaken saves a ledger
that can be loaded, and the fold `Current` enters only through the
commands that it reads.  `PublicationInv` follows a publication through its
three writes: at `rebuild` and `point` the compiled snapshot is in its artifact, at
`point` the rows show the ledger that is about to be named.

## Context delivery

`ContextDelivery.tla` is the delivery of context to agents: the session files
of `context-session.ts` with their outboxes, the calls of `context-plane.ts`
and `recall-events.ts` that charge a session's budget, the event batches and
their projection (`context-events.ts`, `event-store.ts`, `analysis.ts`), and the
release pointer.

* State: `sessions` is the stored file under each key (its remaining budget, the
  attempted bundles, what was charged, and the outbox `pending`); `results` the
  durable recall results; `indexed` and `rows` are `event_batches` and the event
  projection; `gate` is what `context-release/current.json` names; `custody` the
  owner of the finalization lock; `reading` what a reader has published and not
  yet cleared; `pc` and `task` are the calls.  `answers` is a history variable.
* Actions: `StartPrepare`, `Reserve`, `Render` and `RecordRendered` are
  `prepareContext`; `StartConfirm`, `Deny`, `Redeliver`, `Stage`, `CommitBundle` and
  `AnswerCommitted` are `confirmContextEmission`; `StartRecall`, `Obtain`, `Persist`
  and `Save` are a recall and `finalizeRecall`; `Publish` and `ClearOutbox` what
  both do with the outbox afterwards; `StartFeedback` and `WriteFeedback` feedback
  and outcomes.  `ReadEvents` and `FinishReading` are any reader, which publishes
  outboxes and then clears them by a second write; `OpenSession` opens a session
  and evicts one if it must; `Authorize` replaces the pointer.  A `Fault` ends a
  call wherever it is (death, failed write, ingest lock not free: it is waited
  for 0 ms; finalization lock not free within 5 s), `ReaderFault` a reader; a
  publication may be cut short between the index row of a batch and its
  projection row.
* Merged: the reads that precede a plan without a change of state in between,
  and the first of the two checks of `finalizeRecall` (the second repeats it
  under the locks).  At any time one reader is between its two writes; a
  republication by a call, which finds nothing to publish, is a stutter.
* Data: a gate stands for an evaluated candidate, a bundle names the gate it was
  prepared under, a receipt is the process that confirmed, and of the four
  budgets tokens are modelled: a charge has a price.  Sessions of the format
  before keys are left out.

`SessionBudget.tla` is the abstract specification: an owner's budget from which
each charge is taken at most once and never more than is left, and a screen that
shows charges only.  `BudgetSpec` is that specification of the detailed state.

| run | question | bounds |
|---|---|---|
| `context` | budgets, exposures, recoverability, order, agreement of answers | 2 processes (symmetric), 1 session, 2 gates, 1 invocation with 2 queries, recalls of 2 batches, 1 fault |
| `context_capacity` | eviction, feedback, refinement, everything charged shows | 2 sessions for 1 place, 1 gate, 1 query, 1 feedback, fair |

Two calls are what a race for one budget needs, and the second of them may be a
retry of the first; one fault leaves each of the half-finished states, and the
calls after it find it.  The budget admits one bundle or one recall but not both
kinds in full, so both the acceptance and the rejection for want of budget occur.
The instances have one feedback and one invocation because their records grow
only.  `CHECK_DEADLOCK FALSE`: when every request has been made the system is
idle.

Fairness (`FairSpec`): a running call takes its next step, and readers recur
(each MCP tool call and each refresh of the workbench reads the events).

Met while modelling:

* Of two confirmations that race for one bundle, the one that comes second to the
  lock is answered with the event of the other: its receipt is not
  compared.  A third one that starts later is rejected, because its receipt
  is compared then (`context-plane.ts:824-956`).
* Feedback without references validates its session outside the lock; if the
  session is evicted before the write, its event names a session that does not
  exist (`context-events.ts:751`).  `FeedbackResolves` is about feedback that
  names an exposure: a session with an exposure is never evicted.
* The bound on pending batches never binds: each commit first publishes what
  was left.

### Proofs

`ContextDeliveryProofs.tla` proves, for all processes, sessions, gates, queries,
budgets and bounds, `DeliveryTypeCorrect`, `ShowsOnlyCharged`,
`NothingChargedIsLost`, `AnswersAlwaysAgree`, `LifecyclesInOrder`,
`FeedbackAlwaysResolves`, `SessionsKeepBudget` (the refinement), `BudgetsAddUp`,
`ChargesPassTheirGate` and `SessionsStayReadable`.

That what shows was charged is not inductive: a batch reaches the projection from
an outbox, an outbox from a call that held it in memory, and the session may have
been evicted and created again in between.  `DeliveryInv` follows a charge along
this way.  `HoldersExclude` says that a call past its lock holds it, so that no
other call does; `CallsTyped`, `RenderedBundles` and
`CallsKnow` what a call may rely on at each step (a bundle to be charged is
attempted, a call that committed has its charge in the file); `ShownIsCharged`,
`ChargedOnce`, `BatchesKept` and `ReadingShown` relate the file's commits to its
outbox, to the projection and to what a reader holds; `AnswersCharged`,
`FeedbackResolves` and `LifecycleInOrder` complete it.  The step lemmas have the
form of an effect: `FileStep` says that any step keeps a session file, debits
it, clears its outbox, or evicts or opens it, `RowsComeFrom` where a new row of
the projection comes from, `ChargesStay` that a charge is never taken back, and
`PersistedAlone` that a durable recall result has one writer.  Each conjunct is
then preserved by effects instead of actions.

Three properties have an invariant of their own on top of it.  `BudgetKept` says that
the charges are finitely many and that their costs and the remainder make up the
budget; a debit adds one charge, which `Clash` has tested to be new, and `FiniteSums` says what
that does to the sum.  `GateHeld` says that from the test of the gate to the
charge the gate does not move, as both are under the lock.  `LimitsKept` says that
every limit which a reader tests is kept: the bundles of a session are charged only
when they were attempted, and attempts are counted when they are reserved; a recall
is written a step after its room was tested, and `AttemptsKept` says that the room
is still there.

## Pattern annotations

`PatternAnnotations.tla` is `pattern-annotations.ts` with its two callers in
`workbench/data.ts`: the view that the workbench shows, and `annotatePattern`.

* State: `objects` and `manifest` are the files under `annotations/`; a record,
  which names its predecessor by its hash, is the sequence of the reviews up to
  it.  `lock` is the open SQLite transaction, `artifact` the current derived
  artifact, `form` what an operator has on the screen, `pc`, `patterns`, `snapshot`
  and `loaded` his request.  `acks` is a history variable.
* Actions: `View`, or `MissManifest` followed by `ViewNothing` or `ReportLoss`, is
  a view, which takes no lock; `Submit` and `ReadHash` are the two loads of
  `annotatePattern`, one after the other; `Acquire`, `Open` (the state is loaded,
  the snapshot compared, the first manifest written), `WriteObject`,
  `WriteManifest` and `Acknowledge` are `writePatternAnnotation`; `NotActive`, `Busy`
  and `Refuse` its rejections.  `Derive` replaces the artifact at any time.  A
  `Fault` ends a request after any of its steps.
* Merged: a view reads the artifact at the time of the manifest, because it
  compares the projection, of which the artifact is a function, at its end;
  loading a chain of records is one step, because records are never changed.
* Data: a review is its operator and its artifact; dispositions, texts and times
  are left out, and with them that the same review at another time is another
  record, so that a repeated write may find its own unreachable record.  Also
  left out: power failures, the manifest's own counter, which nothing reads,
  size limits and the rate limit of the HTTP route.

`AnnotationRegister.tla` is the abstract specification: a history per pattern to
which reviews are appended while no history is overlong, and confirmations of
what is in it.  `RegisterSpec` is that specification of the detailed state.

| run | question | bounds |
|---|---|---|
| `annotations` | chains, lost updates, stale forms, the bound, refinement | 2 operators (symmetric), 2 patterns of which one is not active in one of 2 artifacts, histories bounded by 1 (so of up to 2 records), 1 fault |

Two operators are what a lost update needs, and two patterns what it needs across
patterns, since all of them share one manifest.  One fault leaves the
manifest without records, or a record that no manifest names, for both to find.
A bound of 1 stands for `MAX_HISTORY` = 10000: below it, at it and beyond it all
occur.  The run checks deadlocks: an operator can always look again.

Proved for all constants: the types and all five properties.  The inductive invariant is
`AnnotationInv`: whoever is inside the lock owns it, what an operator saw is
a prefix of what the manifest holds (prefixes survive every step because only
the owner of the lock writes, and appends to what it loaded), and a request
inside the lock knows the manifest it loaded to be the current one.  Equal
revisions then mean equal histories (`EqualLengthPrefix`).

Met while modelling:

* The write does not test the bound that every load tests
  (`pattern-annotations.ts:355`): review 10001 of a pattern is acknowledged, and
  from then on neither that pattern nor any other can be read or reviewed.
  `LimitFreezes` states the second half, and `AddStep` of the proof the first.
* `docs/exec-plans/active/0006-*.md:46` says that a stale snapshot fails with 409.
  The snapshot is the hash as read before up to two seconds of waiting for the
  lock, and the patterns are read before the hash: a review of an artifact
  that was replaced meanwhile is accepted.  What holds instead is
  `BuiltOnWhatWasSeen`: the record names the artifact that its operator saw.
* A view that finds no manifest looks for records next.  When the first writer
  creates both in between, the view reports a manifest lost that is there
  (`ReportLoss`); the next view succeeds.

## Recall

`RecallRuntime.tla` is one recall: the loop of `recall-runtime.ts`
(`buildRecallEffect`, `runRound`, `timedBranch`), the ledger of `recall-budget.ts`,
and of `recall-consolidation.ts` what decides how the loop goes on and why it
ends.  The session that starts a recall and is charged for it is in
`ContextDelivery`, whose assumption that no recall uses more than its budget is
what `WithinBudget` is here.

* State: `total` and `consumed` are the ledger; `query`, `depth`, `rounds`,
  `lineage`, `baseline`, `observations`, `traces` and the three flags the runtime's
  state; `branches`, `allowance` and `elapsed` the round in progress.  `rang`, the
  branches whose timer fired, is a history variable.
* Actions: `Ask` is the beginning of a round with all its reservations (or
  `FindClosed`, `StopAsking`, `Repeat`); `Answer` an adapter, `Expire` a timer, `Tick`
  the clock and `Cancel` the caller, at any time while branches run;
  `SettleExpired` and `SettleAnswered` charge one branch after the other once none
  runs; `JudgeEnough` and `JudgeFurther` end a round, `End` the recall.  Charging
  is a step per branch though the code does it without a pause: no other action is
  enabled in between.
* Data: a result is three sets: its evidence, its contradictions and its open
  questions.  `Consolidated` puts them under the one limit on results, in that order;
  `Novel` is `isNovel`: evidence is compared with what the request and earlier queries
  had, open questions with those of the request only, contradictions with nothing.
  `Usage` charges what an adapter reports, results and latency, in place of what it
  returned and how long it took.
* Left out: insights, procedures and confidence (adapters return none), scopes of
  items, the cost (charged as tokens are), hashes, truncation for tokens, and failures
  that an adapter itself reports as `timeout` or `budget-exhausted`, which are the
  runtime's own codes.  Whether a contradiction is open goes with its name.

| run | question | bounds |
|---|---|---|
| `recall` | budget, late answers, traces, novelty, termination | 2 adapters, up to 3 rounds over 4 queries (one of them the caller's own), 8 replies, 4 budgets, timers up to 1 unit late |

Two adapters are what it takes for each to fit alone and both not; the budgets
run out of depth, of launches in the middle of a round, of results, and of
latency, so that a round with no latency left occurs.  Every reason of
termination is reached, most of them after the first round too.  The run does not
check deadlocks: a recall ends.

Fairness (`FairSpec`): the program goes on, time passes, and timers fire in the
end.  Adapters need not answer, and that a caller cancels is not assumed.

Proved for all constants (`RecallRuntimeProofs`): `WithinBudget`, `LateIgnored`,
`TracesTrue`, `SufficientIsNovel`, `StopsAfterTimeout` and `PaidFor`
(`LedgerMatchesResult`).  All but the last follow from the inductive
invariant `RecallInv`.  It says that nothing is recorded
of a query that was not asked (so a query asked again can not mix its traces
with older ones), that nothing is charged while a branch runs (so a timer
can not fire for a branch that was charged), that the timers that fired are those
of the expired branches, and at each step what `baseline` covers: all that other
queries delivered.  While the recall goes on, what it has is not both
sufficient and novel; that is why a later end without a further round can
not call it so.  `PaidFor` needs `PaidInv` as well: the results charged are the
sum of what the kept answers report, or hold when they report nothing, and a
settlement adds one answer that was not there (`Charged`); every branch that was
started is in the trace, once (`Started`); and each query that was derived cost
one level of depth (`Descended`).
`Terminates` stays with TLC.

Met while modelling (TLC finds the first two in `recall`'s instance):

* An answer is charged `usage.maxResults ?? count` (`recall-runtime.ts:754`), and
  nothing else compares its items with what is left, so an answer that reports fewer
  results than it holds is kept with more items than the recall may return (the
  consolidated result is cut to the limit).  `docs/mcp-tool-shape.md:127-128` says: "A
  branch cannot return more results, tokens, latency, or cost than its reservation."
  `PaidFor` therefore says that what was charged is what the kept answers report.
* Open questions are compared with those of the request only
  (`recall-runtime.ts:1020`; `state.unresolved` of `:1049` is never read), and
  contradictions with nothing.  A question that the first query left open makes the
  second novel, and a recall that found only evidence that was known before ends as
  `sufficient-evidence`, although `docs/mcp-tool-shape.md:176` says: "The minimum
  evidence contract is met with novel evidence."  What holds is `SufficientIsNovel`: an
  item was added by the last query, or the result shows contradictions, none of them
  open, or a question that the request did not know.

* The exclusion of `budget-exhausted` failures at `recall-runtime.ts:1136` has no
  effect: with no success nothing is novel, and the next clause gives
  `no-novelty` all the same.  A recall whose branches all overran their budget ends
  as `no-novelty`, and so does one that used up its launches after a round
  without news, although `docs/mcp-tool-shape.md:179` gives `budget-exhausted` for
  every limit; results, tokens, time and cost are not looked at.
* Contradictions come after evidence under `maxResults`
  (`recall-consolidation.ts:598`).  When evidence fills the limit an open
  contradiction is dropped and the recall may end as `sufficient-evidence`; the
  test that contradictions stop a recall "without dropping counterevidence"
  (`test/recall-runtime.test.ts:256`) has room for both.
* The latencies of parallel branches are added up.  Two branches that each
  answered in time may not fit together, and the second is dropped as
  `budget-exhausted`.  A latency that an adapter reports replaces the measured
  one, so what bounds the duration of a recall is its depth times `maxLatencyMs`.
* A cancellation drops the answers that the round has received, and nothing of
  the round but its launches is charged.
* `MAX_RECALL_ADAPTERS` bounds the branches of a round; the finalization
  (`recall-events.ts:589`) bounds those of a recall by the same number.

## Proved only

The type invariants (`TypeOK`), the inductive invariants (`LedgerInv`, `PowerInv`,
`InMemory`, `ReceiptsInv`, `MarkerInv`, `LockInv`, `ContentInv`, `DeliveryInv`,
`BudgetKept`, `LimitsKept`, `RecallInv`, `PaidInv`, ...) are theorems for all
constants and not properties of the runs, which are kept for what a reader may
doubt.

`FiniteSums.tla` holds the lemmas about the sums that the models take over sets:
`MapThenSumSet` and the left fold of the community modules are 0 on the empty
set and grow by an element's value when it is added.  They are recursive
functions that take the elements in the order of `CHOOSE`, so the proof is an
induction over the cardinality (`SetInduction`, from the well-foundedness of `<`
by `WFMin`, because the library's induction theorems take an operator) with the
step that any two elements may be swapped.

## Model-checked only

Every safety property, action property and refinement that a passing run checks is
also a theorem.  The four liveness properties are not, as the prover has no rule
for fairness and `ENABLED`: `IntentsDrain`, `AbandonedReclaimed`, `ChargedShows` and
`Terminates`.  Nor are, by choice, histories in which a command dies and power
fails as well: there the properties of the operations do not hold.

## Not modelled

What is left, and why it is left:

* Memory lab (`workbench/memory-lab.ts`): one workbench process writes drafts
  through a queue of its own; what it publishes goes through the commands of the
  insight ledger, which are modelled with several writers.  A second workbench
  on the same root would race with the first for drafts; a model of it needs
  the states of the form in the browser, which are not under any check of the
  code.
* The readers' guard of `source-authority.ts`: whether a replaced manifest is noticed
  depends on inode numbers and on the resolution of file times, which a model
  would have to invent.
* Nominations of `source-receipts.ts`: the aggregate is read, merged and written
  under the ingest lock by every caller in `src/`, so the missing lock of its own
  is not reached.
* The choice of sources and the recipe migration of `ingest.ts`: they compute the
  next manifest, which is an arbitrary element of `Manifests` here.
* Adapters, projection, redaction, ranking, planner, policy, analytics, evaluation
  and encoders: functions of their input without state or concurrency.
* The HTTP, MCP and CLI layers and the front ends, except where they decide an order
  of state changes; `plugins/*/scripts/*.js` is generated from `src/`.
* The transport and the encoding of events in `recall-events.ts`.
