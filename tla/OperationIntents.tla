-------------------------- MODULE OperationIntents --------------------------
(***************************************************************************)
(* The write-ahead operation intents of src/operation-intents.ts and the   *)
(* commands that run under the ingest lock and use them: ingest, the three *)
(* importers, derive, refine, source recover and source reconcile.         *)
(*                                                                         *)
(* One data root.  The ingest lock (module FileLock) admits one command at *)
(* a time, so a single program counter suffices; a crash, or an I/O error  *)
(* that the code does not catch, ends the command between any two durable  *)
(* writes and the next command starts from what is on disk.                *)
(*                                                                         *)
(* Abstracted: a manifest is a member of Manifests; SourcesOf is its       *)
(* manifestSourcesHash, ContentOf the hash of its set of conversations     *)
(* (serializeCurrentProjection).  Conversation objects, event batches and  *)
(* source receipts are content addressed and written before the intent, so *)
(* they are left out; so are the reason of an invalidation marker and the  *)
(* summaries that commands print.                                          *)
(***************************************************************************)
EXTENDS Naturals, FiniteSets

CONSTANTS
    Manifests,       \* the corpus manifests the commands can produce
    Empty,           \* the manifest that stands for a missing file
    SourcesOf,       \* manifest -> its sources hash
    ContentOf,       \* manifest -> the hash of its conversation set
    Nil,             \* absence: a missing file, row or field
    Initial,         \* the manifest file at the start (Nil: a fresh root)
    Losable,         \* the rebuildable state that may be deleted
    MaxOps,          \* bound: intents created
    MaxCrashes,      \* bound: commands that die
    MaxLosses,       \* bound: deletions of rebuildable state
    MaxPowerLosses   \* bound: power failures

Ops == 1..MaxOps
Sources == {SourcesOf[m] : m \in Manifests}
Contents == {ContentOf[m] : m \in Manifests}

ASSUME ConstantsAssumption ==
    /\ Empty \in Manifests
    /\ SourcesOf \in [Manifests -> Sources]
    /\ ContentOf \in [Manifests -> Contents]
    /\ Nil \notin Manifests \cup Sources \cup Contents
    /\ Initial \in Manifests \cup {Nil}
    /\ Losable \subseteq {"derived", "analysis"}
    /\ MaxOps \in Nat /\ MaxCrashes \in Nat
    /\ MaxLosses \in Nat /\ MaxPowerLosses \in Nat

\* manifestSourcesHash covers the content hash of every source, and the
\* conversation set is made from those: the same sources, the same content.
ASSUME SourcesDetermineContent ==
    \A m, n \in Manifests : SourcesOf[m] = SourcesOf[n] => ContentOf[m] = ContentOf[n]

VARIABLES
    \* what is on disk
    manifest,      \* corpus/manifest.json as open() sees it
    manifestDisk,  \* corpus/manifest.json as it is after a power failure
    pending,       \* operations/pending: op -> intent
    completed,     \* operations/completed: op -> intent
    aborted,       \* operations/aborted: op -> intent
    marker,        \* derived/invalidation.json: the sources hash it names
    sqlite,        \* the active-source projection in analysis/chatlog.sqlite
    derived,       \* current-hashes.jsonl, derived manifest, refinery
    receipts,      \* receipts/imports
    \* the command that holds the ingest lock
    pc,            \* its next step
    cmd,           \* the command line it runs
    todo,          \* the pending intents that recovery has yet to visit
    op,            \* the operation it works on
    cur,           \* its in-memory copy of that operation's intent
    proj,          \* the projection receipt that reconciliation returned
    purpose,       \* what the derivation in progress is for
    \* bookkeeping
    nextOp,        \* the next operation ID (IDs sort by creation time)
    clock,         \* the last timestamp handed out
    committed,     \* history: the ops whose manifest rename took effect
    derivedFrom,   \* history: the sources that were last derived from
    crashes, losses, powerLosses

disk == <<manifest, manifestDisk, pending, completed, aborted, marker, sqlite,
          derived, receipts>>
local == <<pc, cmd, todo, op, cur, proj, purpose>>
bounds == <<nextOp, clock, committed, derivedFrom, crashes, losses, powerLosses>>
vars == <<disk, local, bounds>>

------------------------------------------------------------------------------
(* Records.                                                                  *)

Statuses == {"prepared", "authority-committed", "authority-reconciled",
             "derived-resolved", "receipt-written", "completed"}

Projections == [src : Sources, at : Nat, reindexed : BOOLEAN]
Resolutions == [status : {"completed", "failed", "not-requested"}, at : Nat]

Intents ==
    [before : Manifests, after : Manifests, derive : BOOLEAN, import : BOOLEAN,
     status : Statuses, proj : Projections \cup {Nil},
     res : Resolutions \cup {Nil}, receipt : Resolutions \cup {Nil}]

ASSUME NilAssumption == Nil \notin Intents \cup Projections \cup Resolutions

\* A fresh intent: createOperationIntent before any advance.
NewIntent(before, after, derive, import) ==
    [before |-> before, after |-> after, derive |-> derive, import |-> import,
     status |-> "prepared", proj |-> Nil, res |-> Nil, receipt |-> Nil]

ChangesAuthority(i) == i.before # i.after
\* Mutant: only the conversations are compared, not the whole source mapping.
MutantChangesSources(i) == ContentOf[i.before] # ContentOf[i.after]

ChangesSources(i) == SourcesOf[i.before] # SourcesOf[i.after]

\* What the commands read: a missing manifest is an empty one.
LoadedManifest == IF manifest = Nil THEN Empty ELSE manifest

Commands == {"ingest", "import", "derive", "refine", "recover", "reconcile"}

Steps == {"idle", "recover", "abort", "unlink", "resume", "mark", "reconcile",
          "advance-reconciled", "resolve", "resolve-fresh", "derive-projection",
          "derive-manifest", "refine", "clear-marker", "advance-resolved",
          "receipt", "advance-receipt", "complete", "begin", "create",
          "rename", "sync", "refine-command", "reconcile-command"}

------------------------------------------------------------------------------
(* Readers.                                                                  *)

\* assertDerivedNotInvalidated: only a marker for the current sources rejects.
NotInvalidated == marker # SourcesOf[manifest]

\* The two derived files that assertDerivedProjection compares with the
\* projection it computes from the corpus manifest.
ProjectionMatches ==
    /\ manifest # Nil
    /\ derived.hashes = ContentOf[manifest]
    /\ derived.manifest = ContentOf[manifest]

\* What a reader of derived state and of the refinery is served.
Servable ==
    /\ ProjectionMatches
    /\ NotInvalidated
    /\ derived.refinery = ContentOf[manifest]

------------------------------------------------------------------------------
(* Initial states: a fresh root, or a root whose last operation settled.     *)

Init ==
    /\ manifest = Initial /\ manifestDisk = Initial
    /\ pending = [i \in Ops |-> Nil]
    /\ completed = [i \in Ops |-> Nil]
    /\ aborted = [i \in Ops |-> Nil]
    /\ marker = Nil
    /\ IF Initial = Nil
       THEN /\ sqlite = [src |-> Nil, at |-> 0, rows |-> TRUE]
            /\ derived = [hashes |-> Nil, manifest |-> Nil, refinery |-> Nil]
       ELSE LET c == ContentOf[Initial]
            IN  /\ sqlite = [src |-> SourcesOf[Initial], at |-> 0, rows |-> TRUE]
                /\ derived = [hashes |-> c, manifest |-> c, refinery |-> c]
    /\ receipts = {}
    /\ pc = "idle" /\ cmd = "recover" /\ todo = {} /\ op = 0
    /\ cur = Nil /\ proj = Nil /\ purpose = "resolve"
    /\ nextOp = 1 /\ clock = 0 /\ committed = {}
    /\ derivedFrom = IF Initial = Nil THEN Nil ELSE SourcesOf[Initial]
    /\ crashes = 0 /\ losses = 0 /\ powerLosses = 0

------------------------------------------------------------------------------
(* Steps that several commands share.                                        *)

Goto(step) == pc' = step

\* advance: the intent is rewritten in operations/pending and in memory.
Advance(i) == /\ cur' = i
              /\ pending' = [pending EXCEPT ![op] = i]

\* The command ends, with a result or by rejecting; the lock is released.
\* (What it held in memory is gone.)
Finish ==
    /\ pc' = "idle" /\ cmd' = "recover" /\ todo' = {} /\ op' = 0
    /\ cur' = Nil /\ proj' = Nil /\ purpose' = "resolve"

\* An operation is settled.  Recovery keeps the operation it visits in todo
\* until here and goes on with the rest; a command that settled its own ends.
AfterSettling ==
    IF op \in todo
    THEN /\ Goto("recover") /\ todo' = todo \ {op}
         /\ op' = 0 /\ cur' = Nil /\ proj' = Nil /\ purpose' = "resolve"
         /\ UNCHANGED cmd
    ELSE Finish

\* Mutant: a projection that has rows is taken to mirror the manifest.
MutantReconcile(m) ==
    /\ sqlite' = IF sqlite.rows THEN sqlite
                 ELSE [src |-> SourcesOf[m], at |-> clock + 1, rows |-> TRUE]
    /\ clock' = IF sqlite.rows THEN clock ELSE clock + 1

\* reconcileActiveSources under reconcileSourceAuthority, for manifest m: one
\* SQLite transaction, skipped when the rows already mirror m; rows that were
\* lost are indexed again from the canonical objects first.
Reconcile(m) ==
    LET mirrored == sqlite.src = SourcesOf[m] /\ sqlite.rows IN
    /\ sqlite' = IF mirrored THEN sqlite
                 ELSE [src |-> SourcesOf[m], at |-> clock + 1, rows |-> TRUE]
    /\ clock' = IF mirrored THEN clock ELSE clock + 1

------------------------------------------------------------------------------
(* Starting a command, and the recovery that every command begins with.      *)

\* Mutant: an import does not recover before it starts.
MutantStart(c) ==
    /\ pc = "idle"
    /\ c \in {"ingest", "import"} => nextOp <= MaxOps
    /\ Goto("recover") /\ cmd' = c
    /\ todo' = IF c = "import" THEN {} ELSE {i \in Ops : pending[i] # Nil}
    /\ UNCHANGED <<disk, op, cur, proj, purpose, bounds>>

\* withIngestLock, then recoverPendingOperations lists operations/pending.
Start(c) ==
    /\ pc = "idle"
    /\ c \in {"ingest", "import"} => nextOp <= MaxOps
    /\ Goto("recover") /\ cmd' = c
    /\ todo' = {i \in Ops : pending[i] # Nil}
    /\ UNCHANGED <<disk, op, cur, proj, purpose, bounds>>

\* Recovery has visited every intent: the command proper starts.
RecoveryDone ==
    /\ pc = "recover" /\ todo = {}
    /\ CASE cmd \in {"ingest", "import"} -> Goto("begin")
         [] cmd = "derive" -> Goto("derive-projection")
         [] cmd = "refine" -> Goto("refine-command")
         [] cmd = "reconcile" -> Goto("reconcile-command")
         [] cmd = "recover" -> Goto("idle")
    /\ purpose' = IF cmd = "derive" THEN "command" ELSE "resolve"
    /\ UNCHANGED <<disk, cmd, todo, op, cur, proj, bounds>>

\* The intents are visited in the order of their names.
Visit(i) == pc = "recover" /\ i \in todo /\ \A j \in todo : i <= j

\* loadManifestOrEmpty rejects when there is no manifest file (the error it
\* catches carries no code), so every path of the loop rejects.
VisitWithoutManifest ==
    /\ \E i \in todo : Visit(i)
    /\ manifest = Nil
    /\ Finish
    /\ UNCHANGED <<disk, bounds>>

\* Mutant: the settled intent is skipped and its pending file stays.
MutantVisitCompleted(i) ==
    /\ Visit(i) /\ manifest # Nil /\ completed[i] # Nil
    /\ todo' = todo \ {i}
    /\ UNCHANGED <<disk, pc, cmd, op, cur, proj, purpose, bounds>>

\* A crash came between the completed file and the removal of the pending one.
VisitCompleted(i) ==
    /\ Visit(i) /\ manifest # Nil /\ completed[i] # Nil
    /\ IF manifest = completed[i].after
       THEN /\ pending' = [pending EXCEPT ![i] = Nil]
            /\ todo' = todo \ {i}
            /\ UNCHANGED <<pc, cmd, op, cur, proj, purpose>>
       ELSE /\ Finish /\ UNCHANGED pending
    /\ UNCHANGED <<manifest, manifestDisk, completed, aborted, marker, sqlite,
                   derived, receipts, bounds>>

\* Mutant: the recorded status decides, not the manifest.
MutantVisitPending(i) ==
    /\ Visit(i) /\ manifest # Nil /\ completed[i] = Nil
    /\ op' = i /\ cur' = pending[i]
    /\ Goto(IF pending[i].status = "prepared" THEN "abort" ELSE "resume")
    /\ UNCHANGED <<disk, cmd, todo, proj, purpose, bounds>>

\* The manifest decides: it is before the transition, after it, or neither.
VisitPending(i) ==
    /\ Visit(i) /\ manifest # Nil /\ completed[i] = Nil
    /\ LET intent == pending[i]
           uncommitted == manifest = intent.before /\ ChangesAuthority(intent)
       IN  IF uncommitted \/ manifest = intent.after
           THEN /\ op' = i /\ cur' = intent
                /\ Goto(IF uncommitted THEN "abort" ELSE "resume")
                /\ UNCHANGED <<cmd, todo, proj, purpose>>
           ELSE Finish
    /\ UNCHANGED <<disk, bounds>>

\* abortOperationIntent: the aborted file, then the removal of the pending one.
Abort ==
    /\ pc = "abort"
    /\ aborted' = [aborted EXCEPT ![op] = cur]
    /\ Goto("unlink")
    /\ UNCHANGED <<manifest, manifestDisk, pending, completed, marker, sqlite,
                   derived, receipts, cmd, todo, op, cur, proj, purpose, bounds>>

\* The durableUnlink that ends abortOperationIntent and completeOperationIntent.
Unlink ==
    /\ pc = "unlink"
    /\ pending' = [pending EXCEPT ![op] = Nil]
    /\ AfterSettling
    /\ UNCHANGED <<manifest, manifestDisk, completed, aborted, marker, sqlite,
                   derived, receipts, bounds>>

------------------------------------------------------------------------------
(* resumeCommittedOperation.                                                 *)

Resume ==
    /\ pc = "resume"
    /\ IF manifest # cur.after
       THEN Finish /\ UNCHANGED pending
       ELSE /\ IF cur.status = "prepared"
               THEN Advance([cur EXCEPT !.status = "authority-committed"])
               ELSE UNCHANGED <<cur, pending>>
            /\ Goto("mark")
            /\ UNCHANGED <<cmd, todo, op, proj, purpose>>
    /\ UNCHANGED <<manifest, manifestDisk, completed, aborted, marker, sqlite,
                   derived, receipts, bounds>>

\* Derived state of a source transition is invalid until it is resolved.
Mark ==
    /\ pc = "mark"
    /\ marker' = IF ChangesSources(cur) /\ cur.res = Nil
                 THEN SourcesOf[cur.after] ELSE marker
    /\ Goto("reconcile")
    /\ UNCHANGED <<manifest, manifestDisk, pending, completed, aborted, sqlite,
                   derived, receipts, cmd, todo, op, cur, proj, purpose, bounds>>

ReconcileProjection ==
    /\ pc = "reconcile"
    /\ Reconcile(cur.after)
    /\ proj' = [src |-> sqlite'.src, at |-> sqlite'.at, reindexed |-> ~sqlite.rows]
    /\ Goto("advance-reconciled")
    /\ UNCHANGED <<manifest, manifestDisk, pending, completed, aborted, marker,
                   derived, receipts, cmd, todo, op, cur, purpose, nextOp,
                   committed, derivedFrom, crashes, losses, powerLosses>>

AdvanceReconciled ==
    /\ pc = "advance-reconciled"
    /\ IF cur.proj # proj \/ cur.status \in {"prepared", "authority-committed"}
       THEN Advance([cur EXCEPT !.status = "authority-reconciled", !.proj = proj])
       ELSE UNCHANGED <<cur, pending>>
    /\ Goto("resolve")
    /\ UNCHANGED <<manifest, manifestDisk, completed, aborted, marker, sqlite,
                   derived, receipts, cmd, todo, op, proj, purpose, bounds>>

------------------------------------------------------------------------------
(* resolveDerivation.                                                        *)

\* The intent already records how its derivation was resolved.
ReuseResolution ==
    /\ pc = "resolve" /\ cur.res # Nil
    /\ IF cur.res.status = "completed"
       THEN CASE Servable ->
                   Goto("receipt") /\ UNCHANGED <<cur, pending, marker, purpose>>
              [] ~Servable /\ cur.receipt # Nil ->
                   /\ Goto("derive-projection") /\ purpose' = "replay"
                   /\ UNCHANGED <<cur, pending, marker>>
              [] ~Servable /\ cur.receipt = Nil ->
                   /\ Advance([cur EXCEPT !.status = "authority-reconciled",
                                          !.res = Nil])
                   /\ Goto("resolve-fresh")
                   /\ UNCHANGED <<marker, purpose>>
       ELSE /\ marker' = IF cur.res.status = "not-requested" /\ ~ChangesSources(cur)
                         THEN marker ELSE SourcesOf[cur.after]
            /\ Goto("receipt")
            /\ UNCHANGED <<cur, pending, purpose>>
    /\ UNCHANGED <<manifest, manifestDisk, completed, aborted, sqlite, derived,
                   receipts, cmd, todo, op, proj, bounds>>

NoResolution ==
    /\ pc = "resolve" /\ cur.res = Nil
    /\ Goto("resolve-fresh")
    /\ UNCHANGED <<disk, cmd, todo, op, cur, proj, purpose, bounds>>

\* The in-memory intent gets its resolution; AdvanceResolved makes it durable.
Resolved(status) ==
    /\ cur' = [cur EXCEPT !.res = [status |-> status, at |-> clock + 1]]
    /\ clock' = clock + 1
    /\ Goto("advance-resolved")

ResolveNotRequested ==
    /\ pc = "resolve-fresh" /\ ~cur.derive
    /\ marker' = IF ChangesSources(cur) THEN SourcesOf[cur.after] ELSE marker
    /\ Resolved("not-requested")
    /\ UNCHANGED <<manifest, manifestDisk, pending, completed, aborted, sqlite,
                   derived, receipts, cmd, todo, op, proj, purpose, nextOp,
                   committed, derivedFrom, crashes, losses, powerLosses>>

ResolveRequested ==
    /\ pc = "resolve-fresh" /\ cur.derive
    /\ Goto("derive-projection") /\ purpose' = "resolve"
    /\ UNCHANGED <<disk, cmd, todo, op, cur, proj, bounds>>

\* deriveCorpus, with current-hashes.jsonl written before the derived manifest.
DeriveProjection ==
    /\ pc = "derive-projection" /\ manifest # Nil
    /\ derived' = [derived EXCEPT !.hashes = ContentOf[manifest]]
    /\ Goto("derive-manifest")
    /\ UNCHANGED <<manifest, manifestDisk, pending, completed, aborted, marker,
                   sqlite, receipts, cmd, todo, op, cur, proj, purpose, bounds>>

DeriveManifest ==
    /\ pc = "derive-manifest"
    /\ derived' = [derived EXCEPT !.manifest = ContentOf[manifest]]
    /\ derivedFrom' = SourcesOf[manifest]
    /\ Goto("refine")
    /\ UNCHANGED <<manifest, manifestDisk, pending, completed, aborted, marker,
                   sqlite, receipts, cmd, todo, op, cur, proj, purpose, nextOp,
                   clock, committed, crashes, losses, powerLosses>>

\* refineCorpus with allowExplicitInvalidation: the marker is not consulted.
Refine ==
    /\ pc = "refine" /\ ProjectionMatches
    /\ derived' = [derived EXCEPT !.refinery = ContentOf[manifest]]
    /\ Goto("clear-marker")
    /\ UNCHANGED <<manifest, manifestDisk, pending, completed, aborted, marker,
                   sqlite, receipts, cmd, todo, op, cur, proj, purpose, bounds>>

\* clearDerivedInvalidation, and what each of its callers does next.
ClearMarker ==
    /\ pc = "clear-marker"
    /\ marker' = Nil
    /\ CASE purpose = "resolve" ->
              Resolved("completed") /\ UNCHANGED <<cmd, todo, op, proj, purpose>>
         [] purpose = "replay" ->
              /\ Goto("receipt")
              /\ UNCHANGED <<clock, cmd, todo, op, cur, proj, purpose>>
         [] purpose = "command" -> Finish /\ UNCHANGED clock
    /\ UNCHANGED <<manifest, manifestDisk, pending, completed, aborted, sqlite,
                   derived, receipts, nextOp, committed, derivedFrom, crashes, losses,
                   powerLosses>>

\* Deriving, refining or clearing throws inside the try of a fresh resolution.
DerivationFails ==
    /\ pc \in {"derive-projection", "derive-manifest", "refine", "clear-marker"}
    /\ purpose = "resolve"
    /\ marker' = SourcesOf[cur.after]
    /\ Resolved("failed")
    /\ UNCHANGED <<manifest, manifestDisk, pending, completed, aborted, sqlite,
                   derived, receipts, cmd, todo, op, proj, purpose, nextOp,
                   committed, derivedFrom, crashes, losses, powerLosses>>

\* There is nothing to derive from: the derive command rejects.
DeriveWithoutManifest ==
    /\ pc = "derive-projection" /\ manifest = Nil /\ purpose = "command"
    /\ Finish
    /\ UNCHANGED <<disk, bounds>>

\* Mutant: the resolution is kept in memory only.
MutantVolatileResolution ==
    /\ pc = "advance-resolved"
    /\ cur' = [cur EXCEPT !.status = "derived-resolved"]
    /\ Goto("receipt")
    /\ UNCHANGED <<disk, cmd, todo, op, proj, purpose, bounds>>

\* Mutant: a derivation that failed leaves no receipt.
MutantReceiptOnSuccess ==
    /\ pc = "advance-resolved"
    /\ Advance([cur EXCEPT !.status = "derived-resolved"])
    /\ Goto(IF cur.res.status = "failed" THEN "complete" ELSE "receipt")
    /\ UNCHANGED <<manifest, manifestDisk, completed, aborted, marker, sqlite,
                   derived, receipts, cmd, todo, op, proj, purpose, bounds>>

AdvanceResolved ==
    /\ pc = "advance-resolved"
    /\ Advance([cur EXCEPT !.status = "derived-resolved"])
    /\ Goto("receipt")
    /\ UNCHANGED <<manifest, manifestDisk, completed, aborted, marker, sqlite,
                   derived, receipts, cmd, todo, op, proj, purpose, bounds>>

------------------------------------------------------------------------------
(* The tail of resumeCommittedOperation: import receipt and completion.      *)

\* writeImportReceipt is content addressed by the resolution it reports.
WriteReceipt ==
    /\ pc = "receipt"
    /\ IF cur.import
       THEN receipts' = receipts \cup {[op |-> op, id |-> cur.res]}
            /\ Goto("advance-receipt")
       ELSE Goto("complete") /\ UNCHANGED receipts
    /\ UNCHANGED <<manifest, manifestDisk, pending, completed, aborted, marker,
                   sqlite, derived, cmd, todo, op, cur, proj, purpose, bounds>>

AdvanceReceipt ==
    /\ pc = "advance-receipt"
    /\ IF cur.receipt # cur.res
       THEN Advance([cur EXCEPT !.status = "receipt-written", !.receipt = cur.res])
       ELSE UNCHANGED <<cur, pending>>
    /\ Goto("complete")
    /\ UNCHANGED <<manifest, manifestDisk, completed, aborted, marker, sqlite,
                   derived, receipts, cmd, todo, op, proj, purpose, bounds>>

Complete ==
    /\ pc = "complete"
    /\ completed' = [completed EXCEPT ![op] = [cur EXCEPT !.status = "completed"]]
    /\ Goto("unlink")
    /\ UNCHANGED <<manifest, manifestDisk, pending, aborted, marker, sqlite,
                   derived, receipts, cmd, todo, op, cur, proj, purpose, bounds>>

------------------------------------------------------------------------------
(* The transition that an ingest or an import makes.                         *)

\* The manifest is read and the projection of the old sources reconciled.
Begin ==
    /\ pc = "begin"
    /\ Reconcile(LoadedManifest)
    /\ Goto("create")
    /\ UNCHANGED <<manifest, manifestDisk, pending, completed, aborted, marker,
                   derived, receipts, cmd, todo, op, cur, proj, purpose, nextOp,
                   committed, derivedFrom, crashes, losses, powerLosses>>

\* createOperationIntent: an ingest derives and leaves no import receipt; of
\* the importers only Anthropic's asks for a receipt.
Create(after, derive, import) ==
    /\ pc = "create" /\ nextOp <= MaxOps
    /\ cmd = "ingest" => derive /\ ~import
    /\ LET intent == NewIntent(LoadedManifest, after, derive, import)
       IN  /\ cur' = intent
           /\ pending' = [pending EXCEPT ![nextOp] = intent]
    /\ op' = nextOp /\ nextOp' = nextOp + 1
    /\ Goto("rename")
    /\ UNCHANGED <<manifest, manifestDisk, completed, aborted, marker, sqlite,
                   derived, receipts, cmd, todo, proj, purpose, clock, committed,
                   derivedFrom, crashes, losses, powerLosses>>

\* Mutant: the directory is not synchronised after the rename.
MutantRename ==
    /\ pc = "rename"
    /\ manifest' = cur.after
    /\ committed' = committed \cup {op}
    /\ Goto("resume")
    /\ UNCHANGED <<manifestDisk, pending, completed, aborted, marker, sqlite,
                   derived, receipts, cmd, todo, op, cur, proj, purpose, nextOp,
                   clock, derivedFrom, crashes, losses, powerLosses>>

\* The authority point: rename() makes the new manifest visible.
Rename ==
    /\ pc = "rename"
    /\ manifest' = cur.after
    /\ committed' = committed \cup {op}
    /\ Goto("sync")
    /\ UNCHANGED <<manifestDisk, pending, completed, aborted, marker, sqlite,
                   derived, receipts, cmd, todo, op, cur, proj, purpose, nextOp,
                   clock, derivedFrom, crashes, losses, powerLosses>>

\* The fsync of corpus/, by durableAtomicWrite or, when that reports an error,
\* again by resolveManifestWriteFailure.
Sync ==
    /\ pc = "sync"
    /\ manifestDisk' = manifest
    /\ Goto("resume")
    /\ UNCHANGED <<manifest, pending, completed, aborted, marker, sqlite, derived,
                   receipts, cmd, todo, op, cur, proj, purpose, bounds>>

\* Mutant: an operation that changes nothing is aborted like any other.
MutantRenameFails ==
    /\ pc = "rename"
    /\ IF manifest = Nil THEN Finish
       ELSE Goto("abort") /\ UNCHANGED <<cmd, todo, op, cur, proj, purpose>>
    /\ UNCHANGED <<disk, bounds>>

\* The write throws before its rename: resolveManifestWriteFailure reads the
\* manifest, which still is the one before.
RenameFails ==
    /\ pc = "rename"
    /\ CASE manifest = Nil -> Finish
         [] manifest # Nil /\ ChangesAuthority(cur) ->
              Goto("abort") /\ UNCHANGED <<cmd, todo, op, cur, proj, purpose>>
         [] manifest # Nil /\ ~ChangesAuthority(cur) ->
              Goto("sync") /\ UNCHANGED <<cmd, todo, op, cur, proj, purpose>>
    /\ UNCHANGED <<disk, bounds>>

------------------------------------------------------------------------------
(* The commands that create no intent.                                       *)

\* `chatlog refine`: unlike derive, it does consult the marker.
RefineCommand ==
    /\ pc = "refine-command"
    /\ derived' = IF ProjectionMatches /\ NotInvalidated
                  THEN [derived EXCEPT !.refinery = ContentOf[manifest]]
                  ELSE derived
    /\ Finish
    /\ UNCHANGED <<manifest, manifestDisk, pending, completed, aborted, marker,
                   sqlite, receipts, bounds>>

\* `chatlog source reconcile`, which needs a manifest file.
ReconcileCommand ==
    /\ pc = "reconcile-command"
    /\ IF manifest = Nil THEN UNCHANGED <<sqlite, clock>> ELSE Reconcile(manifest)
    /\ Finish
    /\ UNCHANGED <<manifest, manifestDisk, pending, completed, aborted, marker,
                   derived, receipts, nextOp, committed, derivedFrom, crashes, losses,
                   powerLosses>>

------------------------------------------------------------------------------
(* Faults.                                                                   *)

\* The command dies, or an error it does not catch ends it, at any step.
Crash ==
    /\ pc # "idle" /\ crashes < MaxCrashes
    /\ crashes' = crashes + 1
    /\ Finish
    /\ UNCHANGED <<disk, nextOp, clock, committed, derivedFrom, losses,
                   powerLosses>>

\* Power fails: a rename whose directory was not synchronised is undone.
PowerLoss ==
    /\ powerLosses < MaxPowerLosses
    /\ powerLosses' = powerLosses + 1
    /\ manifest' = manifestDisk
    /\ committed' = {i \in committed :
                        pending[i] # Nil => pending[i].after = manifestDisk}
    /\ Finish
    /\ UNCHANGED <<manifestDisk, pending, completed, aborted, marker, sqlite,
                   derived, receipts, nextOp, clock, derivedFrom, crashes, losses>>

\* Between commands someone deletes derived/, invalidation marker included.
LoseDerived ==
    /\ pc = "idle" /\ "derived" \in Losable /\ losses < MaxLosses
    /\ losses' = losses + 1
    /\ derived' = [hashes |-> Nil, manifest |-> Nil, refinery |-> Nil]
    /\ marker' = Nil
    /\ UNCHANGED <<manifest, manifestDisk, pending, completed, aborted, sqlite,
                   receipts, local, nextOp, clock, committed, derivedFrom, crashes,
                   powerLosses>>

\* Between commands someone deletes analysis/.
LoseAnalysis ==
    /\ pc = "idle" /\ "analysis" \in Losable /\ losses < MaxLosses
    /\ losses' = losses + 1
    /\ sqlite' = [src |-> Nil, at |-> 0, rows |-> FALSE]
    /\ UNCHANGED <<manifest, manifestDisk, pending, completed, aborted, marker,
                   derived, receipts, local, nextOp, clock, committed, derivedFrom,
                   crashes, powerLosses>>

------------------------------------------------------------------------------
(* The specification.                                                        *)

RecoveryStep ==
    \/ RecoveryDone
    \/ VisitWithoutManifest
    \/ \E i \in Ops : VisitCompleted(i) \/ VisitPending(i)
    \/ Abort
    \/ Unlink

ResumeStep ==
    \/ Resume \/ Mark \/ ReconcileProjection \/ AdvanceReconciled
    \/ ReuseResolution \/ NoResolution \/ ResolveNotRequested \/ ResolveRequested
    \/ DeriveProjection \/ DeriveManifest \/ Refine \/ ClearMarker
    \/ DeriveWithoutManifest \/ AdvanceResolved
    \/ WriteReceipt \/ AdvanceReceipt \/ Complete

TransitionStep ==
    \/ Begin
    \/ \E after \in Manifests, derive, import \in BOOLEAN :
           Create(after, derive, import)
    \/ Rename
    \/ Sync

\* What a command does when nothing goes wrong around it.
Step == RecoveryStep \/ ResumeStep \/ TransitionStep
            \/ RefineCommand \/ ReconcileCommand

Fault == RenameFails \/ DerivationFails \/ Crash \/ PowerLoss
             \/ LoseDerived \/ LoseAnalysis

Next == (\E c \in Commands : Start(c)) \/ Step \/ Fault

Spec == Init /\ [][Next]_vars

\* A running command is scheduled, and commands keep being run: the hooks and
\* the operator invoke them again and again, and each begins with recovery.
FairSpec == Spec /\ WF_vars(Step) /\ WF_vars(\E c \in Commands : Start(c))

------------------------------------------------------------------------------
(* Properties.                                                               *)

\* Every variable holds the kind of value its file, row or local has.
TypeOK ==
    /\ manifest \in Manifests \cup {Nil} /\ manifestDisk \in Manifests \cup {Nil}
    /\ pending \in [Ops -> Intents \cup {Nil}]
    /\ completed \in [Ops -> Intents \cup {Nil}]
    /\ aborted \in [Ops -> Intents \cup {Nil}]
    /\ marker \in Sources \cup {Nil}
    /\ sqlite \in [src : Sources \cup {Nil}, at : Nat, rows : BOOLEAN]
    /\ derived \in [hashes : Contents \cup {Nil}, manifest : Contents \cup {Nil},
                    refinery : Contents \cup {Nil}]
    /\ receipts \subseteq [op : Ops, id : Resolutions]
    /\ pc \in Steps /\ cmd \in Commands /\ todo \subseteq Ops
    /\ op \in Ops \cup {0} /\ cur \in Intents \cup {Nil}
    /\ proj \in Projections \cup {Nil}
    /\ purpose \in {"resolve", "replay", "command"}
    /\ nextOp \in 1..(MaxOps + 1) /\ clock \in Nat
    /\ committed \subseteq Ops /\ derivedFrom \in Sources \cup {Nil}
    /\ crashes \in Nat /\ losses \in Nat /\ powerLosses \in Nat

\* The ops that recovery still has to decide.
Unsettled == {i \in Ops : pending[i] # Nil /\ completed[i] = Nil}
Drained == \A i \in Ops : pending[i] = Nil

\* However often a command dies between the two writes that settle an
\* operation, recovery never settles it the other way: no operation has both
\* a completed and an aborted file.
SettledOneWay == \A i \in Ops : completed[i] = Nil \/ aborted[i] = Nil

\* The operation files account for the manifest: an operation whose manifest
\* took effect is never aborted and never forgotten, and one is completed
\* only if its manifest took effect or changed nothing.
CommittedAccounted ==
    \A i \in Ops :
        /\ i \in committed => /\ pending[i] # Nil \/ completed[i] # Nil
                              /\ aborted[i] = Nil
        /\ completed[i] # Nil =>
               i \in committed \/ ~ChangesAuthority(completed[i])

\* Recovery never meets the conflict it fails closed on: at most one operation
\* is unsettled, and the manifest is on one side of its transition; one whose
\* completed file is already there is on the far side.
RecoveryDecides ==
    /\ \A i, j \in Ops : pending[i] # Nil /\ pending[j] # Nil => i = j
    /\ \A i \in Ops : pending[i] # Nil =>
           \/ LoadedManifest = pending[i].after
           \/ LoadedManifest = pending[i].before /\ completed[i] = Nil

\* Once no operation is pending, the source projection mirrors the manifest,
\* and derived state, if there ever was any, is either current or explicitly
\* marked invalid for the current sources (docs/workbench.md, "derived readers
\* remain unavailable until ...") -- as long as nobody deleted any of it.
DrainedRootAccounted ==
    Drained /\ manifest # Nil /\ losses = 0 =>
        /\ sqlite.src = SourcesOf[manifest]
        /\ Servable \/ marker = SourcesOf[manifest] \/ derived.refinery = Nil

\* Derived state that predates a change of the sources is not served once the
\* change is settled, even where the conversations happen to be the same
\* (only their event batches or receipts changed) and the projection matches.
StaleNotServed ==
    Drained /\ manifest # Nil /\ derivedFrom # SourcesOf[manifest] => ~Servable

\* An import that asked for a receipt and completed left the receipt of its
\* own resolution; no other operation, an aborted import included, left one.
ReceiptsMatchOperations ==
    \A i \in Ops :
        /\ aborted[i] # Nil => \A r \in receipts : r.op # i
        /\ completed[i] # Nil /\ completed[i].import =>
               \E r \in receipts : r.op = i /\ r.id = completed[i].res
        /\ completed[i] # Nil /\ ~completed[i].import =>
               \A r \in receipts : r.op # i

\* A crash around the receipt write does not duplicate the receipt: an import
\* leaves one receipt, however often it is resumed.
OneReceiptPerImport == \A r, s \in receipts : r.op = s.op => r = s

\* When every operation is settled the manifest has reached the disk: no power
\* failure can take back the authority that a completed operation reports.
SettledIsDurable == Drained => manifestDisk = manifest

\* Every intent is settled and removed: recovery is never stuck on one.
IntentsDrain == \A i \in Ops : pending[i] # Nil ~> pending[i] = Nil

(* The inductive invariants behind the safety properties.                    *)

\* The steps at which a command works on the operation op.
DeriveSteps == {"derive-projection", "derive-manifest", "refine", "clear-marker"}
Forward ==
    \/ pc \in {"sync", "resume", "mark", "reconcile", "advance-reconciled",
               "resolve", "resolve-fresh", "advance-resolved", "receipt",
               "advance-receipt", "complete"}
    \/ pc \in DeriveSteps /\ purpose # "command"
Working == pc \in {"abort", "unlink", "rename"} \/ Forward

SameTransition(i, j) == i.before = j.before /\ i.after = j.after

\* The operation has had its effect on the manifest, or it has none.
TookEffect(o, i) == manifest = i.after /\ (o \in committed \/ ~ChangesAuthority(i))

\* Only a running operation, or one that recovery is about to visit, is pending.
PendingIsVisited ==
    /\ \A i, j \in Ops : pending[i] # Nil /\ pending[j] # Nil => i = j
    /\ pc = "recover" => todo = {i \in Ops : pending[i] # Nil}
    /\ pc \in {"begin", "create"} => todo = {} /\ \A i \in Ops : pending[i] = Nil

\* What a command holds in memory is what its pending file says.
WorkingCopy ==
    Working => /\ op \in Ops /\ op < nextOp /\ todo \subseteq {op}
               /\ pending[op] # Nil /\ cur # Nil
               /\ SameTransition(cur, pending[op])

\* Derivation has something to derive from, and a receipt something to report.
StepHasInput ==
    /\ pc \in {"derive-manifest", "refine"} => manifest # Nil
    /\ pc = "advance-reconciled" => proj # Nil
    /\ pc \in {"advance-resolved", "receipt"} => cur.res # Nil
    /\ pc \in DeriveSteps /\ purpose = "replay" => cur.res # Nil

\* Operations are numbered in the order they are created.
NotYetCreated ==
    \A i \in Ops : i >= nextOp =>
        pending[i] = Nil /\ completed[i] = Nil /\ aborted[i] = Nil /\ i \notin committed

\* What holds of the program counter and the files whatever fails.
ControlInv == PendingIsVisited /\ WorkingCopy /\ StepHasInput /\ NotYetCreated

\* Where the program is says where the operation is.
StepMatchesOperation ==
    /\ pc = "abort" => /\ manifest = cur.before /\ ChangesAuthority(cur)
                       /\ completed[op] = Nil
    /\ pc = "rename" => /\ LoadedManifest = cur.before /\ op \notin committed
                        /\ completed[op] = Nil /\ aborted[op] = Nil
    /\ Forward => /\ TookEffect(op, cur)
                  /\ completed[op] = Nil /\ aborted[op] = Nil
    /\ pc = "unlink" => completed[op] # Nil \/ aborted[op] # Nil

\* What the files and the manifest say of every operation.
FilesMatchManifest ==
    \A i \in Ops :
        /\ completed[i] # Nil =>
               /\ i \in committed \/ ~ChangesAuthority(completed[i])
               /\ aborted[i] = Nil
               /\ pending[i] # Nil => /\ SameTransition(completed[i], pending[i])
                                      /\ LoadedManifest = completed[i].after
        /\ aborted[i] # Nil =>
               /\ i \notin committed
               /\ pending[i] # Nil => /\ SameTransition(aborted[i], pending[i])
                                      /\ LoadedManifest = pending[i].before
                                      /\ ChangesAuthority(pending[i])
        /\ pending[i] # Nil =>
               IF i \in committed THEN LoadedManifest = pending[i].after
                                  ELSE LoadedManifest = pending[i].before
        /\ i \in committed => pending[i] # Nil \/ completed[i] # Nil

\* What recovery relies on, unless a command dies before its fsync and a power
\* failure then takes the rename back.
LedgerInv == ControlInv /\ StepMatchesOperation /\ FilesMatchManifest

\* The transition an operation was opened with, from any file that has it.
TransitionOf(i) ==
    IF pending[i] = Nil /\ completed[i] = Nil /\ aborted[i] = Nil THEN Nil
    ELSE LET intent == IF pending[i] # Nil THEN pending[i]
                       ELSE IF completed[i] # Nil THEN completed[i]
                       ELSE aborted[i]
         IN  [before |-> intent.before, after |-> intent.after]

\* Where an operation stands, by the files that it has.
OutcomeOf(i) == IF completed[i] # Nil THEN "completed"
                ELSE IF aborted[i] # Nil THEN "aborted"
                ELSE IF pending[i] # Nil THEN "open"
                ELSE "none"

\* The operations implement the ledger: a crash is a stutter.
Ledger ==
    INSTANCE AuthorityLedger WITH
        Authorities <- Manifests, Genesis <- IF Initial = Nil THEN Empty ELSE Initial,
        None <- Nil,
        authority <- LoadedManifest,
        transition <- [i \in Ops |-> TransitionOf(i)],
        moved <- committed,
        outcome <- [i \in Ops |-> OutcomeOf(i)]

LedgerSpec == Ledger!Spec

==============================================================================
