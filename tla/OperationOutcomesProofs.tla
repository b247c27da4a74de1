---------------------- MODULE OperationOutcomesProofs ----------------------
(***************************************************************************)
(* Proofs about OperationIntents, continued: what an operation leaves      *)
(* behind.  The receipts of imports, the source projection, derived state  *)
(* with its invalidation marker, and the manifest that a power failure     *)
(* cannot take back.  Each of these properties needs an invariant of its   *)
(* own, beside what recovery relies on (LedgerInv).                        *)
(***************************************************************************)
EXTENDS OperationIntentsProofs

------------------------------------------------------------------------------
(* The invariants.                                                           *)

\* The steps at which the operation has no resolution on disk.
Unresolved ==
    \/ pc \in {"rename", "sync", "resolve-fresh", "advance-resolved"}
    \/ pc \in DeriveSteps /\ purpose = "resolve"

\* What a command holds in memory is what its pending file says, but for the
\* resolution that the next write records.
InMemory ==
    Working =>
        /\ cur = IF pc = "advance-resolved" THEN [pending[op] EXCEPT !.res = cur.res]
                 ELSE pending[op]
        /\ Unresolved => pending[op].res = Nil

\* Only an import whose manifest took effect leaves receipts, and its
\* completed file names one of them.
ReceiptsInv ==
    /\ \A r \in receipts :
           /\ r.op < nextOp /\ aborted[r.op] = Nil
           /\ pending[r.op] # Nil \/ completed[r.op] # Nil
           /\ pending[r.op] # Nil => /\ pending[r.op].import
                                     /\ TookEffect(r.op, pending[r.op])
                                     /\ pc \in {"rename", "sync"} => r.op # op
           /\ completed[r.op] # Nil => completed[r.op].import
    /\ pc \in {"advance-receipt", "complete"} /\ cur.import =>
           [op |-> op, id |-> cur.res] \in receipts
    /\ pc = "advance-receipt" => cur.import
    /\ \A i \in Ops : completed[i] # Nil /\ completed[i].import =>
           [op |-> i, id |-> completed[i].res] \in receipts

\* The receipts of a pending import report its resolution, and a resolution
\* that was completed stays in force until the operation is settled.
OneReceiptInv ==
    /\ OneReceiptPerImport
    /\ \A r \in receipts : pending[r.op] # Nil => r.id = pending[r.op].res
    /\ \A i \in Ops :
           pending[i] # Nil /\ pending[i].res # Nil /\ pending[i].res.status = "completed"
               => Servable
    /\ pc = "advance-resolved" /\ cur.res.status = "completed" => Servable

\* Once a manifest has been renamed, the projection of its sources and the
\* derived state may lag behind until the operation has dealt with them.
InFlight(i) == pending[i] # Nil /\ completed[i] = Nil /\ i \in committed
Undecided(i) == InFlight(i) /\ ChangesSources(pending[i]) /\ pending[i].res = Nil

PastReconcile ==
    \/ pc \in {"advance-reconciled", "resolve", "resolve-fresh", "advance-resolved",
               "receipt", "advance-receipt", "complete"}
    \/ pc \in DeriveSteps /\ purpose # "command"
PastMark == pc = "reconcile" \/ PastReconcile

Mirrored == losses = 0 => sqlite.src = SourcesOf[manifest]
Accounted ==
    losses = 0 => Servable \/ marker = SourcesOf[manifest] \/ derived.refinery = Nil
MarkedStale ==
    derivedFrom = SourcesOf[manifest] \/ marker = SourcesOf[manifest] \/ derived.manifest = Nil
Decided == Accounted /\ MarkedStale

\* What a derivation has written before the step it is at.
DerivedSoFar ==
    /\ pc \in {"derive-manifest", "refine", "clear-marker"} =>
           manifest # Nil /\ derived.hashes = ContentOf[manifest]
    /\ pc \in {"refine", "clear-marker"} =>
           /\ derived.manifest = ContentOf[manifest]
           /\ derivedFrom = SourcesOf[manifest]
    /\ pc = "clear-marker" => derived.refinery = ContentOf[manifest]

ProjectionInv ==
    /\ manifest # Nil /\ (\A i \in Ops : ~InFlight(i)) => Mirrored
    /\ PastReconcile => Mirrored
MarkerInv ==
    /\ manifest = Nil => derived.refinery = Nil /\ derived.manifest = Nil
    /\ manifest # Nil /\ (\A i \in Ops : ~Undecided(i)) => Decided
    /\ PastMark => Decided

\* Until the fsync that follows a rename, what is derived still suits the
\* manifest that a power failure would bring back.
DecidedFor(m) ==
    /\ losses = 0 =>
           \/ /\ derived.hashes = ContentOf[m] /\ derived.manifest = ContentOf[m]
              /\ derived.refinery = ContentOf[m]
           \/ marker = SourcesOf[m]
           \/ derived.refinery = Nil
    /\ derivedFrom = SourcesOf[m] \/ marker = SourcesOf[m] \/ derived.manifest = Nil
BehindInv ==
    pc = "sync" /\ crashes = 0 =>
        IF manifestDisk = Nil
        THEN derived.refinery = Nil /\ derived.manifest = Nil
        ELSE /\ losses = 0 => sqlite.src = SourcesOf[manifestDisk]
             /\ DecidedFor(manifestDisk)

\* Only between a rename and its fsync is the manifest not yet durable, unless
\* a command died in between.
DurableInv == crashes = 0 /\ pc # "sync" => manifestDisk = manifest

------------------------------------------------------------------------------
(* Memory and pending file.                                                  *)

\* Nothing is in memory away from the steps on an operation.
LEMMA AwayFromMemory == ASSUME ~Working' PROVE InMemory'
BY DEF InMemory

\* A step that leaves the memory, the pending file and the operation alone
\* only has to be at the right place.
LEMMA MemoryUntouched ==
    ASSUME InMemory, Working, UNCHANGED <<cur, pending, op>>,
           pc # "advance-resolved", pc' # "advance-resolved",
           Unresolved' => Unresolved \/ cur.res = Nil
    PROVE  InMemory'
BY DEF InMemory

\* A step that writes the same intent to memory and file leaves them equal.
LEMMA MemoryAdvanced ==
    ASSUME TypeOK, op \in Ops, NEW i, Advance(i), op' = op,
           pc' # "advance-resolved", Unresolved' => i.res = Nil
    PROVE  InMemory'
<1>1. cur' = i /\ pending'[op] = i
  BY DEF Advance, TypeOK
<1> QED
  BY <1>1 DEF InMemory

\* A resolution is recorded in memory only.
LEMMA MemoryResolved ==
    ASSUME TypeOK, ControlInv, InMemory, Working, Unresolved, pc # "advance-resolved",
           UNCHANGED <<pending, op>>,
           NEW s \in {"completed", "failed", "not-requested"}, Resolved(s)
    PROVE  InMemory'
<1>1. cur \in Intents /\ op \in Ops
  BY WorkingTypes DEF ControlInv
<1>2. cur = pending[op] /\ cur.res = Nil
  BY DEF InMemory
<1>3. cur' = [cur EXCEPT !.res = [status |-> s, at |-> clock + 1]]
      /\ pc' = "advance-resolved"
  BY DEF Resolved, Goto
<1>4. cur' = [cur EXCEPT !.res = cur'.res]
  BY <1>1, <1>3 DEF Intents
<1> QED
  BY <1>2, <1>3, <1>4 DEF InMemory

\* Every step keeps memory and pending file in agreement, whatever fails.
LEMMA NextInMemory == TypeOK /\ ControlInv /\ InMemory /\ [Next]_vars => InMemory'
<1> SUFFICES ASSUME TypeOK, ControlInv, InMemory, [Next]_vars PROVE InMemory'
  OBVIOUS
<1> USE DEF disk, local, bounds, Goto
<1>1. CASE Sync \/ Mark \/ ReconcileProjection \/ NoResolution \/ ResolveRequested
               \/ WriteReceipt
  BY <1>1, MemoryUntouched
  DEF Sync, Mark, ReconcileProjection, NoResolution, ResolveRequested, WriteReceipt,
      Working, Forward, Unresolved, DeriveSteps
<1>2. CASE DeriveProjection \/ DeriveManifest \/ Refine
  <2>1. CASE purpose = "command"
    BY <1>2, <2>1, AwayFromMemory
    DEF DeriveProjection, DeriveManifest, Refine, Working, Forward, DeriveSteps
  <2>2. CASE purpose # "command"
    BY <1>2, <2>2, MemoryUntouched
    DEF DeriveProjection, DeriveManifest, Refine, Working, Forward, Unresolved, DeriveSteps
  <2> QED
    BY <2>1, <2>2
<1>3. CASE Resume
  <2>1. CASE Finish
    BY <2>1, AwayFromMemory DEF Finish, Working, Forward, DeriveSteps
  <2>2. CASE ~Finish
    <3>1. Working /\ op \in Ops
      BY <1>3, WorkingTypes DEF Resume, Working, Forward, ControlInv
    <3>2. pc = "resume" /\ pc' = "mark" /\ op' = op
      BY <1>3, <2>2 DEF Resume
    <3>3. \/ UNCHANGED <<cur, pending>>
          \/ Advance([cur EXCEPT !.status = "authority-committed"])
      BY <1>3, <2>2 DEF Resume
    <3> QED
      BY <3>1, <3>2, <3>3, MemoryUntouched, MemoryAdvanced DEF Unresolved, DeriveSteps
  <2> QED
    BY <2>1, <2>2
<1>4. CASE AdvanceReconciled
  <2>1. Working /\ op \in Ops
    BY <1>4, WorkingTypes DEF AdvanceReconciled, Working, Forward, ControlInv
  <2>2. pc = "advance-reconciled" /\ pc' = "resolve" /\ op' = op
    BY <1>4 DEF AdvanceReconciled
  <2>3. \/ UNCHANGED <<cur, pending>>
        \/ Advance([cur EXCEPT !.status = "authority-reconciled", !.proj = proj])
    BY <1>4 DEF AdvanceReconciled
  <2> QED
    BY <2>1, <2>2, <2>3, MemoryUntouched, MemoryAdvanced DEF Unresolved, DeriveSteps
<1>5. CASE AdvanceResolved
  <2>1. op \in Ops
    BY <1>5, WorkingTypes DEF AdvanceResolved, Working, Forward, ControlInv
  <2> QED
    BY <1>5, <2>1, MemoryAdvanced DEF AdvanceResolved, Unresolved, DeriveSteps
<1>6. CASE AdvanceReceipt
  <2>1. Working /\ op \in Ops
    BY <1>6, WorkingTypes DEF AdvanceReceipt, Working, Forward, ControlInv
  <2>2. pc = "advance-receipt" /\ pc' = "complete" /\ op' = op
    BY <1>6 DEF AdvanceReceipt
  <2>3. \/ UNCHANGED <<cur, pending>>
        \/ Advance([cur EXCEPT !.status = "receipt-written", !.receipt = cur.res])
    BY <1>6 DEF AdvanceReceipt
  <2> QED
    BY <2>1, <2>2, <2>3, MemoryUntouched, MemoryAdvanced DEF Unresolved, DeriveSteps
<1>7. CASE ReuseResolution
  <2>1. /\ Working /\ op \in Ops /\ cur \in Intents /\ pc = "resolve" /\ op' = op
        /\ pc' \in {"receipt", "derive-projection", "resolve-fresh"}
    BY <1>7, WorkingTypes DEF ReuseResolution, Working, Forward, ControlInv
  <2>2. CASE cur.res.status = "completed" /\ ~Servable /\ cur.receipt = Nil
    <3> DEFINE next == [cur EXCEPT !.status = "authority-reconciled", !.res = Nil]
    <3>1. Advance(next) /\ pc' = "resolve-fresh"
      BY <1>7, <2>2 DEF ReuseResolution
    <3>2. next.res = Nil
      BY <2>1 DEF Intents
    <3> QED
      BY <2>1, <3>1, <3>2, MemoryAdvanced
  <2>3. CASE cur.res.status = "completed" /\ ~Servable /\ cur.receipt # Nil
    <3>1. UNCHANGED <<cur, pending, op>> /\ pc' = "derive-projection" /\ purpose' = "replay"
      BY <1>7, <2>3 DEF ReuseResolution
    <3> QED
      BY <2>1, <3>1, MemoryUntouched DEF Unresolved
  <2>4. CASE cur.res.status = "completed" /\ Servable
    <3>1. UNCHANGED <<cur, pending, op>> /\ pc' = "receipt"
      BY <1>7, <2>4 DEF ReuseResolution
    <3> QED
      BY <2>1, <3>1, MemoryUntouched DEF Unresolved, DeriveSteps
  <2>5. CASE cur.res.status # "completed"
    <3>1. UNCHANGED <<cur, pending, op>> /\ pc' = "receipt"
      BY <1>7, <2>5 DEF ReuseResolution
    <3> QED
      BY <2>1, <3>1, MemoryUntouched DEF Unresolved, DeriveSteps
  <2> QED
    BY <2>2, <2>3, <2>4, <2>5
<1>8. CASE ResolveNotRequested
  BY <1>8, MemoryResolved
  DEF ResolveNotRequested, Working, Forward, Unresolved, DeriveSteps
<1>9. CASE DerivationFails
  BY <1>9, MemoryResolved DEF DerivationFails, Working, Forward, Unresolved, DeriveSteps
<1>10. CASE ClearMarker
  <2>1. CASE purpose = "resolve"
    <3>1. Resolved("completed") /\ UNCHANGED <<pending, op>> /\ pc = "clear-marker"
      BY <1>10, <2>1 DEF ClearMarker
    <3> QED
      BY <2>1, <3>1, MemoryResolved DEF Working, Forward, Unresolved, DeriveSteps
  <2>2. CASE purpose = "replay"
    <3>1. pc = "clear-marker" /\ pc' = "receipt" /\ UNCHANGED <<cur, pending, op>>
      BY <1>10, <2>2 DEF ClearMarker
    <3> QED
      BY <2>2, <3>1, MemoryUntouched DEF Working, Forward, Unresolved, DeriveSteps
  <2>3. CASE purpose = "command"
    BY <1>10, <2>3, AwayFromMemory DEF ClearMarker, Finish, Working, Forward, DeriveSteps
  <2> QED
    BY <2>1, <2>2, <2>3 DEF TypeOK
<1>11. CASE Abort \/ Complete
  BY <1>11, MemoryUntouched
  DEF Abort, Complete, Working, Forward, Unresolved, DeriveSteps
<1>12. ASSUME NEW after \in Manifests, NEW derive \in BOOLEAN, NEW import \in BOOLEAN,
              Create(after, derive, import)
       PROVE  InMemory'
  <2> DEFINE intent == NewIntent(LoadedManifest, after, derive, import)
  <2>1. /\ nextOp \in Ops /\ pc' = "rename" /\ op' = nextOp /\ cur' = intent
        /\ pending' = [pending EXCEPT ![nextOp] = intent]
    BY <1>12 DEF Create, Ops, TypeOK
  <2>2. intent.res = Nil
    BY DEF NewIntent
  <2>3. pending'[op'] = intent
    BY <2>1 DEF TypeOK
  <2> QED
    BY <2>1, <2>2, <2>3 DEF InMemory
<1>13. CASE Rename
  BY <1>13, MemoryUntouched DEF Rename, Working, Unresolved, DeriveSteps
<1>14. CASE RenameFails
  <2>1. CASE Finish
    BY <2>1, AwayFromMemory DEF Finish, Working, Forward, DeriveSteps
  <2>2. CASE ~Finish
    <3>1. pc = "rename" /\ pc' \in {"abort", "sync"} /\ UNCHANGED <<cur, pending, op>>
      BY <1>14, <2>2 DEF RenameFails
    <3> QED
      BY <3>1, MemoryUntouched DEF Working, Unresolved, DeriveSteps
  <2> QED
    BY <2>1, <2>2
<1>15. ASSUME NEW i \in Ops, VisitPending(i)
       PROVE  InMemory'
  <2>1. CASE Finish
    BY <2>1, AwayFromMemory DEF Finish, Working, Forward, DeriveSteps
  <2>2. CASE ~Finish
    <3>1. /\ op' = i /\ cur' = pending[i] /\ pending' = pending
          /\ pc' \in {"abort", "resume"}
      BY <1>15, <2>2 DEF VisitPending
    <3> QED
      BY <3>1 DEF InMemory, Unresolved, DeriveSteps
  <2> QED
    BY <2>1, <2>2
<1>16. CASE RecoveryDone
  <2>1. /\ pc' \in {"begin", "derive-projection", "refine-command",
                    "reconcile-command", "idle"}
        /\ pc' = "derive-projection" => purpose' = "command"
    BY <1>16 DEF RecoveryDone, TypeOK, Commands
  <2> QED
    BY <2>1, AwayFromMemory DEF Working, Forward, DeriveSteps
<1>17. CASE \/ (\E c \in Commands : Start(c))
            \/ (\E i \in Ops : VisitCompleted(i))
            \/ VisitWithoutManifest \/ Unlink \/ Begin
            \/ DeriveWithoutManifest \/ RefineCommand \/ ReconcileCommand
            \/ Crash \/ PowerLoss \/ LoseDerived \/ LoseAnalysis
  <2>1. pc' \in {"idle", "recover", "create"}
    BY <1>17 DEF Start, VisitCompleted, Visit, VisitWithoutManifest, Unlink,
                 AfterSettling, Begin, DeriveWithoutManifest, RefineCommand,
                 ReconcileCommand, Crash, PowerLoss, LoseDerived, LoseAnalysis, Finish
  <2> QED
    BY <2>1, AwayFromMemory DEF Working, Forward, DeriveSteps
<1>18. CASE UNCHANGED vars
  BY <1>18 DEF vars, InMemory, Working, Forward, Unresolved, DeriveSteps
<1> QED
  BY <1>1, <1>2, <1>3, <1>4, <1>5, <1>6, <1>7, <1>8, <1>9, <1>10, <1>11, <1>12, <1>13,
     <1>14, <1>15, <1>16, <1>17, <1>18
  DEF Next, Step, RecoveryStep, ResumeStep, TransitionStep, Fault

------------------------------------------------------------------------------
(* The receipts of imports.                                                  *)

\* What a forward action writes of the intent leaves what it asks for alone.
LEMMA ForwardKeepsImport ==
    ASSUME TypeOK, ControlInv, InMemory, ForwardAction
    PROVE  /\ cur'.import = cur.import /\ cur.import = pending[op].import
           /\ pending[op] # Nil
<1> USE DEF disk, local, bounds, Goto
<1>1. Forward /\ op \in Ops /\ cur \in Intents /\ pending[op] # Nil
  <2>1. CarriesForward
    BY ForwardActions
  <2> QED
    BY <2>1, WorkingTypes DEF CarriesForward, Working, ControlInv, WorkingCopy
<1>2. cur.import = pending[op].import
  BY <1>1, NilAssumption DEF InMemory, Working, TypeOK, Intents
<1>3. cur'.import = cur.import
  <2>1. CASE Sync \/ Mark \/ ReconcileProjection \/ NoResolution \/ ResolveRequested
                 \/ WriteReceipt \/ DeriveProjection \/ DeriveManifest \/ Refine
    BY <2>1 DEF Sync, Mark, ReconcileProjection, NoResolution, ResolveRequested,
                WriteReceipt, DeriveProjection, DeriveManifest, Refine
  <2>2. CASE Resume \/ AdvanceReconciled \/ AdvanceResolved \/ AdvanceReceipt
                 \/ ReuseResolution
    <3>1. \/ cur' = cur
          \/ cur' = [cur EXCEPT !.status = "authority-committed"]
          \/ cur' = [cur EXCEPT !.status = "authority-reconciled", !.proj = proj]
          \/ cur' = [cur EXCEPT !.status = "derived-resolved"]
          \/ cur' = [cur EXCEPT !.status = "receipt-written", !.receipt = cur.res]
          \/ cur' = [cur EXCEPT !.status = "authority-reconciled", !.res = Nil]
          \/ pc = "resume" /\ manifest # cur.after
      BY <2>2, Zenon DEF Resume, AdvanceReconciled, AdvanceResolved, AdvanceReceipt,
                         ReuseResolution, Advance
    <3>2. ~(pc = "resume" /\ manifest # cur.after)
      BY <2>2 DEF ForwardAction, Sync, Mark, ReconcileProjection, AdvanceReconciled,
                  ReuseResolution, NoResolution, ResolveNotRequested, ResolveRequested,
                  DeriveProjection, DeriveManifest, Refine, ClearMarker,
                  DerivationFails, AdvanceResolved, WriteReceipt, AdvanceReceipt
    <3> QED
      BY <1>1, <3>1, <3>2 DEF Intents
  <2>3. CASE ResolveNotRequested \/ DerivationFails \/ (ClearMarker /\ purpose # "command")
    <3>1. cur' = cur \/ \E r : cur' = [cur EXCEPT !.res = r]
      BY <2>3 DEF ResolveNotRequested, DerivationFails, ClearMarker, Resolved, TypeOK
    <3> QED
      BY <1>1, <3>1 DEF Intents
  <2> QED
    BY <2>1, <2>2, <2>3 DEF ForwardAction
<1> QED
  BY <1>1, <1>2, <1>3

\* A step that changes no file that receipts are compared with only has to be
\* at the right place.
LEMMA ReceiptsUntouched ==
    ASSUME ReceiptsInv,
           UNCHANGED <<manifest, pending, completed, aborted, committed, receipts, nextOp>>,
           pc' \notin {"rename", "sync", "advance-receipt", "complete"}
    PROVE  ReceiptsInv'
BY DEF ReceiptsInv, TookEffect, ChangesAuthority

\* Every step keeps receipts and operation files in agreement.
LEMMA NextReceipts ==
    ASSUME PowerSafe
    PROVE  TypeOK /\ LedgerInv /\ PowerInv /\ InMemory /\ ReceiptsInv /\ [Next]_vars
               => ReceiptsInv'
<1> SUFFICES ASSUME TypeOK, LedgerInv, PowerInv, InMemory, ReceiptsInv, [Next]_vars
             PROVE  ReceiptsInv'
  OBVIOUS
<1> USE DEF disk, local, bounds, Goto, LedgerInv, ControlInv
<1>1. CASE ForwardAction
  <2>1. /\ CarriesForward
        /\ cur'.import = cur.import /\ cur.import = pending[op].import /\ pending[op] # Nil
    BY <1>1, ForwardActions, ForwardKeepsImport
  <2>2. /\ op \in Ops /\ op < nextOp /\ cur' # Nil
        /\ TookEffect(op, cur) /\ aborted[op] = Nil /\ completed[op] = Nil
        /\ UNCHANGED <<manifest, completed, aborted, committed, op, nextOp>>
        /\ pending' = pending \/ pending' = [pending EXCEPT ![op] = cur']
        /\ SameTransition(cur', cur) /\ SameTransition(cur, pending[op])
    BY <2>1, NilAssumption
    DEF CarriesForward, Working, WorkingCopy, StepMatchesOperation
  <2>3. /\ pending'[op] # Nil /\ pending'[op].import = cur.import
        /\ TookEffect(op, pending[op])'
        /\ \A i \in Ops : i # op => pending'[i] = pending[i]
    <3>1. pending'[op] = pending[op] \/ pending'[op] = cur'
      BY <2>2 DEF TypeOK
    <3>2. pending'[op] # Nil /\ pending'[op].import = cur.import
      BY <2>1, <2>2, <3>1
    <3>3. SameTransition(pending'[op], cur)
      BY <2>2, <3>1 DEF SameTransition
    <3>4. TookEffect(op, pending[op])'
      BY <2>2, <3>3 DEF TookEffect, SameTransition, ChangesAuthority
    <3> QED
      BY <2>2, <3>2, <3>4 DEF TypeOK
  <2>4. \A i \in Ops : i # op => pending[i] = Nil
    BY <2>1, <2>2 DEF PendingIsVisited
  <2> DEFINE Kept(o) ==
        /\ o < nextOp' /\ aborted'[o] = Nil
        /\ pending'[o] # Nil \/ completed'[o] # Nil
        /\ pending'[o] # Nil => pending'[o].import /\ TookEffect(o, pending[o])'
        /\ completed'[o] # Nil => completed'[o].import
  <2>5. /\ \A r \in receipts : Kept(r.op)
        /\ cur.import => Kept(op)
    <3>1. \A r \in receipts : r.op \in Ops /\ r.op # op => Kept(r.op)
      BY <2>2, <2>3, <2>4 DEF ReceiptsInv
    <3>2. cur.import => Kept(op)
      BY <2>2, <2>3
    <3>3. \A r \in receipts : r.op = op => cur.import
      BY <2>1 DEF ReceiptsInv
    <3>4. \A r \in receipts : r.op \in Ops
      BY DEF TypeOK
    <3> HIDE DEF Kept
    <3> QED
      BY <3>1, <3>2, <3>3, <3>4
  <2>6. pc' \notin {"rename", "sync"}
    BY <1>1 DEF ForwardAction, Sync, Resume, Mark, ReconcileProjection,
       AdvanceReconciled, ReuseResolution, NoResolution, ResolveNotRequested,
       ResolveRequested, DeriveProjection, DeriveManifest, Refine, ClearMarker,
       DerivationFails, AdvanceResolved, WriteReceipt, AdvanceReceipt, Resolved, TypeOK
  <2>7. \A i \in Ops : completed'[i] # Nil /\ completed'[i].import =>
            [op |-> i, id |-> completed'[i].res] \in receipts
    BY <2>2 DEF ReceiptsInv
  <2> HIDE DEF Kept
  <2>8. CASE WriteReceipt
    <3>1. cur' = cur
      BY <2>8 DEF WriteReceipt
    <3>2. CASE cur.import
      <4>1. receipts' = receipts \cup {[op |-> op, id |-> cur.res]} /\ pc' = "advance-receipt"
        BY <2>8, <3>2 DEF WriteReceipt
      <4>2. \A r \in receipts' : Kept(r.op)
        BY <2>5, <3>2, <4>1
      <4>3. /\ [op |-> op', id |-> cur'.res] \in receipts'
            /\ \A i \in Ops : completed'[i] # Nil /\ completed'[i].import =>
                   [op |-> i, id |-> completed'[i].res] \in receipts'
        BY <2>2, <2>7, <3>1, <4>1
      <4> QED
        BY <2>6, <3>1, <3>2, <4>2, <4>3 DEF ReceiptsInv, Kept
    <3>3. CASE ~cur.import
      <4>1. receipts' = receipts /\ pc' = "complete"
        BY <2>8, <3>3 DEF WriteReceipt
      <4> QED
        BY <2>5, <2>6, <2>7, <3>1, <3>3, <4>1 DEF ReceiptsInv, Kept
    <3> QED
      BY <3>2, <3>3
  <2>9. CASE AdvanceReceipt
    <3>1. cur'.res = cur.res /\ receipts' = receipts /\ pc = "advance-receipt" /\ pc' = "complete"
      <4>1. cur \in Intents
        BY <2>1, WorkingTypes DEF CarriesForward, Working
      <4> QED
        BY <2>9, <4>1 DEF AdvanceReceipt, Advance, Intents
    <3>2. [op |-> op', id |-> cur'.res] \in receipts'
      BY <2>1, <2>2, <3>1 DEF ReceiptsInv
    <3> QED
      BY <2>5, <2>6, <2>7, <3>1, <3>2 DEF ReceiptsInv, Kept
  <2>10. CASE ~WriteReceipt /\ ~AdvanceReceipt
    <3>1. receipts' = receipts /\ pc' \notin {"advance-receipt", "complete"}
      BY <1>1, <2>10 DEF ForwardAction, Sync, Resume, Mark, ReconcileProjection,
         AdvanceReconciled, ReuseResolution, NoResolution, ResolveNotRequested,
         ResolveRequested, DeriveProjection, DeriveManifest, Refine, ClearMarker,
         DerivationFails, AdvanceResolved, Resolved, TypeOK
    <3> QED
      BY <2>5, <2>6, <2>7, <3>1 DEF ReceiptsInv, Kept
  <2> QED
    BY <2>8, <2>9, <2>10
<1>2. CASE \/ Resume /\ manifest # cur.after
           \/ ClearMarker /\ purpose = "command"
           \/ DeriveWithoutManifest \/ VisitWithoutManifest
           \/ RefineCommand \/ ReconcileCommand \/ Crash
           \/ (DeriveProjection \/ DeriveManifest \/ Refine) /\ purpose = "command"
           \/ (\E c \in Commands : Start(c))
           \/ (\E i \in Ops : VisitPending(i))
           \/ Begin \/ LoseDerived \/ LoseAnalysis
  <2>1. UNCHANGED <<manifest, pending, completed, aborted, committed, receipts, nextOp>>
    BY <1>2 DEF Resume, ClearMarker, DeriveWithoutManifest, VisitWithoutManifest,
                RefineCommand, ReconcileCommand, Crash, DeriveProjection, DeriveManifest,
                Refine, Start, VisitPending, Begin, LoseDerived, LoseAnalysis
  <2>2. pc' \notin {"rename", "sync", "advance-receipt", "complete"}
    BY <1>2 DEF Resume, ClearMarker, DeriveWithoutManifest, VisitWithoutManifest,
                RefineCommand, ReconcileCommand, Crash, DeriveProjection, DeriveManifest,
                Refine, Start, VisitPending, Begin, LoseDerived, LoseAnalysis, Finish
  <2> QED
    BY <2>1, <2>2, ReceiptsUntouched
<1>3. CASE RecoveryDone
  <2>1. pc' \in {"begin", "derive-projection", "refine-command", "reconcile-command", "idle"}
    BY <1>3 DEF RecoveryDone, TypeOK, Commands
  <2> QED
    BY <1>3, <2>1, ReceiptsUntouched DEF RecoveryDone
<1>4. ASSUME NEW i \in Ops, VisitCompleted(i)
      PROVE  ReceiptsInv'
  <2>1. /\ UNCHANGED <<manifest, completed, aborted, committed, receipts, nextOp>>
        /\ completed[i] # Nil
        /\ pending' = pending \/ pending' = [pending EXCEPT ![i] = Nil]
        /\ pc' \in {"recover", "idle"}
    BY <1>4 DEF VisitCompleted, Visit, Finish
  <2> QED
    BY <2>1 DEF ReceiptsInv, TypeOK, TookEffect, ChangesAuthority
<1>5. CASE Abort
  <2>1. /\ op \in Ops /\ pending[op] # Nil /\ SameTransition(cur, pending[op])
        /\ manifest = cur.before /\ ChangesAuthority(cur)
        /\ completed[op] = Nil
        /\ aborted' = [aborted EXCEPT ![op] = cur]
        /\ UNCHANGED <<manifest, pending, completed, committed, receipts, nextOp, op>>
        /\ pc' = "unlink"
    BY <1>5 DEF Abort, WorkingCopy, Working, StepMatchesOperation
  <2>2. ~TookEffect(op, pending[op])
    BY <2>1 DEF TookEffect, SameTransition, ChangesAuthority
  <2>3. \A r \in receipts : r.op # op
    BY <2>1, <2>2 DEF ReceiptsInv
  <2> QED
    BY <2>1, <2>3 DEF ReceiptsInv, TypeOK, TookEffect, ChangesAuthority
<1>6. CASE Unlink
  <2>1. /\ op \in Ops /\ (completed[op] # Nil \/ aborted[op] # Nil)
        /\ pending' = [pending EXCEPT ![op] = Nil]
        /\ UNCHANGED <<manifest, completed, aborted, committed, receipts, nextOp>>
        /\ pc' \in {"recover", "idle"}
    BY <1>6 DEF Unlink, AfterSettling, Finish, WorkingCopy, Working, StepMatchesOperation
  <2> QED
    BY <2>1 DEF ReceiptsInv, TypeOK, TookEffect, ChangesAuthority
<1>7. CASE Complete
  <2> DEFINE last == [cur EXCEPT !.status = "completed"]
  <2>1. /\ op \in Ops /\ cur \in Intents /\ pending[op] # Nil /\ cur = pending[op]
        /\ completed' = [completed EXCEPT ![op] = last]
        /\ UNCHANGED <<manifest, pending, aborted, committed, receipts, nextOp, op>>
        /\ pc = "complete" /\ pc' = "unlink"
    BY <1>7, WorkingTypes DEF Complete, WorkingCopy, Working, Forward, InMemory
  <2>2. last.import = cur.import /\ last.res = cur.res
    BY <2>1 DEF Intents
  <2> QED
    BY <2>1, <2>2 DEF ReceiptsInv, TypeOK, TookEffect, ChangesAuthority
<1>8. ASSUME NEW after \in Manifests, NEW derive \in BOOLEAN, NEW import \in BOOLEAN,
             Create(after, derive, import)
      PROVE  ReceiptsInv'
  <2>1. /\ nextOp \in Ops /\ pc' = "rename" /\ op' = nextOp /\ nextOp' = nextOp + 1
        /\ \A i \in Ops : i # nextOp => pending'[i] = pending[i]
        /\ UNCHANGED <<manifest, completed, aborted, committed, receipts>>
    BY <1>8 DEF Create, Ops, TypeOK
  <2>2. \A r \in receipts : r.op \in Ops /\ r.op < nextOp /\ r.op # nextOp
    BY DEF ReceiptsInv, TypeOK, Ops
  <2>3. \A r \in receipts : r.op < nextOp'
    BY <2>1, <2>2 DEF Ops
  <2> QED
    BY <2>1, <2>2, <2>3 DEF ReceiptsInv, TookEffect, ChangesAuthority
<1>9. CASE Rename \/ RenameFails
  <2>1. /\ op \in Ops /\ pending[op] # Nil
        /\ UNCHANGED <<pending, completed, aborted, receipts, nextOp>>
        /\ pc = "rename" /\ pc' \notin {"advance-receipt", "complete"}
    BY <1>9 DEF Rename, RenameFails, Finish, WorkingCopy, Working
  <2>2. \A r \in receipts : pending[r.op] = Nil
    BY <2>1 DEF ReceiptsInv, PendingIsVisited, TypeOK
  <2> QED
    BY <2>1, <2>2 DEF ReceiptsInv
<1>10. CASE PowerLoss
  <2>1. /\ UNCHANGED <<pending, completed, aborted, receipts, nextOp>> /\ pc' = "idle"
    BY <1>10 DEF PowerLoss, Finish
  <2>2. CASE UNCHANGED <<manifest, committed>>
    BY <2>1, <2>2, ReceiptsUntouched
  <2>3. CASE ~UNCHANGED <<manifest, committed>>
    <3>1. pc = "sync" /\ \A i \in Ops : i # op => pending[i] = Nil
      BY <1>10, <2>3, PowerLossTakesBack
    <3>2. \A r \in receipts : pending[r.op] = Nil
      BY <3>1 DEF ReceiptsInv, TypeOK
    <3> QED
      BY <2>1, <3>2 DEF ReceiptsInv
  <2> QED
    BY <2>2, <2>3
<1>11. CASE UNCHANGED vars
  BY <1>11 DEF vars, ReceiptsInv, TookEffect, ChangesAuthority
<1> QED
  BY <1>1, <1>2, <1>3, <1>4, <1>5, <1>6, <1>7, <1>8, <1>9, <1>10, <1>11
  DEF Next, Step, RecoveryStep, ResumeStep, TransitionStep, Fault, ForwardAction

------------------------------------------------------------------------------
(* One receipt per import.                                                   *)

\* What a derivation has written stays, while it runs, what it derives from
\* stays as well.
LEMMA NextDerived == TypeOK /\ ControlInv /\ DerivedSoFar /\ [Next]_vars => DerivedSoFar'
<1> SUFFICES ASSUME TypeOK, ControlInv, DerivedSoFar, [Next]_vars PROVE DerivedSoFar'
  OBVIOUS
<1> USE DEF disk, local, bounds, Goto
<1>1. CASE DeriveProjection
  <2>1. /\ manifest # Nil /\ manifest' = manifest /\ pc' = "derive-manifest"
        /\ derived'.hashes = ContentOf[manifest]
    BY <1>1 DEF DeriveProjection, TypeOK
  <2> QED
    BY <2>1 DEF DerivedSoFar
<1>2. CASE DeriveManifest
  <2>1. /\ manifest' = manifest /\ pc = "derive-manifest" /\ pc' = "refine"
        /\ derived'.hashes = derived.hashes
        /\ derived'.manifest = ContentOf[manifest]
        /\ derivedFrom' = SourcesOf[manifest]
    BY <1>2 DEF DeriveManifest, TypeOK
  <2> QED
    BY <2>1 DEF DerivedSoFar
<1>3. CASE Refine
  <2>1. /\ manifest' = manifest /\ derivedFrom' = derivedFrom
        /\ pc = "refine" /\ pc' = "clear-marker"
        /\ derived'.hashes = derived.hashes /\ derived'.manifest = derived.manifest
        /\ derived'.refinery = ContentOf[manifest]
    BY <1>3 DEF Refine, TypeOK
  <2> QED
    BY <2>1 DEF DerivedSoFar
<1>4. CASE ClearMarker
  <2>1. pc' \in {"advance-resolved", "receipt", "idle"}
    BY <1>4 DEF ClearMarker, Resolved, Finish, TypeOK
  <2> QED
    BY <2>1 DEF DerivedSoFar
<1>5. CASE RecoveryDone
  <2>1. pc' \in {"begin", "derive-projection", "refine-command", "reconcile-command", "idle"}
    BY <1>5 DEF RecoveryDone, TypeOK, Commands
  <2> QED
    BY <2>1 DEF DerivedSoFar
<1>6. CASE ReuseResolution
  <2>1. pc' \in {"receipt", "derive-projection", "resolve-fresh"}
    BY <1>6 DEF ReuseResolution
  <2> QED
    BY <2>1 DEF DerivedSoFar
<1>7. CASE RenameFails
  <2>1. pc' \in {"idle", "abort", "sync"}
    BY <1>7 DEF RenameFails, Finish
  <2> QED
    BY <2>1 DEF DerivedSoFar
<1>8. CASE \/ Sync \/ Resume \/ Mark \/ ReconcileProjection \/ AdvanceReconciled
           \/ NoResolution \/ ResolveNotRequested \/ ResolveRequested \/ DerivationFails
           \/ AdvanceResolved \/ WriteReceipt \/ AdvanceReceipt \/ Complete
           \/ VisitWithoutManifest \/ Abort \/ Unlink \/ Begin \/ Rename
           \/ DeriveWithoutManifest \/ RefineCommand \/ ReconcileCommand
           \/ Crash \/ PowerLoss \/ LoseDerived \/ LoseAnalysis
  <2>1. pc' \notin {"derive-manifest", "refine", "clear-marker"}
    BY <1>8 DEF Sync, Resume, Mark, ReconcileProjection, AdvanceReconciled, NoResolution,
       ResolveNotRequested, ResolveRequested, DerivationFails, AdvanceResolved, Resolved,
       WriteReceipt, AdvanceReceipt, Complete, VisitWithoutManifest, Abort, Unlink,
       AfterSettling, Begin, Rename, DeriveWithoutManifest, RefineCommand,
       ReconcileCommand, Crash, PowerLoss, LoseDerived, LoseAnalysis, Finish
  <2> QED
    BY <2>1 DEF DerivedSoFar
<1>9. CASE \/ (\E c \in Commands : Start(c))
           \/ (\E i \in Ops : VisitCompleted(i) \/ VisitPending(i))
           \/ (\E after \in Manifests, derive, import \in BOOLEAN :
                   Create(after, derive, import))
  <2>1. pc' \in {"recover", "idle", "abort", "resume", "rename"}
    BY <1>9 DEF Start, VisitCompleted, VisitPending, Visit, Create, Finish
  <2> QED
    BY <2>1 DEF DerivedSoFar
<1>10. CASE UNCHANGED vars
  BY <1>10 DEF vars, DerivedSoFar
<1> QED
  BY <1>1, <1>2, <1>3, <1>4, <1>5, <1>6, <1>7, <1>8, <1>9, <1>10
  DEF Next, Step, RecoveryStep, ResumeStep, TransitionStep, Fault

\* Derived state that is served stays served when a part of it is derived
\* again from the same manifest, or the marker is cleared.
LEMMA ServableKept ==
    ASSUME TypeOK, Servable, manifest' = manifest, marker' \in {marker, Nil},
           derived'.hashes \in {derived.hashes, ContentOf[manifest]},
           derived'.manifest \in {derived.manifest, ContentOf[manifest]},
           derived'.refinery \in {derived.refinery, ContentOf[manifest]}
    PROVE  Servable'
<1>1. SourcesOf[manifest] # Nil
  BY ManifestHashes, ConstantsAssumption
  DEF TypeOK, ConstantsAssumption, Servable, ProjectionMatches
<1> QED
  BY <1>1 DEF Servable, ProjectionMatches, NotInvalidated

\* A pending operation was resolved by a derivation that completed.
Promised(i) == pending[i] # Nil /\ pending[i].res # Nil /\ pending[i].res.status = "completed"

\* A step that keeps receipts and resolutions has to keep derived state served
\* only where a resolution promises it.
LEMMA OneReceiptKept ==
    ASSUME OneReceiptInv, receipts' = receipts, pc' # "advance-resolved",
           \A r \in receipts : r.op \in Ops,
           \A i \in Ops : pending'[i] # Nil =>
               /\ pending[i] # Nil /\ pending'[i].res = pending[i].res
               /\ Promised(i) => Servable'
    PROVE  OneReceiptInv'
BY DEF OneReceiptInv, OneReceiptPerImport, Promised

\* A step between derivation and record: nothing was promised before it, and
\* what it records as completed is served.
LEMMA OneReceiptResolved ==
    ASSUME TypeOK, ControlInv, InMemory, OneReceiptInv, Working, Unresolved,
           UNCHANGED <<receipts, pending>>,
           cur'.res.status = "completed" => Servable'
    PROVE  OneReceiptInv'
<1>1. op \in Ops /\ pending[op] # Nil /\ pending[op].res = Nil
  BY WorkingTypes DEF InMemory, ControlInv, WorkingCopy
<1>2. \A i \in Ops : ~Promised(i)
  BY <1>1 DEF ControlInv, PendingIsVisited, Promised
<1> QED
  BY <1>2 DEF OneReceiptInv, OneReceiptPerImport, Promised

\* As long as nobody deletes derived state, every step keeps the receipts of
\* an import the same.
LEMMA NextOneReceipt ==
    ASSUME PowerSafe, "derived" \notin Losable
    PROVE  TypeOK /\ LedgerInv /\ PowerInv /\ InMemory /\ ReceiptsInv /\ DerivedSoFar
                  /\ OneReceiptInv /\ [Next]_vars => OneReceiptInv'
<1> SUFFICES ASSUME TypeOK, LedgerInv, PowerInv, InMemory, ReceiptsInv, DerivedSoFar,
                    OneReceiptInv, [Next]_vars
             PROVE  OneReceiptInv'
  OBVIOUS
<1> USE DEF disk, local, bounds, Goto, LedgerInv, ControlInv
<1>r. \A r \in receipts : r.op \in Ops
  BY DEF TypeOK
<1>p. \A i \in Ops : Promised(i) => Servable
  BY DEF OneReceiptInv, Promised
<1>o. ASSUME Working
      PROVE  /\ op \in Ops /\ cur \in Intents /\ pending[op] # Nil
             /\ \A i \in Ops : pending[i] # Nil => i = op
             /\ pc # "advance-resolved" => cur = pending[op]
  BY <1>o, WorkingTypes DEF WorkingCopy, PendingIsVisited, InMemory
<1>1. CASE \/ Sync \/ ReconcileProjection \/ NoResolution \/ ResolveRequested
           \/ Complete \/ Abort \/ Begin \/ RecoveryDone \/ RenameFails
           \/ (\E c \in Commands : Start(c)) \/ (\E i \in Ops : VisitPending(i))
           \/ VisitWithoutManifest \/ DeriveWithoutManifest \/ ReconcileCommand
           \/ Crash \/ LoseAnalysis \/ (Resume /\ manifest # cur.after)
  <2>1. UNCHANGED <<receipts, pending, manifest, marker, derived>>
    BY <1>1 DEF Sync, ReconcileProjection, NoResolution, ResolveRequested, Complete,
       Abort, Begin, RecoveryDone, RenameFails, Start, VisitPending, VisitWithoutManifest,
       DeriveWithoutManifest, ReconcileCommand, Crash, LoseAnalysis, Resume
  <2>2. pc' # "advance-resolved"
    <3>1. CASE RecoveryDone
      BY <3>1 DEF RecoveryDone, TypeOK, Commands
    <3> QED
      BY <1>1, <3>1 DEF Sync, ReconcileProjection, NoResolution, ResolveRequested,
         Complete, Abort, Begin, RenameFails, Start, VisitPending, VisitWithoutManifest,
         DeriveWithoutManifest, ReconcileCommand, Crash, LoseAnalysis, Resume, Finish
  <2>3. Servable => Servable'
    BY <2>1 DEF Servable, ProjectionMatches, NotInvalidated
  <2> QED
    BY <1>r, <1>p, <2>1, <2>2, <2>3, OneReceiptKept
<1>2. CASE DeriveProjection \/ DeriveManifest \/ Refine \/ RefineCommand
  <2>1. /\ UNCHANGED <<receipts, pending, manifest, marker>> /\ pc' # "advance-resolved"
        /\ derived'.hashes \in {derived.hashes, ContentOf[manifest]}
        /\ derived'.manifest \in {derived.manifest, ContentOf[manifest]}
        /\ derived'.refinery \in {derived.refinery, ContentOf[manifest]}
    BY <1>2 DEF DeriveProjection, DeriveManifest, Refine, RefineCommand, Finish, TypeOK
  <2> QED
    BY <1>r, <1>p, <2>1, ServableKept, OneReceiptKept
<1>3. CASE ClearMarker /\ purpose # "resolve"
  <2>1. /\ UNCHANGED <<receipts, pending, manifest, derived>> /\ marker' = Nil
        /\ pc' # "advance-resolved"
    BY <1>3 DEF ClearMarker, Finish, TypeOK
  <2> QED
    BY <1>r, <1>p, <2>1, ServableKept, OneReceiptKept
<1>4. CASE (Resume /\ manifest = cur.after) \/ AdvanceReconciled \/ AdvanceReceipt
  <2>1. Working /\ pc # "advance-resolved" /\ pc' # "advance-resolved"
    BY <1>4 DEF Resume, AdvanceReconciled, AdvanceReceipt, Working, Forward
  <2>2. UNCHANGED <<receipts, manifest, marker, derived>>
    BY <1>4 DEF Resume, AdvanceReconciled, AdvanceReceipt
  <2>3. \/ pending' = pending
        \/ \E n : n.res = cur.res /\ pending' = [pending EXCEPT ![op] = n]
    <3>1. CASE Resume /\ manifest = cur.after
      <4>1. [cur EXCEPT !.status = "authority-committed"].res = cur.res
        BY <1>o, <2>1 DEF Intents
      <4> QED
        BY <3>1, <4>1 DEF Resume, Advance
    <3>2. CASE AdvanceReconciled
      <4>1. [cur EXCEPT !.status = "authority-reconciled", !.proj = proj].res = cur.res
        BY <1>o, <2>1 DEF Intents
      <4> QED
        BY <3>2, <4>1 DEF AdvanceReconciled, Advance
    <3>3. CASE AdvanceReceipt
      <4>1. [cur EXCEPT !.status = "receipt-written", !.receipt = cur.res].res = cur.res
        BY <1>o, <2>1 DEF Intents
      <4> QED
        BY <3>3, <4>1 DEF AdvanceReceipt, Advance
    <3> QED
      BY <1>4, <3>1, <3>2, <3>3
  <2>4. \A i \in Ops : pending'[i] # Nil =>
            pending[i] # Nil /\ pending'[i].res = pending[i].res
    BY <1>o, <2>1, <2>3 DEF TypeOK
  <2>5. Servable => Servable'
    BY <2>2 DEF Servable, ProjectionMatches, NotInvalidated
  <2> QED
    BY <1>r, <1>p, <2>1, <2>2, <2>4, <2>5, OneReceiptKept
<1>5. CASE Unlink \/ (\E i \in Ops : VisitCompleted(i))
  <2>1. /\ UNCHANGED <<receipts, manifest, marker, derived>> /\ pc' # "advance-resolved"
        /\ \E i \in Ops : pending' = pending \/ pending' = [pending EXCEPT ![i] = Nil]
    <3>1. CASE Unlink
      <4>1. op \in Ops
        BY <3>1, <1>o DEF Unlink, Working
      <4> QED
        BY <3>1, <4>1 DEF Unlink, AfterSettling, Finish
    <3> QED
      BY <1>5, <3>1 DEF VisitCompleted, Visit, Finish
  <2>2. \A i \in Ops : pending'[i] # Nil => pending[i] # Nil /\ pending'[i] = pending[i]
    BY <2>1 DEF TypeOK
  <2>3. Servable => Servable'
    BY <2>1 DEF Servable, ProjectionMatches, NotInvalidated
  <2> QED
    BY <1>r, <1>p, <2>1, <2>2, <2>3, OneReceiptKept
<1>6. CASE Mark
  <2>1. /\ Working /\ pc # "advance-resolved" /\ pc' # "advance-resolved"
        /\ UNCHANGED <<receipts, pending, manifest, derived>>
        /\ cur.res # Nil => marker' = marker
    BY <1>6 DEF Mark, Working, Forward
  <2>2. \A i \in Ops : Promised(i) => Servable'
    BY <1>o, <1>p, <2>1 DEF Promised, Servable, ProjectionMatches, NotInvalidated
  <2> QED
    BY <1>r, <2>1, <2>2, OneReceiptKept
<1>7. CASE ReuseResolution
  <2>1. /\ Working /\ pc = "resolve" /\ cur.res # Nil
        /\ UNCHANGED <<receipts, manifest, derived>>
    BY <1>7 DEF ReuseResolution, Working, Forward
  <2>2. cur = pending[op] /\ op \in Ops /\ pending[op] # Nil
        /\ \A i \in Ops : pending[i] # Nil => i = op
    BY <1>o, <2>1
  <2>3. CASE cur.res.status = "completed"
    <3>1. Servable
      BY <1>p, <2>1, <2>2, <2>3 DEF Promised
    <3>2. UNCHANGED <<pending, marker>> /\ pc' = "receipt"
      BY <1>7, <2>3, <3>1 DEF ReuseResolution
    <3>3. Servable'
      BY <2>1, <3>1, <3>2 DEF Servable, ProjectionMatches, NotInvalidated
    <3> QED
      BY <1>r, <2>1, <3>2, <3>3, OneReceiptKept
  <2>4. CASE cur.res.status # "completed"
    <3>1. UNCHANGED pending /\ pc' = "receipt"
      BY <1>7, <2>4 DEF ReuseResolution
    <3>2. \A i \in Ops : ~Promised(i)
      BY <2>2, <2>4 DEF Promised
    <3> QED
      BY <1>r, <2>1, <3>1, <3>2, OneReceiptKept
  <2> QED
    BY <2>3, <2>4
<1>8. CASE ResolveNotRequested \/ DerivationFails
  <2>1. /\ Working /\ Unresolved /\ UNCHANGED <<receipts, pending>>
        /\ cur' = [cur EXCEPT !.res = cur'.res] /\ cur'.res.status # "completed"
    <3>1. Working /\ Unresolved /\ UNCHANGED <<receipts, pending>>
      BY <1>8 DEF ResolveNotRequested, DerivationFails, Working, Forward, Unresolved,
                  DeriveSteps
    <3>2. \E s \in {"failed", "not-requested"} :
              cur' = [cur EXCEPT !.res = [status |-> s, at |-> clock + 1]]
      BY <1>8 DEF ResolveNotRequested, DerivationFails, Resolved
    <3> QED
      BY <1>o, <3>1, <3>2 DEF Intents
  <2> QED
    BY <2>1, OneReceiptResolved
<1>9. CASE ClearMarker /\ purpose = "resolve"
  <2>1. /\ Working /\ Unresolved /\ UNCHANGED <<receipts, pending, manifest, derived>>
        /\ marker' = Nil /\ pc = "clear-marker"
    BY <1>9 DEF ClearMarker, Working, Forward, Unresolved, DeriveSteps
  <2>2. Servable'
    <3>1. SourcesOf[manifest] # Nil
      BY <2>1, ManifestHashes, ConstantsAssumption
      DEF TypeOK, ConstantsAssumption, DerivedSoFar
    <3> QED
      BY <2>1, <3>1 DEF DerivedSoFar, Servable, ProjectionMatches, NotInvalidated
  <2> QED
    BY <2>1, <2>2, OneReceiptResolved
<1>10. CASE AdvanceResolved
  <2> DEFINE next == [cur EXCEPT !.status = "derived-resolved"]
  <2>1. /\ op \in Ops /\ cur \in Intents /\ pending[op] # Nil /\ pending[op].res = Nil
        /\ \A i \in Ops : pending[i] # Nil => i = op
    BY <1>10, <1>o DEF AdvanceResolved, Working, Forward, InMemory, Unresolved
  <2>2. next.res = cur.res
    BY <2>1 DEF Intents
  <2>3. /\ UNCHANGED <<receipts, manifest, marker, derived>>
        /\ pending' = [pending EXCEPT ![op] = next] /\ pc' = "receipt"
        /\ pc = "advance-resolved"
    BY <1>10 DEF AdvanceResolved, Advance
  <2>4. \A r \in receipts : pending[r.op] = Nil /\ pending'[r.op] = pending[r.op]
    <3>1. \A r \in receipts : r.op # op
      BY <2>1, NilAssumption DEF OneReceiptInv, TypeOK
    <3> QED
      BY <1>r, <2>1, <2>3, <3>1 DEF TypeOK
  <2>5. Servable => Servable'
    BY <2>3 DEF Servable, ProjectionMatches, NotInvalidated
  <2>6. \A i \in Ops : pending'[i] # Nil => i = op /\ pending'[i] = next
    BY <2>1, <2>3 DEF TypeOK
  <2>7. \A i \in Ops : Promised(i)' => Servable'
    BY <2>2, <2>3, <2>5, <2>6 DEF OneReceiptInv, Promised
  <2> QED
    BY <2>3, <2>4, <2>7 DEF OneReceiptInv, OneReceiptPerImport, Promised
<1>11. CASE WriteReceipt
  <2>1. /\ op \in Ops /\ pending[op] # Nil /\ cur = pending[op]
        /\ UNCHANGED <<pending, manifest, marker, derived>> /\ pc' # "advance-resolved"
        /\ receipts' \in {receipts, receipts \cup {[op |-> op, id |-> cur.res]}}
    BY <1>11, <1>o DEF WriteReceipt, Working, Forward
  <2>2. \A r \in receipts : r.op = op => r.id = cur.res
    BY <2>1 DEF OneReceiptInv
  <2>3. \A r \in receipts : r = [op |-> r.op, id |-> r.id]
    BY DEF TypeOK
  <2>4. \A r \in receipts' : r = [op |-> r.op, id |-> r.id]
    BY <2>1, <2>3
  <2>5. \A r, s \in receipts' : r.op = s.op => r.id = s.id
    BY <2>1, <2>2 DEF OneReceiptInv, OneReceiptPerImport
  <2>6. OneReceiptPerImport'
    BY <2>4, <2>5 DEF OneReceiptPerImport
  <2>7. \A r \in receipts' : pending[r.op] # Nil => r.id = pending[r.op].res
    BY <2>1 DEF OneReceiptInv
  <2>8. Servable => Servable'
    BY <2>1 DEF Servable, ProjectionMatches, NotInvalidated
  <2> QED
    BY <2>1, <2>6, <2>7, <2>8 DEF OneReceiptInv
<1>12. ASSUME NEW after \in Manifests, NEW derive \in BOOLEAN, NEW import \in BOOLEAN,
              Create(after, derive, import)
       PROVE  OneReceiptInv'
  <2> DEFINE intent == NewIntent(LoadedManifest, after, derive, import)
  <2>1. /\ nextOp \in Ops /\ pc' = "rename" /\ receipts' = receipts
        /\ pending' = [pending EXCEPT ![nextOp] = intent]
        /\ \A i \in Ops : pending[i] = Nil
    BY <1>12 DEF Create, Ops, TypeOK, PendingIsVisited
  <2>2. intent.res = Nil
    BY DEF NewIntent
  <2>3. \A r \in receipts : pending'[r.op] = Nil
    <3>1. \A r \in receipts : r.op \in Ops /\ r.op # nextOp
      BY <1>r DEF ReceiptsInv, TypeOK, Ops
    <3> QED
      BY <2>1, <3>1 DEF TypeOK
  <2>4. \A i \in Ops : pending'[i] # Nil => pending'[i].res = Nil
    BY <2>1, <2>2 DEF TypeOK
  <2> QED
    BY <2>1, <2>3, <2>4 DEF OneReceiptInv, OneReceiptPerImport
<1>13. CASE Rename
  <2>1. /\ op \in Ops /\ pending[op] # Nil /\ pending[op].res = Nil
        /\ \A i \in Ops : pending[i] # Nil => i = op
        /\ UNCHANGED <<pending, receipts>> /\ pc' = "sync"
    BY <1>13, <1>o DEF Rename, Working, InMemory, Unresolved
  <2>2. \A i \in Ops : ~Promised(i)
    BY <2>1 DEF Promised
  <2> QED
    BY <1>r, <2>1, <2>2, OneReceiptKept
<1>14. CASE PowerLoss
  <2>1. UNCHANGED <<receipts, pending, marker, derived>> /\ pc' # "advance-resolved"
    BY <1>14 DEF PowerLoss, Finish
  <2>2. CASE manifest' = manifest
    <3>1. Servable => Servable'
      BY <2>1, <2>2 DEF Servable, ProjectionMatches, NotInvalidated
    <3> QED
      BY <1>r, <1>p, <2>1, <3>1, OneReceiptKept
  <2>3. CASE manifest' # manifest
    <3>1. pc = "sync"
      BY <1>14, <2>3, PowerLossTakesBack
    <3>2. /\ pending[op].res = Nil
          /\ \A i \in Ops : pending[i] # Nil => i = op
      BY <1>o, <3>1 DEF Working, Forward, InMemory, Unresolved
    <3>3. \A i \in Ops : ~Promised(i)
      BY <3>2 DEF Promised
    <3> QED
      BY <1>r, <2>1, <3>3, OneReceiptKept
  <2> QED
    BY <2>2, <2>3
<1>16. CASE LoseDerived
  BY <1>16 DEF LoseDerived
<1>15. CASE UNCHANGED vars
  BY <1>15 DEF vars, OneReceiptInv, OneReceiptPerImport, Servable, ProjectionMatches,
               NotInvalidated
<1> QED
  BY <1>1, <1>2, <1>3, <1>4, <1>5, <1>6, <1>7, <1>8, <1>9, <1>10, <1>11, <1>12, <1>13,
     <1>14, <1>15, <1>16
  DEF Next, Step, RecoveryStep, ResumeStep, TransitionStep, Fault

------------------------------------------------------------------------------
(* The source projection.                                                    *)

\* Reconciling mirrors the manifest it is given.
LEMMA ReconcileMirrors ==
    ASSUME NEW m \in Manifests, TypeOK, Reconcile(m)
    PROVE  sqlite'.src = SourcesOf[m]
BY DEF Reconcile

\* A step that leaves manifest and projection alone may settle an operation
\* only where the projection is known to mirror the manifest.
LEMMA ProjectionKept ==
    ASSUME ProjectionInv, UNCHANGED <<manifest, sqlite, losses>>,
           \/ PastReconcile
           \/ ~PastReconcile' /\ \A i \in Ops : InFlight(i) => InFlight(i)'
    PROVE  ProjectionInv'
BY DEF ProjectionInv, Mirrored

\* The step that follows one at which the manifest is mirrored.
LEMMA ProjectionMirrored == ASSUME Mirrored' PROVE ProjectionInv'
BY DEF ProjectionInv

\* Every step keeps the projection mirroring the manifest, but for an operation
\* in flight.
LEMMA NextProjection ==
    ASSUME PowerSafe
    PROVE  TypeOK /\ LedgerInv /\ PowerInv /\ BehindInv /\ ProjectionInv /\ [Next]_vars
               => ProjectionInv'
<1> SUFFICES ASSUME TypeOK, LedgerInv, PowerInv, BehindInv, ProjectionInv, [Next]_vars
             PROVE  ProjectionInv'
  OBVIOUS
<1> USE DEF disk, local, bounds, Goto, LedgerInv, ControlInv
<1>1. CASE \/ AdvanceReconciled \/ ReuseResolution \/ NoResolution \/ ResolveNotRequested
           \/ ResolveRequested \/ DerivationFails \/ AdvanceResolved \/ WriteReceipt
           \/ AdvanceReceipt \/ Complete
           \/ (DeriveProjection \/ DeriveManifest \/ Refine \/ ClearMarker)
                 /\ purpose # "command"
  <2>1. PastReconcile
    BY <1>1 DEF AdvanceReconciled, ReuseResolution, NoResolution, ResolveNotRequested,
       ResolveRequested, DerivationFails, AdvanceResolved, WriteReceipt, AdvanceReceipt,
       Complete, DeriveProjection, DeriveManifest, Refine, ClearMarker, PastReconcile,
       DeriveSteps
  <2>2. UNCHANGED <<manifest, sqlite, losses>>
    BY <1>1 DEF AdvanceReconciled, ReuseResolution, NoResolution, ResolveNotRequested,
       ResolveRequested, DerivationFails, AdvanceResolved, WriteReceipt, AdvanceReceipt,
       Complete, DeriveProjection, DeriveManifest, Refine, ClearMarker
  <2> QED
    BY <2>1, <2>2, ProjectionKept
<1>2. CASE ReconcileProjection
  <2>1. cur \in Intents /\ manifest = cur.after
    BY <1>2, WorkingTypes
    DEF ReconcileProjection, Working, Forward, StepMatchesOperation, TookEffect
  <2>2. sqlite'.src = SourcesOf[manifest] /\ manifest' = manifest
    BY <1>2, <2>1, IntentUpdates, ReconcileMirrors DEF ReconcileProjection
  <2> QED
    BY <2>2, ProjectionMirrored DEF Mirrored
<1>3. CASE Begin \/ ReconcileCommand
  <2>1. manifest' = manifest /\ ~PastReconcile'
    BY <1>3 DEF Begin, ReconcileCommand, Finish, PastReconcile, DeriveSteps
  <2>2. CASE manifest = Nil
    BY <2>1, <2>2 DEF ProjectionInv
  <2>3. CASE manifest # Nil
    <3>1. Reconcile(manifest) /\ manifest \in Manifests
      BY <1>3, <2>3 DEF Begin, ReconcileCommand, LoadedManifest, TypeOK
    <3> QED
      BY <2>1, <3>1, ReconcileMirrors, ProjectionMirrored DEF Mirrored
  <2> QED
    BY <2>2, <2>3
<1>4. CASE Rename
  <2>1. op \in Ops /\ pending[op] # Nil /\ completed[op] = Nil
    BY <1>4 DEF Rename, WorkingCopy, Working, StepMatchesOperation
  <2>2. \E i \in Ops : InFlight(i)'
    BY <1>4, <2>1 DEF Rename, InFlight
  <2>3. ~PastReconcile'
    BY <1>4 DEF Rename, PastReconcile, DeriveSteps
  <2> QED
    BY <2>2, <2>3 DEF ProjectionInv
<1>5. CASE LoseDerived \/ LoseAnalysis
  <2>1. losses' # 0
    BY <1>5 DEF LoseDerived, LoseAnalysis, TypeOK
  <2> QED
    BY <2>1, ProjectionMirrored DEF Mirrored
<1>6. CASE \/ Sync \/ Mark \/ Abort \/ RenameFails
           \/ (\E c \in Commands : Start(c)) \/ (\E i \in Ops : VisitPending(i))
           \/ VisitWithoutManifest \/ DeriveWithoutManifest \/ RefineCommand \/ Crash
           \/ (DeriveProjection \/ DeriveManifest \/ Refine \/ ClearMarker)
                 /\ purpose = "command"
  <2>1. UNCHANGED <<manifest, sqlite, losses, pending, completed, committed>>
    BY <1>6 DEF Sync, Mark, Abort, RenameFails, Start, VisitPending,
       VisitWithoutManifest, DeriveWithoutManifest, RefineCommand, Crash,
       DeriveProjection, DeriveManifest, Refine, ClearMarker
  <2>2. ~PastReconcile'
    BY <1>6 DEF Sync, Mark, Abort, RenameFails, Start, VisitPending,
       VisitWithoutManifest, DeriveWithoutManifest, RefineCommand, Crash,
       DeriveProjection, DeriveManifest, Refine, ClearMarker, Finish, PastReconcile,
       DeriveSteps
  <2> QED
    BY <2>1, <2>2, ProjectionKept DEF InFlight
<1>7. CASE RecoveryDone
  <2>1. /\ pc' \in {"begin", "derive-projection", "refine-command",
                    "reconcile-command", "idle"}
        /\ pc' = "derive-projection" => purpose' = "command"
    BY <1>7 DEF RecoveryDone, TypeOK, Commands
  <2>2. ~PastReconcile'
    BY <2>1 DEF PastReconcile, DeriveSteps
  <2> QED
    BY <1>7, <2>2, ProjectionKept DEF RecoveryDone, InFlight
<1>8. CASE Resume
  <2>1. /\ UNCHANGED <<manifest, sqlite, losses, completed, committed>> /\ ~PastReconcile'
    BY <1>8 DEF Resume, Finish, PastReconcile, DeriveSteps
  <2>2. \A i \in Ops : pending[i] # Nil => pending'[i] # Nil
    <3>1. CASE pending' = pending
      BY <3>1
    <3>2. CASE pending' # pending
      <4>1. ForwardAction
        BY <1>8, <3>2 DEF Resume, ForwardAction
      <4>2. CarriesForward
        BY <4>1, ForwardActions
      <4> QED
        BY <4>2, NilAssumption DEF CarriesForward, TypeOK
    <3> QED
      BY <3>1, <3>2
  <2> QED
    BY <2>1, <2>2, ProjectionKept DEF InFlight
<1>9. CASE Unlink \/ (\E i \in Ops : VisitCompleted(i))
  <2>1. UNCHANGED <<manifest, sqlite, losses, completed, committed>> /\ ~PastReconcile'
    BY <1>9 DEF Unlink, AfterSettling, VisitCompleted, Visit, Finish, PastReconcile,
                DeriveSteps
  <2>2. PICK o \in Ops : /\ completed[o] # Nil \/ aborted[o] # Nil
                         /\ pending' = pending \/ pending' = [pending EXCEPT ![o] = Nil]
    <3>1. CASE Unlink
      <4>1. op \in Ops /\ (completed[op] # Nil \/ aborted[op] # Nil)
        BY <3>1 DEF Unlink, WorkingCopy, Working, StepMatchesOperation
      <4> QED
        BY <3>1, <4>1 DEF Unlink
    <3> QED
      BY <1>9, <3>1 DEF VisitCompleted
  <2>3. \A i \in Ops : InFlight(i) => InFlight(i)'
    BY <2>1, <2>2 DEF InFlight, FilesMatchManifest, TypeOK
  <2> QED
    BY <2>1, <2>3, ProjectionKept
<1>10. ASSUME NEW after \in Manifests, NEW derive \in BOOLEAN, NEW import \in BOOLEAN,
              Create(after, derive, import)
       PROVE  ProjectionInv'
  <2>1. /\ UNCHANGED <<manifest, sqlite, losses>> /\ ~PastReconcile'
        /\ \A i \in Ops : pending[i] = Nil
    BY <1>10 DEF Create, PendingIsVisited, PastReconcile, DeriveSteps
  <2> QED
    BY <2>1, ProjectionKept DEF InFlight
<1>11. CASE PowerLoss
  <2>1. UNCHANGED <<sqlite, losses, pending, completed>> /\ ~PastReconcile'
    BY <1>11 DEF PowerLoss, Finish, PastReconcile, DeriveSteps
  <2>2. CASE UNCHANGED <<manifest, committed>>
    BY <2>1, <2>2, ProjectionKept DEF InFlight
  <2>3. CASE ~UNCHANGED <<manifest, committed>>
    <3>1. pc = "sync" /\ crashes = 0 /\ manifest' = manifestDisk
      BY <1>11, <2>3, PowerLossTakesBack DEF PowerLoss
    <3> QED
      BY <2>1, <3>1 DEF BehindInv, ProjectionInv, Mirrored
  <2> QED
    BY <2>2, <2>3
<1>12. CASE UNCHANGED vars
  BY <1>12 DEF vars, ProjectionInv, Mirrored, InFlight, PastReconcile, DeriveSteps
<1> QED
  BY <1>1, <1>2, <1>3, <1>4, <1>5, <1>6, <1>7, <1>8, <1>9, <1>10, <1>11, <1>12
  DEF Next, Step, RecoveryStep, ResumeStep, TransitionStep, Fault, TypeOK

------------------------------------------------------------------------------
(* Derived state and its invalidation marker.                                *)

\* A step that keeps the manifest, and derived state decided if it was, keeps
\* the invariant unless it settles an undecided operation or goes past mark.
LEMMA MarkerKept ==
    ASSUME MarkerInv, manifest' = manifest,
           manifest = Nil => derived'.refinery = Nil /\ derived'.manifest = Nil,
           Decided => Decided',
           \/ Decided'
           \/ (\A i \in Ops : Undecided(i) => Undecided(i)') /\ (PastMark' => PastMark)
    PROVE  MarkerInv'
BY DEF MarkerInv

\* Leaving derived state, marker and manifest alone leaves it decided.
LEMMA DecidedUntouched ==
    ASSUME UNCHANGED <<manifest, marker, derived, derivedFrom, losses>>
    PROVE  Decided <=> Decided'
BY DEF Decided, Accounted, MarkedStale, Servable, ProjectionMatches, NotInvalidated

\* A marker for the sources of the manifest decides.
LEMMA DecidedByMarker == ASSUME (marker = SourcesOf[manifest])' PROVE Decided'
BY DEF Decided, Accounted, MarkedStale

\* Deriving, refining and clearing the marker keep derived state decided; a
\* derivation that has run to its end decides.
LEMMA DerivingDecides ==
    ASSUME TypeOK, ControlInv, DerivedSoFar, manifest # Nil,
           DeriveProjection \/ DeriveManifest \/ Refine \/ ClearMarker \/ RefineCommand
    PROVE  /\ Decided => Decided'
           /\ ClearMarker => Decided'
<1> USE DEF Goto
<1>n. SourcesOf[manifest] # Nil /\ ContentOf[manifest] # Nil
  BY ManifestHashes, ConstantsAssumption DEF TypeOK, ConstantsAssumption
<1>1. CASE DeriveProjection
  <2>1. /\ UNCHANGED <<manifest, marker, derivedFrom, losses>>
        /\ derived'.hashes = ContentOf[manifest]
        /\ derived'.manifest = derived.manifest /\ derived'.refinery = derived.refinery
    BY <1>1 DEF DeriveProjection, TypeOK, bounds
  <2> QED
    BY <1>1, <2>1, ServableKept
    DEF Decided, Accounted, MarkedStale, DeriveProjection, ClearMarker
<1>2. CASE DeriveManifest
  <2>1. /\ UNCHANGED <<manifest, marker, losses>> /\ derivedFrom' = SourcesOf[manifest]
        /\ derived'.hashes = derived.hashes /\ derived'.refinery = derived.refinery
        /\ derived'.manifest = ContentOf[manifest]
    BY <1>2 DEF DeriveManifest, TypeOK
  <2> QED
    BY <1>2, <2>1, ServableKept
    DEF Decided, Accounted, MarkedStale, DeriveManifest, ClearMarker
<1>3. CASE Refine \/ RefineCommand
  <2>1. /\ UNCHANGED <<manifest, marker, derivedFrom, losses>> /\ pc # "clear-marker"
        /\ \/ derived' = derived
           \/ /\ ProjectionMatches
              /\ derived' = [derived EXCEPT !.refinery = ContentOf[manifest]]
    BY <1>3 DEF Refine, RefineCommand, bounds
  <2>2. CASE derived' = derived
    <3>1. ~ClearMarker
      BY <2>1 DEF ClearMarker
    <3> QED
      BY <2>1, <2>2, <3>1, DecidedUntouched
  <2>3. CASE ProjectionMatches /\ derived' = [derived EXCEPT !.refinery = ContentOf[manifest]]
    <3>1. /\ derived'.hashes = ContentOf[manifest] /\ derived'.manifest = derived.manifest
          /\ derived'.manifest = ContentOf[manifest]
          /\ derived'.refinery = ContentOf[manifest]
      BY <2>3 DEF TypeOK, ProjectionMatches
    <3>2. Accounted'
      BY <2>1, <3>1 DEF Accounted, Servable, ProjectionMatches, NotInvalidated
    <3> QED
      BY <2>1, <3>1, <3>2 DEF Decided, MarkedStale, ClearMarker
  <2> QED
    BY <2>1, <2>2, <2>3
<1>4. CASE ClearMarker
  <2>1. /\ UNCHANGED <<manifest, derived, derivedFrom, losses>> /\ marker' = Nil
        /\ pc = "clear-marker"
    BY <1>4 DEF ClearMarker
  <2>2. /\ derived.hashes = ContentOf[manifest] /\ derived.manifest = ContentOf[manifest]
        /\ derived.refinery = ContentOf[manifest] /\ derivedFrom = SourcesOf[manifest]
    BY <2>1 DEF DerivedSoFar
  <2> QED
    BY <1>n, <2>1, <2>2
    DEF Decided, Accounted, MarkedStale, Servable, ProjectionMatches, NotInvalidated
<1> QED
  BY <1>1, <1>2, <1>3, <1>4

\* Every step keeps derived state decided, but for an operation that recovery
\* has yet to take past its mark.
LEMMA NextMarker ==
    ASSUME PowerSafe
    PROVE  TypeOK /\ LedgerInv /\ PowerInv /\ InMemory /\ BehindInv /\ DerivedSoFar
                  /\ MarkerInv /\ [Next]_vars => MarkerInv'
<1> SUFFICES ASSUME TypeOK, LedgerInv, PowerInv, InMemory, BehindInv, DerivedSoFar,
                    MarkerInv, [Next]_vars
             PROVE  MarkerInv'
  OBVIOUS
<1> USE DEF disk, local, bounds, Goto, LedgerInv, ControlInv
<1>o. ASSUME Working
      PROVE  /\ op \in Ops /\ cur \in Intents /\ pending[op] # Nil
             /\ \A i \in Ops : pending[i] # Nil => i = op
             /\ pc # "advance-resolved" => cur = pending[op]
  BY <1>o, WorkingTypes DEF WorkingCopy, PendingIsVisited, InMemory
<1>f. ASSUME Forward
      PROVE  /\ cur \in Intents /\ manifest = cur.after /\ manifest \in Manifests
             /\ manifest # Nil
  BY <1>f, WorkingTypes, IntentUpdates, ConstantsAssumption
  DEF Working, StepMatchesOperation, TookEffect, ConstantsAssumption
<1>1. CASE \/ ReconcileProjection \/ AdvanceReconciled \/ NoResolution
           \/ ResolveRequested \/ AdvanceResolved \/ WriteReceipt \/ AdvanceReceipt
           \/ Complete
  <2>1. PastMark /\ UNCHANGED <<manifest, marker, derived, derivedFrom, losses>>
    BY <1>1 DEF ReconcileProjection, AdvanceReconciled, NoResolution, ResolveRequested,
       AdvanceResolved, WriteReceipt, AdvanceReceipt, Complete, PastMark, PastReconcile
  <2>2. Decided /\ Decided'
    BY <2>1, DecidedUntouched DEF MarkerInv
  <2> QED
    BY <2>1, <2>2, MarkerKept DEF MarkerInv
<1>2. CASE ReuseResolution \/ ResolveNotRequested \/ DerivationFails
  <2>1. /\ PastMark /\ Forward /\ UNCHANGED <<manifest, derived, derivedFrom, losses>>
        /\ marker' = marker \/ marker' = SourcesOf[cur.after]
    BY <1>2 DEF ReuseResolution, ResolveNotRequested, DerivationFails, PastMark,
                PastReconcile, Forward, DeriveSteps
  <2>2. Decided /\ manifest = cur.after
    BY <1>f, <2>1 DEF MarkerInv
  <2>3. Decided'
    BY <2>1, <2>2, DecidedUntouched, DecidedByMarker
  <2> QED
    BY <2>1, <2>3, MarkerKept DEF MarkerInv
<1>3. CASE DeriveProjection \/ DeriveManifest \/ Refine \/ ClearMarker
  <2>1. manifest # Nil /\ manifest' = manifest
    BY <1>3 DEF DeriveProjection, DeriveManifest, Refine, ClearMarker, DerivedSoFar
  <2>2. (Decided => Decided') /\ (ClearMarker => Decided')
    BY <1>3, <2>1, DerivingDecides
  <2>3. CASE ClearMarker
    BY <2>1, <2>2, <2>3, MarkerKept
  <2>4. CASE DeriveProjection \/ DeriveManifest \/ Refine
    <3>1. UNCHANGED <<pending, completed, committed>> /\ (PastMark' => PastMark)
      BY <2>4 DEF DeriveProjection, DeriveManifest, Refine, PastMark, PastReconcile,
                  DeriveSteps
    <3> QED
      BY <2>1, <2>2, <3>1, MarkerKept DEF Undecided, InFlight, ChangesSources
  <2> QED
    BY <1>3, <2>3, <2>4
<1>4. CASE RefineCommand
  <2>1. UNCHANGED <<manifest, pending, completed, committed>> /\ ~PastMark'
    BY <1>4 DEF RefineCommand, Finish, PastMark, PastReconcile, DeriveSteps
  <2>2. CASE manifest = Nil
    <3>1. UNCHANGED <<marker, derived, derivedFrom, losses>>
      BY <1>4, <2>2 DEF RefineCommand, ProjectionMatches
    <3> QED
      BY <2>1, <3>1, MarkerKept, DecidedUntouched
      DEF MarkerInv, Undecided, InFlight, ChangesSources
  <2>3. CASE manifest # Nil
    BY <1>4, <2>1, <2>3, DerivingDecides, MarkerKept DEF Undecided, InFlight, ChangesSources
  <2> QED
    BY <2>2, <2>3
<1>5. CASE Mark
  <2>1. /\ pc = "mark" /\ Forward /\ Working
        /\ UNCHANGED <<manifest, derived, derivedFrom, losses, pending, completed, committed>>
    BY <1>5 DEF Mark, Forward, Working
  <2>2. CASE ChangesSources(cur) /\ cur.res = Nil
    <3>1. (marker = SourcesOf[manifest])'
      BY <1>5, <1>f, <2>1, <2>2 DEF Mark
    <3> QED
      BY <2>1, <3>1, DecidedByMarker, MarkerKept DEF MarkerInv
  <2>3. CASE ~(ChangesSources(cur) /\ cur.res = Nil)
    <3>1. marker' = marker
      BY <1>5, <2>3 DEF Mark
    <3>2. \A i \in Ops : ~Undecided(i)
      BY <1>o, <2>1, <2>3 DEF Undecided, InFlight
    <3>3. Decided /\ Decided'
      BY <1>f, <2>1, <3>1, <3>2, DecidedUntouched DEF MarkerInv
    <3> QED
      BY <2>1, <3>3, MarkerKept DEF MarkerInv
  <2> QED
    BY <2>2, <2>3
<1>6. CASE Rename
  <2>1. PICK o \in Ops : o = op
    BY <1>6, <1>o DEF Rename, Working
  <2>2. /\ cur \in Intents /\ pending[o] # Nil /\ cur = pending[o] /\ cur.res = Nil
        /\ \A i \in Ops : pending[i] # Nil => i = o
        /\ completed[o] = Nil /\ o \notin committed /\ LoadedManifest = cur.before
        /\ UNCHANGED <<pending, completed, marker, derived, derivedFrom, losses>>
        /\ committed' = committed \cup {o} /\ manifest' = cur.after
    BY <1>6, <1>o, <2>1 DEF Rename, Working, InMemory, Unresolved, StepMatchesOperation
  <2>3. manifest' # Nil /\ cur.before \in Manifests /\ cur.after \in Manifests
    BY <2>2, IntentUpdates, ConstantsAssumption DEF ConstantsAssumption
  <2>4. ~PastMark'
    BY <1>6 DEF Rename, PastMark, PastReconcile, DeriveSteps
  <2>5. CASE ChangesSources(cur)
    <3>1. Undecided(o)'
      BY <2>2, <2>5 DEF Undecided, InFlight, ChangesSources
    <3> QED
      BY <2>3, <2>4, <3>1 DEF MarkerInv
  <2>6. CASE ~ChangesSources(cur)
    <3>1. /\ SourcesOf[cur.before] = SourcesOf[cur.after]
          /\ ContentOf[cur.before] = ContentOf[cur.after]
      BY <2>3, <2>6, SourcesDetermineContent DEF ChangesSources
    <3>2. CASE manifest = Nil
      <4>1. derived.refinery = Nil /\ derived.manifest = Nil
        BY <3>2 DEF MarkerInv
      <4>2. Decided'
        BY <2>2, <4>1 DEF Decided, Accounted, MarkedStale
      <4> QED
        BY <2>3, <4>2 DEF MarkerInv
    <3>3. CASE manifest # Nil
      <4>1. manifest = cur.before
        BY <2>2, <3>3 DEF LoadedManifest
      <4>2. \A i \in Ops : ~Undecided(i)
        BY <2>2 DEF Undecided, InFlight
      <4>3. Decided
        BY <3>3, <4>2 DEF MarkerInv
      <4>4. Decided'
        BY <2>2, <2>3, <3>1, <3>3, <4>1, <4>3
        DEF Decided, Accounted, MarkedStale, Servable, ProjectionMatches, NotInvalidated
      <4> QED
        BY <2>3, <4>4 DEF MarkerInv
    <3> QED
      BY <3>2, <3>3
  <2> QED
    BY <2>5, <2>6
<1>7. CASE LoseDerived
  <2>1. /\ manifest' = manifest /\ losses' # 0
        /\ derived'.refinery = Nil /\ derived'.manifest = Nil
    BY <1>7 DEF LoseDerived, TypeOK
  <2>2. Decided'
    BY <2>1 DEF Decided, Accounted, MarkedStale
  <2> QED
    BY <2>1, <2>2, MarkerKept
<1>8. CASE LoseAnalysis
  <2>1. /\ UNCHANGED <<manifest, marker, derived, derivedFrom, pending, completed, committed>>
        /\ losses' # 0 /\ pc' = pc /\ pc = "idle"
    BY <1>8 DEF LoseAnalysis, TypeOK
  <2>2. Decided => Decided'
    BY <2>1 DEF Decided, Accounted, MarkedStale
  <2> QED
    BY <2>1, <2>2, MarkerKept
    DEF MarkerInv, Undecided, InFlight, ChangesSources, PastMark, PastReconcile, DeriveSteps
<1>9. CASE \/ Sync \/ Abort \/ RenameFails \/ Begin \/ RecoveryDone
           \/ (\E c \in Commands : Start(c)) \/ (\E i \in Ops : VisitPending(i))
           \/ VisitWithoutManifest \/ DeriveWithoutManifest \/ ReconcileCommand \/ Crash
  <2>1. UNCHANGED <<manifest, marker, derived, derivedFrom, losses, pending, completed,
                    committed>>
    BY <1>9 DEF Sync, Abort, RenameFails, Begin, RecoveryDone, Start, VisitPending,
       VisitWithoutManifest, DeriveWithoutManifest, ReconcileCommand, Crash
  <2>2. ~PastMark'
    <3>1. CASE RecoveryDone
      <4>1. /\ pc' \in {"begin", "derive-projection", "refine-command",
                        "reconcile-command", "idle"}
            /\ pc' = "derive-projection" => purpose' = "command"
        BY <3>1 DEF RecoveryDone, TypeOK, Commands
      <4> QED
        BY <4>1 DEF PastMark, PastReconcile, DeriveSteps
    <3> QED
      BY <1>9, <3>1 DEF Sync, Abort, RenameFails, Begin, Start, VisitPending,
         VisitWithoutManifest, DeriveWithoutManifest, ReconcileCommand, Crash, Finish,
         PastMark, PastReconcile, DeriveSteps
  <2> QED
    BY <2>1, <2>2, DecidedUntouched, MarkerKept
    DEF MarkerInv, Undecided, InFlight, ChangesSources
<1>10. CASE Resume
  <2>1. /\ UNCHANGED <<manifest, marker, derived, derivedFrom, losses, completed, committed>>
        /\ ~PastMark'
    BY <1>10 DEF Resume, Finish, PastMark, PastReconcile, DeriveSteps
  <2>2. \A i \in Ops : Undecided(i) => Undecided(i)'
    <3>1. CASE pending' = pending
      BY <2>1, <3>1 DEF Undecided, InFlight, ChangesSources
    <3>2. CASE pending' # pending
      <4> DEFINE next == [cur EXCEPT !.status = "authority-committed"]
      <4>1. /\ op \in Ops /\ cur \in Intents /\ cur = pending[op]
            /\ \A i \in Ops : pending[i] # Nil => i = op
        BY <1>10, <1>o DEF Resume, Working, Forward
      <4>2. pending' = [pending EXCEPT ![op] = next]
        BY <1>10, <3>2 DEF Resume, Advance
      <4>3. /\ next.before = cur.before /\ next.after = cur.after /\ next.res = cur.res
            /\ next # Nil
        <5>1. next \in Intents
          BY <4>1, IntentUpdates DEF Statuses
        <5> QED
          BY <4>1, <5>1, NilAssumption DEF Intents
      <4> QED
        BY <2>1, <4>1, <4>2, <4>3 DEF Undecided, InFlight, ChangesSources, TypeOK
    <3> QED
      BY <3>1, <3>2
  <2> QED
    BY <2>1, <2>2, DecidedUntouched, MarkerKept DEF MarkerInv
<1>11. CASE Unlink \/ (\E i \in Ops : VisitCompleted(i))
  <2>1. /\ UNCHANGED <<manifest, marker, derived, derivedFrom, losses, completed, committed>>
        /\ ~PastMark'
    BY <1>11 DEF Unlink, AfterSettling, VisitCompleted, Visit, Finish, PastMark,
                 PastReconcile, DeriveSteps
  <2>2. PICK o \in Ops : /\ completed[o] # Nil \/ aborted[o] # Nil
                         /\ pending' = pending \/ pending' = [pending EXCEPT ![o] = Nil]
    <3>1. CASE Unlink
      <4>1. op \in Ops /\ (completed[op] # Nil \/ aborted[op] # Nil)
        BY <3>1 DEF Unlink, WorkingCopy, Working, StepMatchesOperation
      <4> QED
        BY <3>1, <4>1 DEF Unlink
    <3> QED
      BY <1>11, <3>1 DEF VisitCompleted
  <2>3. \A i \in Ops : Undecided(i) => Undecided(i)'
    BY <2>1, <2>2 DEF Undecided, InFlight, ChangesSources, FilesMatchManifest, TypeOK
  <2> QED
    BY <2>1, <2>3, DecidedUntouched, MarkerKept DEF MarkerInv
<1>12. ASSUME NEW after \in Manifests, NEW derive \in BOOLEAN, NEW import \in BOOLEAN,
              Create(after, derive, import)
       PROVE  MarkerInv'
  <2>1. /\ UNCHANGED <<manifest, marker, derived, derivedFrom, losses>> /\ ~PastMark'
        /\ \A i \in Ops : pending[i] = Nil
    BY <1>12 DEF Create, PendingIsVisited, PastMark, PastReconcile, DeriveSteps
  <2> QED
    BY <2>1, DecidedUntouched, MarkerKept DEF MarkerInv, Undecided, InFlight
<1>13. CASE PowerLoss
  <2>1. /\ UNCHANGED <<marker, derived, derivedFrom, losses, pending, completed>>
        /\ ~PastMark'
    BY <1>13 DEF PowerLoss, Finish, PastMark, PastReconcile, DeriveSteps
  <2>2. CASE UNCHANGED <<manifest, committed>>
    BY <2>1, <2>2, DecidedUntouched, MarkerKept
    DEF MarkerInv, Undecided, InFlight, ChangesSources
  <2>3. CASE ~UNCHANGED <<manifest, committed>>
    <3>1. pc = "sync" /\ crashes = 0 /\ manifest' = manifestDisk
      BY <1>13, <2>3, PowerLossTakesBack DEF PowerLoss
    <3>2. CASE manifestDisk = Nil
      BY <2>1, <3>1, <3>2 DEF BehindInv, MarkerInv
    <3>3. CASE manifestDisk # Nil
      <4>1. DecidedFor(manifestDisk)
        BY <3>1, <3>3 DEF BehindInv
      <4>2. Decided'
        BY <2>1, <3>1, <3>3, <4>1
        DEF DecidedFor, Decided, Accounted, MarkedStale, Servable, ProjectionMatches,
            NotInvalidated
      <4> QED
        BY <2>1, <3>1, <3>3, <4>2 DEF MarkerInv
    <3> QED
      BY <3>2, <3>3
  <2> QED
    BY <2>2, <2>3
<1>14. CASE UNCHANGED vars
  <2>1. /\ UNCHANGED <<manifest, marker, derived, derivedFrom, losses, pending, completed,
                       committed>>
        /\ PastMark' = PastMark
    BY <1>14 DEF vars, PastMark, PastReconcile, DeriveSteps
  <2> QED
    BY <2>1, DecidedUntouched, MarkerKept
    DEF MarkerInv, Undecided, InFlight, ChangesSources
<1> QED
  BY <1>1, <1>2, <1>3, <1>4, <1>5, <1>6, <1>7, <1>8, <1>9, <1>10, <1>11, <1>12, <1>13, <1>14
  DEF Next, Step, RecoveryStep, ResumeStep, TransitionStep, Fault

\* A rename leaves what was derived behind, for the manifest still on disk.
LEMMA NextBehind ==
    TypeOK /\ LedgerInv /\ PowerInv /\ ProjectionInv /\ MarkerInv /\ [Next]_vars
        => BehindInv' \/ UNCHANGED vars
<1> SUFFICES ASSUME TypeOK, LedgerInv, PowerInv, ProjectionInv, MarkerInv, Next
             PROVE  BehindInv'
  OBVIOUS
<1> USE DEF disk, local, bounds, Goto, LedgerInv, ControlInv
<1>1. CASE Rename \/ RenameFails
  <2>1. /\ pc = "rename"
        /\ UNCHANGED <<manifestDisk, sqlite, derived, derivedFrom, marker, crashes, losses>>
    BY <1>1 DEF Rename, RenameFails
  <2>2. CASE crashes # 0
    BY <2>1, <2>2 DEF BehindInv
  <2>3. CASE crashes = 0
    <3>1. manifestDisk = manifest
      BY <2>1, <2>3 DEF PowerInv, DiskIsBehind
    <3>2. \A i \in Ops : ~InFlight(i) /\ ~Undecided(i)
      <4>1. op \in Ops /\ pending[op] # Nil /\ op \notin committed
        BY <2>1 DEF WorkingCopy, Working, StepMatchesOperation
      <4> QED
        BY <4>1 DEF PendingIsVisited, InFlight, Undecided
    <3>3. CASE manifest = Nil
      BY <2>1, <3>1, <3>3 DEF BehindInv, MarkerInv
    <3>4. CASE manifest # Nil
      <4>1. Mirrored /\ Decided
        BY <3>2, <3>4 DEF ProjectionInv, MarkerInv
      <4>2. DecidedFor(manifest)
        BY <4>1 DEF DecidedFor, Decided, Accounted, MarkedStale, Servable,
                    ProjectionMatches
      <4>3. losses = 0 => sqlite.src = SourcesOf[manifestDisk]
        BY <3>1, <4>1 DEF Mirrored
      <4> QED
        BY <2>1, <3>1, <3>4, <4>2, <4>3 DEF BehindInv, DecidedFor
    <3> QED
      BY <3>3, <3>4
  <2> QED
    BY <2>2, <2>3
<1>2. CASE RecoveryDone
  <2>1. pc' # "sync"
    BY <1>2 DEF RecoveryDone, TypeOK, Commands
  <2> QED
    BY <2>1 DEF BehindInv
<1>3. CASE ClearMarker
  <2>1. pc' # "sync"
    BY <1>3 DEF ClearMarker, Resolved, Finish, TypeOK
  <2> QED
    BY <2>1 DEF BehindInv
<1>4. CASE \/ Sync \/ Resume \/ Mark \/ ReconcileProjection \/ AdvanceReconciled
           \/ ReuseResolution \/ NoResolution \/ ResolveNotRequested \/ ResolveRequested
           \/ DeriveProjection \/ DeriveManifest \/ Refine
           \/ DeriveWithoutManifest \/ DerivationFails \/ AdvanceResolved
           \/ WriteReceipt \/ AdvanceReceipt \/ Complete
           \/ VisitWithoutManifest \/ Abort \/ Unlink \/ Begin
           \/ RefineCommand \/ ReconcileCommand \/ Crash \/ PowerLoss
           \/ LoseDerived \/ LoseAnalysis
  <2>1. pc' # "sync"
    BY <1>4 DEF Sync, Resume, Mark, ReconcileProjection, AdvanceReconciled,
       ReuseResolution, NoResolution, ResolveNotRequested, ResolveRequested,
       DeriveProjection, DeriveManifest, Refine, DeriveWithoutManifest,
       DerivationFails, AdvanceResolved, WriteReceipt, AdvanceReceipt, Complete,
       VisitWithoutManifest, Abort, Unlink, Begin, RefineCommand, ReconcileCommand,
       Crash, PowerLoss, LoseDerived, LoseAnalysis, Resolved, AfterSettling, Finish
  <2> QED
    BY <2>1 DEF BehindInv
<1>5. CASE \/ (\E c \in Commands : Start(c))
           \/ (\E i \in Ops : VisitCompleted(i) \/ VisitPending(i))
           \/ (\E after \in Manifests, derive, import \in BOOLEAN :
                   Create(after, derive, import))
  <2>1. pc' # "sync"
    BY <1>5 DEF Start, VisitCompleted, VisitPending, Visit, Create, Finish
  <2> QED
    BY <2>1 DEF BehindInv
<1> QED
  BY <1>1, <1>2, <1>3, <1>4, <1>5
  DEF Next, Step, RecoveryStep, ResumeStep, TransitionStep, Fault

\* Doing nothing keeps it.
LEMMA BehindUntouched == BehindInv /\ UNCHANGED vars => BehindInv'
BY DEF BehindInv, DecidedFor, vars, disk, local, bounds

------------------------------------------------------------------------------
(* Durability.                                                               *)

\* Only rename and sync separate what a command sees from what is durable;
\* a power failure makes the first the second.
LEMMA NextDurable == TypeOK /\ ControlInv /\ DurableInv /\ [Next]_vars => DurableInv'
<1> SUFFICES ASSUME TypeOK, ControlInv, DurableInv, [Next]_vars PROVE DurableInv'
  OBVIOUS
<1> USE DEF disk, local, bounds, Goto
<1>1. CASE Rename
  BY <1>1 DEF Rename, DurableInv
<1>2. CASE Sync
  BY <1>2 DEF Sync, DurableInv
<1>3. CASE PowerLoss
  BY <1>3 DEF PowerLoss, DurableInv
<1>4. CASE Crash
  BY <1>4 DEF Crash, DurableInv, TypeOK
<1>5. CASE RenameFails
  BY <1>5 DEF RenameFails, DurableInv
<1>6. CASE \/ Resume \/ Mark \/ ReconcileProjection \/ AdvanceReconciled
           \/ ReuseResolution \/ NoResolution \/ ResolveNotRequested \/ ResolveRequested
           \/ DeriveProjection \/ DeriveManifest \/ Refine \/ ClearMarker
           \/ DeriveWithoutManifest \/ DerivationFails \/ AdvanceResolved
           \/ WriteReceipt \/ AdvanceReceipt \/ Complete
           \/ RecoveryDone \/ VisitWithoutManifest \/ Abort \/ Unlink \/ Begin
           \/ RefineCommand \/ ReconcileCommand \/ LoseDerived \/ LoseAnalysis
  <2>1. pc # "sync" /\ UNCHANGED <<manifest, manifestDisk, crashes>>
    BY <1>6 DEF Resume, Mark, ReconcileProjection, AdvanceReconciled, ReuseResolution,
       NoResolution, ResolveNotRequested, ResolveRequested, DeriveProjection,
       DeriveManifest, Refine, ClearMarker, DeriveWithoutManifest, DerivationFails,
       AdvanceResolved, WriteReceipt, AdvanceReceipt, Complete, RecoveryDone,
       VisitWithoutManifest, Visit, Abort, Unlink, Begin, RefineCommand,
       ReconcileCommand, LoseDerived, LoseAnalysis
  <2> QED
    BY <2>1 DEF DurableInv
<1>7. CASE \/ (\E c \in Commands : Start(c))
           \/ (\E i \in Ops : VisitCompleted(i) \/ VisitPending(i))
           \/ (\E after \in Manifests, derive, import \in BOOLEAN :
                   Create(after, derive, import))
  <2>1. pc # "sync" /\ UNCHANGED <<manifest, manifestDisk, crashes>>
    BY <1>7 DEF Start, VisitCompleted, VisitPending, Visit, Create
  <2> QED
    BY <2>1 DEF DurableInv
<1>8. CASE UNCHANGED vars
  BY <1>8 DEF vars, DurableInv
<1> QED
  BY <1>1, <1>2, <1>3, <1>4, <1>5, <1>6, <1>7, <1>8
  DEF Next, Step, RecoveryStep, ResumeStep, TransitionStep, Fault

------------------------------------------------------------------------------
(* The theorems.                                                             *)

\* The initial states satisfy the invariants.
LEMMA InitOutcomes ==
    Init => /\ InMemory /\ ReceiptsInv /\ DerivedSoFar /\ OneReceiptInv
            /\ ProjectionInv /\ MarkerInv /\ BehindInv /\ DurableInv
<1> SUFFICES ASSUME Init
             PROVE  /\ InMemory /\ ReceiptsInv /\ DerivedSoFar /\ OneReceiptInv
                    /\ ProjectionInv /\ MarkerInv /\ BehindInv /\ DurableInv
  OBVIOUS
<1>1. /\ pc = "idle" /\ receipts = {} /\ crashes = 0 /\ manifestDisk = manifest
      /\ \A i \in Ops : pending[i] = Nil /\ completed[i] = Nil
  BY DEF Init
<1>2. InMemory /\ DerivedSoFar /\ ~PastReconcile /\ ~PastMark
  BY <1>1 DEF InMemory, Working, Forward, DerivedSoFar, PastReconcile, PastMark, DeriveSteps
<1>3. ReceiptsInv /\ OneReceiptInv /\ BehindInv /\ DurableInv
  BY <1>1 DEF ReceiptsInv, OneReceiptInv, OneReceiptPerImport, BehindInv, DurableInv
<1>4. CASE manifest = Nil
  <2>1. derived.refinery = Nil /\ derived.manifest = Nil
    <3>1. derived = [hashes |-> Nil, manifest |-> Nil, refinery |-> Nil]
      BY <1>4, Zenon DEF Init
    <3> QED
      BY <3>1
  <2> QED
    BY <1>2, <1>3, <1>4, <2>1 DEF ProjectionInv, MarkerInv
<1>5. CASE manifest # Nil
  <2>1. /\ sqlite = [src |-> SourcesOf[manifest], at |-> 0, rows |-> TRUE]
        /\ derived = [hashes |-> ContentOf[manifest], manifest |-> ContentOf[manifest],
                      refinery |-> ContentOf[manifest]]
        /\ derivedFrom = SourcesOf[manifest] /\ marker = Nil
    BY <1>5, Zenon DEF Init
  <2>2. SourcesOf[manifest] # Nil
    BY <1>5, ManifestHashes, ConstantsAssumption DEF Init, ConstantsAssumption
  <2>3. Mirrored /\ Decided
    BY <1>5, <2>1, <2>2
    DEF Mirrored, Decided, Accounted, MarkedStale, Servable, ProjectionMatches,
        NotInvalidated
  <2> QED
    BY <1>2, <1>3, <1>5, <2>3 DEF ProjectionInv, MarkerInv
<1> QED
  BY <1>4, <1>5

\* What a command holds in memory is what its pending file says, whatever
\* crashes, power failures and losses do.
THEOREM MemoryAgrees == Spec => []InMemory
<1>1. Init => TypeOK /\ ControlInv /\ InMemory
  BY InitLedger, InitOutcomes DEF LedgerInv
<1>2. TypeOK /\ ControlInv /\ InMemory /\ [Next]_vars => (TypeOK /\ ControlInv /\ InMemory)'
  BY NextType, NextControl, NextInMemory
<1> QED
  BY <1>1, <1>2, PTL DEF Spec

\* An import that asked for a receipt and completed left the receipt of its
\* own resolution, and no other operation left one.
THEOREM ReceiptsMatch ==
    ASSUME PowerSafe
    PROVE  Spec => []ReceiptsMatchOperations
<1>1. Init => InMemory /\ ReceiptsInv
  BY InitOutcomes
<1>2. /\ TypeOK /\ LedgerInv /\ PowerInv /\ InMemory /\ ReceiptsInv /\ [Next]_vars
      => (InMemory /\ ReceiptsInv)'
  BY NextInMemory, NextReceipts DEF LedgerInv
<1>3. TypeOK /\ LedgerInv /\ ReceiptsInv => ReceiptsMatchOperations
  <2> SUFFICES ASSUME TypeOK, LedgerInv, ReceiptsInv PROVE ReceiptsMatchOperations
    OBVIOUS
  <2>1. ASSUME NEW i \in Ops, completed[i] # Nil, completed[i].import
        PROVE  \E r \in receipts : r.op = i /\ r.id = completed[i].res
    BY <2>1 DEF ReceiptsInv
  <2> QED
    BY <2>1 DEF ReceiptsInv, ReceiptsMatchOperations
<1> QED
  BY <1>1, <1>2, <1>3, LedgerInvariant, PTL DEF Spec

\* However often an import is resumed it leaves one receipt, as long as nobody
\* deletes the derived state that its resolution reports.
THEOREM ImportsLeaveOneReceipt ==
    ASSUME PowerSafe, "derived" \notin Losable
    PROVE  Spec => []OneReceiptPerImport
<1>1. Init => InMemory /\ ReceiptsInv /\ DerivedSoFar /\ OneReceiptInv
  BY InitOutcomes
<1>2. /\ TypeOK /\ LedgerInv /\ PowerInv /\ InMemory /\ ReceiptsInv /\ DerivedSoFar
      /\ OneReceiptInv /\ [Next]_vars
      => (InMemory /\ ReceiptsInv /\ DerivedSoFar /\ OneReceiptInv)'
  BY NextInMemory, NextReceipts, NextDerived, NextOneReceipt DEF LedgerInv
<1>3. OneReceiptInv => OneReceiptPerImport
  BY DEF OneReceiptInv
<1> QED
  BY <1>1, <1>2, <1>3, LedgerInvariant, PTL DEF Spec

\* The invariants about what is derived from the manifest.
LEMMA DerivedInvariant ==
    ASSUME PowerSafe
    PROVE  Spec => [](TypeOK /\ LedgerInv /\ ProjectionInv /\ MarkerInv)
<1>1. Init => InMemory /\ DerivedSoFar /\ ProjectionInv /\ MarkerInv /\ BehindInv
  BY InitOutcomes
<1>2. /\ TypeOK /\ LedgerInv /\ PowerInv /\ InMemory /\ DerivedSoFar
      /\ ProjectionInv /\ MarkerInv /\ BehindInv /\ [Next]_vars
      => (InMemory /\ DerivedSoFar /\ ProjectionInv /\ MarkerInv /\ BehindInv)'
  BY NextInMemory, NextDerived, NextProjection, NextMarker, NextBehind, BehindUntouched
  DEF LedgerInv
<1> QED
  BY <1>1, <1>2, LedgerInvariant, PTL DEF Spec

\* Once no operation is pending and nothing was deleted, the projection mirrors
\* the manifest and derived state is current, marked invalid, or was never
\* there, however often commands died or power failed.
THEOREM DrainedRootIsAccounted ==
    ASSUME PowerSafe
    PROVE  Spec => []DrainedRootAccounted
<1>1. TypeOK /\ LedgerInv /\ ProjectionInv /\ MarkerInv => DrainedRootAccounted
  BY DEF ProjectionInv, MarkerInv, DrainedRootAccounted, Drained, InFlight, Undecided,
         Mirrored, Decided, Accounted
<1> QED
  BY <1>1, DerivedInvariant, PTL

\* Derived state from before a change of the sources is not served once the
\* change is settled, whatever was deleted in between.
THEOREM StaleIsNotServed ==
    ASSUME PowerSafe
    PROVE  Spec => []StaleNotServed
<1>1. TypeOK /\ LedgerInv /\ ProjectionInv /\ MarkerInv => StaleNotServed
  <2> SUFFICES ASSUME TypeOK, MarkerInv, Drained, manifest # Nil,
                      derivedFrom # SourcesOf[manifest]
               PROVE  ~Servable
    BY DEF StaleNotServed
  <2>1. marker = SourcesOf[manifest] \/ derived.manifest = Nil
    BY DEF MarkerInv, Drained, Undecided, InFlight, Decided, MarkedStale
  <2>2. ContentOf[manifest] # Nil
    BY ManifestHashes, ConstantsAssumption DEF TypeOK, ConstantsAssumption
  <2> QED
    BY <2>1, <2>2 DEF Servable, ProjectionMatches, NotInvalidated
<1> QED
  BY <1>1, DerivedInvariant, PTL

\* As long as no command dies, the manifest that settled operations report has
\* reached the disk, whenever power fails.
THEOREM SettledIsOnDisk == Spec => [](crashes = 0 => SettledIsDurable)
<1>1. Init => TypeOK /\ ControlInv /\ DurableInv
  BY InitLedger, InitOutcomes DEF LedgerInv
<1>2. TypeOK /\ ControlInv /\ DurableInv /\ [Next]_vars
      => (TypeOK /\ ControlInv /\ DurableInv)'
  BY NextType, NextControl, NextDurable
<1>3. TypeOK /\ ControlInv /\ DurableInv => (crashes = 0 => SettledIsDurable)
  <2> SUFFICES ASSUME TypeOK, ControlInv, DurableInv, crashes = 0, Drained
               PROVE  manifestDisk = manifest
    BY DEF SettledIsDurable
  <2>1. pc # "sync"
    BY DEF ControlInv, WorkingCopy, Working, Forward, Drained
  <2> QED
    BY <2>1 DEF DurableInv
<1> QED
  BY <1>1, <1>2, <1>3, PTL DEF Spec

==============================================================================
