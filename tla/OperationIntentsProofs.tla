----------------------- MODULE OperationIntentsProofs -----------------------
(***************************************************************************)
(* Proofs about OperationIntents: its type invariant, the invariant that   *)
(* relates operation files, manifest and program counter, the safety       *)
(* properties that follow, and that the operations implement the           *)
(* AuthorityLedger.                                                        *)
(***************************************************************************)
EXTENDS OperationIntents, TLAPS

\* The pieces of TypeOK that a step changes together.
LEMMA InitType == Init => TypeOK
<1> SUFFICES ASSUME Init PROVE TypeOK
  OBVIOUS
<1> USE ConstantsAssumption DEF ConstantsAssumption
<1>1. /\ sqlite \in [src : Sources \cup {Nil}, at : Nat, rows : BOOLEAN]
      /\ derived \in [hashes : Contents \cup {Nil}, manifest : Contents \cup {Nil},
                      refinery : Contents \cup {Nil}]
      /\ derivedFrom \in Sources \cup {Nil}
  <2>1. CASE Initial = Nil
    <3>1. /\ sqlite = [src |-> Nil, at |-> 0, rows |-> TRUE]
          /\ derived = [hashes |-> Nil, manifest |-> Nil, refinery |-> Nil]
          /\ derivedFrom = Nil
      BY <2>1, Zenon DEF Init
    <3> QED
      BY <3>1
  <2>2. CASE Initial # Nil
    <3>1. /\ sqlite = [src |-> SourcesOf[Initial], at |-> 0, rows |-> TRUE]
          /\ derived = [hashes |-> ContentOf[Initial], manifest |-> ContentOf[Initial],
                        refinery |-> ContentOf[Initial]]
          /\ derivedFrom = SourcesOf[Initial]
      BY <2>2, Zenon DEF Init
    <3>2. SourcesOf[Initial] \in Sources /\ ContentOf[Initial] \in Contents
      BY <2>2
    <3> QED
      BY <3>1, <3>2
  <2> QED
    BY <2>1, <2>2
<1>2. /\ pending \in [Ops -> Intents \cup {Nil}]
      /\ completed \in [Ops -> Intents \cup {Nil}]
      /\ aborted \in [Ops -> Intents \cup {Nil}]
  BY DEF Init
<1>3. /\ manifest \in Manifests \cup {Nil} /\ manifestDisk \in Manifests \cup {Nil}
      /\ marker = Nil /\ receipts = {} /\ pc = "idle" /\ cmd = "recover"
      /\ todo = {} /\ op = 0 /\ cur = Nil /\ proj = Nil /\ purpose = "resolve"
      /\ nextOp = 1 /\ clock = 0 /\ committed = {}
      /\ crashes = 0 /\ losses = 0 /\ powerLosses = 0
  BY DEF Init
<1> QED
  BY <1>1, <1>2, <1>3 DEF TypeOK, Steps, Commands

\* Every manifest has a sources hash and a conversation set.
LEMMA ManifestHashes ==
    \A m \in Manifests : SourcesOf[m] \in Sources /\ ContentOf[m] \in Contents
BY ConstantsAssumption DEF ConstantsAssumption

\* The updates that the steps make to an intent keep it an intent.
LEMMA IntentUpdates ==
    ASSUME NEW i \in Intents
    PROVE  /\ i.before \in Manifests /\ i.after \in Manifests
           /\ i.res \in Resolutions \cup {Nil}
           /\ \A s \in Statuses : [i EXCEPT !.status = s] \in Intents
           /\ \A r \in Resolutions \cup {Nil} : [i EXCEPT !.res = r] \in Intents
           /\ \A s \in Statuses, r \in Resolutions \cup {Nil} :
                  /\ [i EXCEPT !.status = s, !.res = r] \in Intents
                  /\ [i EXCEPT !.status = s, !.receipt = r] \in Intents
           /\ \A s \in Statuses, p \in Projections :
                  [i EXCEPT !.status = s, !.proj = p] \in Intents
BY DEF Intents

\* Steps of one operation work on an intent that is there.
LEMMA WorkingTypes ==
    ASSUME TypeOK, WorkingCopy, Working
    PROVE  op \in Ops /\ cur \in Intents
BY DEF TypeOK, WorkingCopy

\* advance, Finish, AfterSettling and Reconcile keep the types they change.
LEMMA AdvanceType ==
    ASSUME TypeOK, NEW i \in Intents, Advance(i)
    PROVE  /\ cur' \in Intents \cup {Nil}
           /\ pending' \in [Ops -> Intents \cup {Nil}]
BY DEF TypeOK, Advance

LocalTypeOK ==
    /\ pc \in Steps /\ cmd \in Commands /\ todo \subseteq Ops
    /\ op \in Ops \cup {0} /\ cur \in Intents \cup {Nil}
    /\ proj \in Projections \cup {Nil}
    /\ purpose \in {"resolve", "replay", "command"}

LEMMA SettlingType ==
    ASSUME TypeOK, Finish \/ AfterSettling
    PROVE  LocalTypeOK'
BY DEF TypeOK, Finish, AfterSettling, Goto, LocalTypeOK, Steps, Commands

LEMMA ReconcileType ==
    ASSUME TypeOK, NEW m \in Manifests, Reconcile(m)
    PROVE  /\ sqlite' \in [src : Sources \cup {Nil}, at : Nat, rows : BOOLEAN]
           /\ sqlite'.src \in Sources
           /\ clock' \in Nat
<1>1. SourcesOf[m] \in Sources
  BY ManifestHashes
<1>2. CASE sqlite.src = SourcesOf[m] /\ sqlite.rows
  BY <1>1, <1>2 DEF TypeOK, Reconcile
<1>3. CASE ~(sqlite.src = SourcesOf[m] /\ sqlite.rows)
  <2>1. sqlite' = [src |-> SourcesOf[m], at |-> clock + 1, rows |-> TRUE]
        /\ clock' = clock + 1
    BY <1>3, Zenon DEF Reconcile
  <2> QED
    BY <1>1, <2>1 DEF TypeOK
<1> QED
  BY <1>2, <1>3


\* Every step keeps the types.
LEMMA NextType == TypeOK /\ ControlInv /\ [Next]_vars => TypeOK'
<1> SUFFICES ASSUME TypeOK, ControlInv, [Next]_vars PROVE TypeOK'
  OBVIOUS
<1> USE ManifestHashes DEF disk, local, bounds, Goto, ControlInv
<1>1. ASSUME NEW c \in Commands,
             Start(c)
      PROVE  TypeOK'
  BY <1>1
  DEF Start, Steps, Commands, TypeOK
<1>2. CASE RecoveryDone
  <2>1. pc' \in Steps
    BY <1>2 DEF RecoveryDone, TypeOK, Commands, Steps
  <2> QED
    BY <1>2, <2>1 DEF RecoveryDone, TypeOK
<1>3. CASE VisitWithoutManifest
  BY <1>3, SettlingType
  DEF VisitWithoutManifest, TypeOK, LocalTypeOK
<1>4. ASSUME NEW i \in Ops,
             VisitCompleted(i)
      PROVE  TypeOK'
  BY <1>4, SettlingType
  DEF VisitCompleted, TypeOK, LocalTypeOK
<1>5. ASSUME NEW i \in Ops,
             VisitPending(i)
      PROVE  TypeOK'
  BY <1>5, SettlingType
  DEF VisitPending, TypeOK, LocalTypeOK, PendingIsVisited, Visit, Steps
<1>6. CASE Abort
  BY <1>6, WorkingTypes
  DEF Abort, TypeOK, Working, Steps
<1>7. CASE Unlink
  BY <1>7, SettlingType
  DEF Unlink, TypeOK, LocalTypeOK
<1>8. CASE Resume
  <2>1. op \in Ops /\ cur \in Intents
    BY <1>8, WorkingTypes DEF Resume, Working, Forward
  <2>2. [cur EXCEPT !.status = "authority-committed"] \in Intents
    BY <2>1, IntentUpdates DEF Statuses
  <2>3. CASE manifest # cur.after
    BY <1>8, <2>3, SettlingType DEF Resume, TypeOK, LocalTypeOK
  <2>4. CASE manifest = cur.after
    <3>1. /\ cur' \in Intents \cup {Nil}
          /\ pending' \in [Ops -> Intents \cup {Nil}]
      BY <1>8, <2>1, <2>2, <2>4, AdvanceType DEF Resume, TypeOK
    <3> QED
      BY <1>8, <2>4, <3>1 DEF Resume, TypeOK, Steps
  <2> QED
    BY <1>8, <2>1, <2>3, <2>4
<1>9. CASE Mark
  <2>1. op \in Ops /\ cur \in Intents
    BY <1>9, WorkingTypes DEF Mark, Working, Forward
  <2>2. marker' \in Sources \cup {Nil}
    BY <1>9, <2>1, IntentUpdates DEF Mark, TypeOK
  <2> QED
    BY <1>9, <2>1, <2>2 DEF Mark, TypeOK, Steps
<1>10. CASE ReconcileProjection
  <2>1. op \in Ops /\ cur \in Intents
    BY <1>10, WorkingTypes DEF ReconcileProjection, Working, Forward
  <2>2. /\ sqlite' \in [src : Sources \cup {Nil}, at : Nat, rows : BOOLEAN]
        /\ sqlite'.src \in Sources
        /\ clock' \in Nat
    BY <1>10, <2>1, ReconcileType, IntentUpdates DEF ReconcileProjection
  <2>3. proj' \in Projections
    BY <1>10, <2>2 DEF ReconcileProjection, Projections
  <2> QED
    BY <1>10, <2>1, <2>2, <2>3 DEF ReconcileProjection, TypeOK, Steps
<1>11. CASE AdvanceReconciled
  <2>1. op \in Ops /\ cur \in Intents
    BY <1>11, WorkingTypes DEF AdvanceReconciled, Working, Forward
  <2>2. "authority-reconciled" \in Statuses
    BY DEF Statuses
  <2>3. proj \in Projections
    BY <1>11 DEF AdvanceReconciled, TypeOK, StepHasInput
  <2>4. [cur EXCEPT !.status = "authority-reconciled", !.proj = proj] \in Intents
    BY <2>1, <2>2, <2>3, IntentUpdates
  <2>5. /\ cur' \in Intents \cup {Nil}
        /\ pending' \in [Ops -> Intents \cup {Nil}]
    BY <1>11, <2>4, AdvanceType DEF AdvanceReconciled, TypeOK
  <2> QED
    BY <1>11, <2>1, <2>5 DEF AdvanceReconciled, TypeOK, Steps
<1>12. CASE ReuseResolution
  <2>1. op \in Ops /\ cur \in Intents
    BY <1>12, WorkingTypes DEF ReuseResolution, Working, Forward
  <2>2. "authority-reconciled" \in Statuses
    BY DEF Statuses
  <2>3. [cur EXCEPT !.status = "authority-reconciled", !.res = Nil] \in Intents
    BY <2>1, <2>2, IntentUpdates
  <2>4. SourcesOf[cur.after] \in Sources
    BY <2>1, IntentUpdates
  <2>5. CASE cur.res.status = "completed"
    <3>1. CASE Servable
      BY <1>12, <2>5, <3>1 DEF ReuseResolution, TypeOK, Steps
    <3>2. CASE ~Servable /\ cur.receipt # Nil
      <4>1. /\ pc' = "derive-projection" /\ purpose' = "replay"
            /\ UNCHANGED <<cur, pending, marker>>
        BY <1>12, <2>5, <3>2 DEF ReuseResolution
      <4> QED
        BY <1>12, <4>1 DEF ReuseResolution, TypeOK, Steps
    <3>3. CASE ~Servable /\ cur.receipt = Nil
      <4>1. /\ Advance([cur EXCEPT !.status = "authority-reconciled", !.res = Nil])
            /\ pc' = "resolve-fresh" /\ UNCHANGED <<marker, purpose>>
        BY <1>12, <2>5, <3>3 DEF ReuseResolution
      <4>2. /\ cur' \in Intents \cup {Nil}
            /\ pending' \in [Ops -> Intents \cup {Nil}]
        BY <2>3, <4>1, AdvanceType
      <4> QED
        BY <1>12, <4>1, <4>2 DEF ReuseResolution, TypeOK, Steps
    <3> QED
      BY <3>1, <3>2, <3>3
  <2>6. CASE cur.res.status # "completed"
    BY <1>12, <2>4, <2>6 DEF ReuseResolution, TypeOK, Steps
  <2> QED
    BY <1>12, <2>1, <2>5, <2>6
<1>13. CASE NoResolution
  BY <1>13
  DEF NoResolution, TypeOK, Steps
<1>14. CASE ResolveNotRequested
  <2>1. op \in Ops /\ cur \in Intents
    BY <1>14, WorkingTypes DEF ResolveNotRequested, Working, Forward
  <2>2. clock + 1 \in Nat
    BY DEF TypeOK
  <2>3. \A status \in {"completed", "failed", "not-requested"} :
            [status |-> status, at |-> clock + 1] \in Resolutions
    BY <2>2 DEF Resolutions
  <2>4. SourcesOf[cur.after] \in Sources
    BY <2>1, IntentUpdates
  <2>5. cur' \in Intents /\ clock' \in Nat /\ pc' \in Steps
    BY <1>14, <2>1, <2>2, <2>3, IntentUpdates DEF ResolveNotRequested, Resolved, Steps
  <2>6. marker' \in Sources \cup {Nil}
    BY <1>14, <2>4 DEF ResolveNotRequested, TypeOK
  <2> QED
    BY <1>14, <2>1, <2>5, <2>6 DEF ResolveNotRequested, TypeOK
<1>15. CASE ResolveRequested
  BY <1>15
  DEF ResolveRequested, TypeOK, Steps
<1>16. CASE DeriveProjection
  BY <1>16
  DEF DeriveProjection, TypeOK, Steps
<1>17. CASE DeriveManifest
  BY <1>17
  DEF DeriveManifest, TypeOK, Steps, StepHasInput
<1>18. CASE Refine
  BY <1>18
  DEF Refine, TypeOK, Steps, ProjectionMatches
<1>19. CASE ClearMarker
  <2>1. CASE purpose = "resolve"
    <3>1. op \in Ops /\ cur \in Intents
      BY <1>19, <2>1, WorkingTypes DEF ClearMarker, Working, Forward, DeriveSteps
    <3>2. Resolved("completed") /\ UNCHANGED <<cmd, todo, op, proj, purpose>>
      BY <1>19, <2>1 DEF ClearMarker
    <3>3. clock + 1 \in Nat
      BY DEF TypeOK
    <3>4. [status |-> "completed", at |-> clock + 1] \in Resolutions
      BY <3>3 DEF Resolutions
    <3>5. cur' \in Intents /\ clock' \in Nat /\ pc' \in Steps
      BY <3>1, <3>2, <3>3, <3>4, IntentUpdates DEF Resolved, Steps
    <3> QED
      BY <1>19, <3>2, <3>5 DEF ClearMarker, TypeOK
  <2>2. CASE purpose = "replay"
    BY <1>19, <2>2 DEF ClearMarker, TypeOK, Steps
  <2>3. CASE purpose = "command"
    BY <1>19, <2>3, SettlingType DEF ClearMarker, TypeOK, LocalTypeOK
  <2> QED
    BY <2>1, <2>2, <2>3 DEF TypeOK
<1>20. CASE DeriveWithoutManifest
  BY <1>20, SettlingType
  DEF DeriveWithoutManifest, TypeOK, LocalTypeOK
<1>21. CASE AdvanceResolved
  <2>1. op \in Ops /\ cur \in Intents
    BY <1>21, WorkingTypes DEF AdvanceResolved, Working, Forward
  <2>2. [cur EXCEPT !.status = "derived-resolved"] \in Intents
    BY <2>1, IntentUpdates DEF Statuses
  <2>3. /\ cur' \in Intents \cup {Nil}
        /\ pending' \in [Ops -> Intents \cup {Nil}]
    BY <1>21, <2>2, AdvanceType DEF AdvanceResolved
  <2> QED
    BY <1>21, <2>1, <2>3 DEF AdvanceResolved, TypeOK, Steps
<1>22. CASE WriteReceipt
  <2>1. op \in Ops /\ cur \in Intents
    BY <1>22, WorkingTypes DEF WriteReceipt, Working, Forward
  <2>2. [op |-> op, id |-> cur.res] \in [op : Ops, id : Resolutions]
    BY <1>22, <2>1, IntentUpdates DEF WriteReceipt, StepHasInput
  <2>3. receipts' \subseteq [op : Ops, id : Resolutions] /\ pc' \in Steps
    BY <1>22, <2>2 DEF WriteReceipt, TypeOK, Steps
  <2> QED
    BY <1>22, <2>1, <2>3 DEF WriteReceipt, TypeOK
<1>23. CASE AdvanceReceipt
  <2>1. op \in Ops /\ cur \in Intents
    BY <1>23, WorkingTypes DEF AdvanceReceipt, Working, Forward
  <2>2. "receipt-written" \in Statuses
    BY DEF Statuses
  <2>3. [cur EXCEPT !.status = "receipt-written", !.receipt = cur.res] \in Intents
    BY <2>1, <2>2, IntentUpdates
  <2>4. /\ cur' \in Intents \cup {Nil}
        /\ pending' \in [Ops -> Intents \cup {Nil}]
    BY <1>23, <2>3, AdvanceType DEF AdvanceReceipt, TypeOK
  <2> QED
    BY <1>23, <2>1, <2>4 DEF AdvanceReceipt, TypeOK, Steps
<1>24. CASE Complete
  <2>1. op \in Ops /\ cur \in Intents
    BY <1>24, WorkingTypes DEF Complete, Working, Forward
  <2>2. [cur EXCEPT !.status = "completed"] \in Intents
    BY <2>1, IntentUpdates DEF Statuses
  <2>3. completed' \in [Ops -> Intents \cup {Nil}]
    BY <1>24, <2>2 DEF Complete, TypeOK
  <2> QED
    BY <1>24, <2>1, <2>3 DEF Complete, TypeOK, Steps
<1>25. CASE Begin
  BY <1>25, ReconcileType, ConstantsAssumption
  DEF Begin, TypeOK, Steps, LoadedManifest, ConstantsAssumption
<1>26. ASSUME NEW after \in Manifests, NEW derive \in BOOLEAN, NEW import \in BOOLEAN,
             Create(after, derive, import)
      PROVE  TypeOK'
  <2>1. NewIntent(LoadedManifest, after, derive, import) \in Intents
    BY ConstantsAssumption
    DEF ConstantsAssumption, NewIntent, Intents, LoadedManifest, Statuses, TypeOK
  <2>2. nextOp \in Ops /\ nextOp + 1 \in 1..(MaxOps + 1)
    BY <1>26, ConstantsAssumption DEF ConstantsAssumption, Create, Ops, TypeOK
  <2> QED
    BY <1>26, <2>1, <2>2 DEF Create, TypeOK, Steps
<1>27. CASE Rename
  <2>1. op \in Ops /\ cur \in Intents
    BY <1>27, WorkingTypes DEF Rename, Working, Forward
  <2>2. cur.after \in Manifests
    BY <2>1, IntentUpdates
  <2> QED
    BY <1>27, <2>1, <2>2 DEF Rename, TypeOK, Steps
<1>28. CASE Sync
  BY <1>28
  DEF Sync, TypeOK, Steps
<1>29. CASE RefineCommand
  BY <1>29, SettlingType
  DEF RefineCommand, TypeOK, LocalTypeOK, ProjectionMatches
<1>30. CASE ReconcileCommand
  BY <1>30, ReconcileType, SettlingType
  DEF ReconcileCommand, TypeOK, LocalTypeOK
<1>31. CASE RenameFails
  <2>1. CASE manifest = Nil
    BY <1>31, <2>1, SettlingType DEF RenameFails, TypeOK, LocalTypeOK
  <2>2. CASE manifest # Nil
    <3>1. pc' \in {"abort", "sync"} /\ UNCHANGED <<cmd, todo, op, cur, proj, purpose>>
      BY <1>31, <2>2, Zenon DEF RenameFails
    <3> QED
      BY <1>31, <3>1 DEF RenameFails, TypeOK, Steps
  <2> QED
    BY <2>1, <2>2
<1>32. CASE DerivationFails
  <2>1. op \in Ops /\ cur \in Intents
    BY <1>32, WorkingTypes DEF DerivationFails, Working, Forward, DeriveSteps
  <2>2. clock + 1 \in Nat
    BY DEF TypeOK
  <2>3. \A status \in {"completed", "failed", "not-requested"} :
            [status |-> status, at |-> clock + 1] \in Resolutions
    BY <2>2 DEF Resolutions
  <2>4. SourcesOf[cur.after] \in Sources
    BY <2>1, IntentUpdates
  <2>5. cur' \in Intents /\ clock' \in Nat /\ pc' \in Steps
    BY <1>32, <2>1, <2>2, <2>3, IntentUpdates DEF DerivationFails, Resolved, Steps
  <2> QED
    BY <1>32, <2>1, <2>4, <2>5 DEF DerivationFails, TypeOK
<1>33. CASE Crash
  BY <1>33, SettlingType
  DEF Crash, TypeOK, LocalTypeOK
<1>34. CASE PowerLoss
  BY <1>34, SettlingType
  DEF PowerLoss, TypeOK, LocalTypeOK
<1>35. CASE LoseDerived
  BY <1>35
  DEF LoseDerived, TypeOK
<1>36. CASE LoseAnalysis
  BY <1>36
  DEF LoseAnalysis, TypeOK
<1>37. CASE UNCHANGED vars
  BY <1>37 DEF vars, TypeOK
<1> QED
  BY <1>1, <1>2, <1>3, <1>4, <1>5, <1>6, <1>7, <1>8, <1>9, <1>10, <1>11,
     <1>12, <1>13, <1>14, <1>15, <1>16, <1>17, <1>18, <1>19, <1>20, <1>21,
     <1>22, <1>23, <1>24, <1>25, <1>26, <1>27, <1>28, <1>29, <1>30, <1>31,
     <1>32, <1>33, <1>34, <1>35, <1>36, <1>37
  DEF Next, Step, RecoveryStep, ResumeStep, TransitionStep, Fault

\* The steps that carry an operation forward once its manifest is in place.
ForwardAction ==
    \/ Sync
    \/ Resume /\ manifest = cur.after
    \/ Mark \/ ReconcileProjection \/ AdvanceReconciled
    \/ ReuseResolution \/ NoResolution \/ ResolveNotRequested \/ ResolveRequested
    \/ (DeriveProjection \/ DeriveManifest \/ Refine \/ ClearMarker) /\ purpose # "command"
    \/ DerivationFails
    \/ AdvanceResolved \/ WriteReceipt \/ AdvanceReceipt

\* What they have in common: the intent is rewritten, on disk or in memory
\* only, and its transition and the other files stay as they are.
CarriesForward ==
    /\ Forward /\ Forward'
    /\ op \in Ops /\ cur' \in Intents /\ SameTransition(cur', cur)
    /\ pending' = pending \/ pending' = [pending EXCEPT ![op] = cur']
    /\ UNCHANGED <<manifest, completed, aborted, committed, op, todo, nextOp>>
    /\ StepHasInput'

\* The updates of an intent leave its transition alone.
LEMMA UpdatesKeepTransition ==
    ASSUME NEW i \in Intents
    PROVE  /\ \A s : SameTransition([i EXCEPT !.status = s], i)
           /\ \A r : SameTransition([i EXCEPT !.res = r], i)
           /\ \A s, r : SameTransition([i EXCEPT !.status = s, !.res = r], i)
BY DEF SameTransition, Intents

\* A resolution is recorded in memory, with a fresh timestamp.
LEMMA ResolvedStep ==
    ASSUME TypeOK, cur \in Intents,
           NEW s \in {"completed", "failed", "not-requested"}, Resolved(s)
    PROVE  /\ cur' \in Intents /\ SameTransition(cur', cur) /\ cur'.res # Nil
           /\ pc' = "advance-resolved"
<1>1. [status |-> s, at |-> clock + 1] \in Resolutions
  BY DEF TypeOK, Resolutions
<1>2. cur' = [cur EXCEPT !.res = [status |-> s, at |-> clock + 1]]
      /\ pc' = "advance-resolved"
  BY DEF Resolved, Goto
<1>3. cur' \in Intents
  BY <1>1, <1>2, IntentUpdates
<1>4. SameTransition(cur', cur)
  BY <1>2, UpdatesKeepTransition
<1>5. cur'.res # Nil
  BY <1>1, <1>2, NilAssumption DEF Intents
<1> QED
  BY <1>2, <1>3, <1>4, <1>5

\* Every forward action carries its operation forward.
LEMMA ForwardActions ==
    TypeOK /\ ControlInv /\ ForwardAction => CarriesForward
<1> SUFFICES ASSUME TypeOK, ControlInv, ForwardAction PROVE CarriesForward
  OBVIOUS
<1> USE DEF disk, local, bounds, Goto, ControlInv
<1>1. Forward /\ op \in Ops /\ cur \in Intents
  <2>1. Forward
    BY DEF ForwardAction, Forward, DeriveSteps, Sync, Resume, Mark,
           ReconcileProjection, AdvanceReconciled, ReuseResolution, NoResolution,
           ResolveNotRequested, ResolveRequested, DeriveProjection, DeriveManifest,
           Refine, ClearMarker, DerivationFails, AdvanceResolved, WriteReceipt,
           AdvanceReceipt
  <2> QED
    BY <2>1, WorkingTypes DEF Working
<1> USE <1>1
<1> DEFINE Kept == /\ Forward'
                   /\ cur' \in Intents /\ SameTransition(cur', cur)
                   /\ pending' = pending \/ pending' = [pending EXCEPT ![op] = cur']
                   /\ StepHasInput'
<1>2. CASE Sync \/ Mark \/ NoResolution \/ ResolveRequested \/ WriteReceipt
  <2>1. Kept
    BY <1>2 DEF Sync, Mark, NoResolution, ResolveRequested, WriteReceipt, Forward,
                StepHasInput, DeriveSteps, SameTransition
  <2> QED
    BY <1>2, <2>1 DEF CarriesForward, Sync, Mark, NoResolution, ResolveRequested,
                      WriteReceipt
<1>3. CASE (DeriveProjection \/ DeriveManifest \/ Refine) /\ purpose # "command"
  <2>1. Kept
    BY <1>3 DEF DeriveProjection, DeriveManifest, Refine, Forward, StepHasInput,
                DeriveSteps, SameTransition
  <2> QED
    BY <1>3, <2>1 DEF CarriesForward, DeriveProjection, DeriveManifest, Refine
<1>4. CASE Resume /\ manifest = cur.after
  <2> DEFINE next == [cur EXCEPT !.status = "authority-committed"]
  <2>1. next \in Intents /\ SameTransition(next, cur)
    BY IntentUpdates, UpdatesKeepTransition DEF Statuses
  <2>2. /\ Advance(next) \/ UNCHANGED <<cur, pending>>
        /\ pc' = "mark" /\ UNCHANGED <<cmd, todo, op, proj, purpose>>
    BY <1>4 DEF Resume
  <2>3. Kept
    BY <2>1, <2>2 DEF Advance, Forward, StepHasInput, DeriveSteps, SameTransition
  <2> QED
    BY <1>4, <2>2, <2>3 DEF CarriesForward, Resume
<1>5. CASE ReconcileProjection
  <2>1. proj' \in Projections
    BY <1>5, ReconcileType, IntentUpdates DEF ReconcileProjection, Projections
  <2>2. Kept
    BY <1>5, <2>1, NilAssumption
    DEF ReconcileProjection, Forward, StepHasInput, DeriveSteps, SameTransition
  <2> QED
    BY <1>5, <2>2 DEF CarriesForward, ReconcileProjection
<1>6. CASE AdvanceReconciled
  <2> DEFINE next == [cur EXCEPT !.status = "authority-reconciled", !.proj = proj]
  <2>1. next \in Intents
    <3>1. "authority-reconciled" \in Statuses /\ proj \in Projections
      BY <1>6, IntentUpdates DEF Statuses, TypeOK, StepHasInput, AdvanceReconciled
    <3> QED
      BY <3>1, IntentUpdates
  <2>2. SameTransition(next, cur) /\ next.res = cur.res
    BY DEF SameTransition, Intents
  <2>3. Advance(next) \/ UNCHANGED <<cur, pending>>
    BY <1>6 DEF AdvanceReconciled
  <2>4. Kept
    BY <1>6, <2>1, <2>2, <2>3
    DEF AdvanceReconciled, Advance, Forward, StepHasInput, DeriveSteps, SameTransition
  <2> QED
    BY <1>6, <2>4 DEF CarriesForward, AdvanceReconciled
<1>7. CASE AdvanceResolved
  <2> DEFINE next == [cur EXCEPT !.status = "derived-resolved"]
  <2>1. next \in Intents
    <3>1. "derived-resolved" \in Statuses
      BY <1>7, IntentUpdates DEF Statuses, TypeOK, StepHasInput, AdvanceResolved
    <3> QED
      BY <3>1, IntentUpdates
  <2>2. SameTransition(next, cur) /\ next.res = cur.res
    BY DEF SameTransition, Intents
  <2>3. Advance(next) \/ UNCHANGED <<cur, pending>>
    BY <1>7 DEF AdvanceResolved
  <2>4. Kept
    BY <1>7, <2>1, <2>2, <2>3
    DEF AdvanceResolved, Advance, Forward, StepHasInput, DeriveSteps, SameTransition
  <2> QED
    BY <1>7, <2>4 DEF CarriesForward, AdvanceResolved
<1>8. CASE AdvanceReceipt
  <2> DEFINE next == [cur EXCEPT !.status = "receipt-written", !.receipt = cur.res]
  <2>1. next \in Intents
    <3>1. "receipt-written" \in Statuses /\ cur.res \in Resolutions \cup {Nil}
      BY <1>8, IntentUpdates DEF Statuses, TypeOK, StepHasInput, AdvanceReceipt
    <3> QED
      BY <3>1, IntentUpdates
  <2>2. SameTransition(next, cur) /\ next.res = cur.res
    BY DEF SameTransition, Intents
  <2>3. Advance(next) \/ UNCHANGED <<cur, pending>>
    BY <1>8 DEF AdvanceReceipt
  <2>4. Kept
    BY <1>8, <2>1, <2>2, <2>3
    DEF AdvanceReceipt, Advance, Forward, StepHasInput, DeriveSteps, SameTransition
  <2> QED
    BY <1>8, <2>4 DEF CarriesForward, AdvanceReceipt
<1>9. CASE ResolveNotRequested
  <2>1. Kept
    BY <1>9, ResolvedStep
    DEF ResolveNotRequested, Forward, StepHasInput, DeriveSteps
  <2> QED
    BY <1>9, <2>1 DEF CarriesForward, ResolveNotRequested
<1>10. CASE DerivationFails
  <2>1. Kept
    BY <1>10, ResolvedStep DEF DerivationFails, Forward, StepHasInput, DeriveSteps
  <2> QED
    BY <1>10, <2>1 DEF CarriesForward, DerivationFails
<1>11. CASE ClearMarker /\ purpose # "command"
  <2>1. CASE purpose = "resolve"
    <3>1. Resolved("completed") /\ UNCHANGED <<cmd, todo, op, proj, purpose>>
      BY <1>11, <2>1 DEF ClearMarker
    <3>2. Kept
      BY <1>11, <3>1, ResolvedStep DEF ClearMarker, Forward, StepHasInput, DeriveSteps
    <3> QED
      BY <1>11, <3>1, <3>2 DEF CarriesForward, ClearMarker
  <2>2. CASE purpose = "replay"
    <3>1. pc' = "receipt" /\ UNCHANGED <<clock, cmd, todo, op, cur, proj, purpose>>
      BY <1>11, <2>2 DEF ClearMarker
    <3>2. Kept
      BY <1>11, <2>2, <3>1
      DEF ClearMarker, Forward, StepHasInput, DeriveSteps, SameTransition
    <3> QED
      BY <1>11, <3>1, <3>2 DEF CarriesForward, ClearMarker
  <2> QED
    BY <1>11, <2>1, <2>2 DEF TypeOK
<1>12. CASE ReuseResolution
  <2>1. CASE cur.res.status = "completed" /\ ~Servable /\ cur.receipt = Nil
    <3> DEFINE next == [cur EXCEPT !.status = "authority-reconciled", !.res = Nil]
    <3>1. next \in Intents /\ SameTransition(next, cur)
      BY IntentUpdates, UpdatesKeepTransition DEF Statuses
    <3>2. Advance(next) /\ pc' = "resolve-fresh"
      BY <1>12, <2>1 DEF ReuseResolution
    <3>3. Kept
      BY <3>1, <3>2 DEF Advance, Forward, StepHasInput, DeriveSteps
    <3> QED
      BY <1>12, <3>3 DEF CarriesForward, ReuseResolution
  <2>2. CASE ~(cur.res.status = "completed" /\ ~Servable /\ cur.receipt = Nil)
    <3>1. CASE cur.res.status = "completed" /\ Servable
      <4>1. cur' = cur /\ pending' = pending /\ pc' = "receipt"
        BY <1>12, <3>1 DEF ReuseResolution
      <4>2. Kept
        BY <1>12, <4>1
        DEF ReuseResolution, Forward, StepHasInput, DeriveSteps, SameTransition
      <4> QED
        BY <1>12, <4>2 DEF CarriesForward, ReuseResolution
    <3>2. CASE cur.res.status = "completed" /\ ~Servable /\ cur.receipt # Nil
      <4>1. /\ cur' = cur /\ pending' = pending
            /\ pc' = "derive-projection" /\ purpose' = "replay"
        BY <1>12, <3>2 DEF ReuseResolution
      <4>2. Kept
        BY <1>12, <4>1
        DEF ReuseResolution, Forward, StepHasInput, DeriveSteps, SameTransition
      <4> QED
        BY <1>12, <4>2 DEF CarriesForward, ReuseResolution
    <3>3. CASE cur.res.status # "completed"
      <4>1. cur' = cur /\ pending' = pending /\ pc' = "receipt"
        BY <1>12, <3>3 DEF ReuseResolution
      <4>2. Kept
        BY <1>12, <4>1
        DEF ReuseResolution, Forward, StepHasInput, DeriveSteps, SameTransition
      <4> QED
        BY <1>12, <4>2 DEF CarriesForward, ReuseResolution
    <3> QED
      BY <2>2, <3>1, <3>2, <3>3
  <2> QED
    BY <2>1, <2>2
<1> QED
  BY <1>2, <1>3, <1>4, <1>5, <1>6, <1>7, <1>8, <1>9, <1>10, <1>11, <1>12
  DEF ForwardAction

\* Carrying an operation forward keeps the control invariant.
LEMMA ForwardControl == TypeOK /\ ControlInv /\ CarriesForward => ControlInv'
<1> SUFFICES ASSUME TypeOK, ControlInv, CarriesForward PROVE ControlInv'
  OBVIOUS
<1> USE DEF ControlInv
<1>1. /\ Working /\ op < nextOp /\ todo \subseteq {op} /\ pending[op] # Nil
      /\ SameTransition(cur, pending[op])
  BY DEF CarriesForward, Working, WorkingCopy
<1>2. /\ \A i \in Ops : pending'[i] # Nil <=> pending[i] # Nil
      /\ SameTransition(cur', pending'[op])
  BY <1>1, NilAssumption DEF TypeOK, SameTransition, CarriesForward
<1>3. PendingIsVisited'
  BY <1>2 DEF PendingIsVisited, CarriesForward, Forward, DeriveSteps
<1>4. WorkingCopy'
  BY <1>1, <1>2, NilAssumption DEF WorkingCopy, CarriesForward
<1>5. NotYetCreated'
  BY <1>2 DEF NotYetCreated, CarriesForward
<1> QED
  BY <1>3, <1>4, <1>5 DEF CarriesForward

\* Ending the command, its files untouched, keeps the control invariant.
LEMMA FinishStep ==
    ASSUME TypeOK, ControlInv, Finish,
           UNCHANGED <<pending, completed, aborted, committed, nextOp>>
    PROVE  ControlInv'
BY DEF ControlInv, PendingIsVisited, WorkingCopy, NotYetCreated, StepHasInput,
       Finish, Working, Forward, DeriveSteps

\* Every step keeps the control invariant.
LEMMA NextControl == TypeOK /\ ControlInv /\ [Next]_vars => ControlInv'
<1> SUFFICES ASSUME TypeOK, ControlInv, [Next]_vars PROVE ControlInv'
  OBVIOUS
<1> USE DEF disk, local, bounds, Goto, ControlInv
<1>1. CASE ForwardAction
  BY <1>1, ForwardActions, ForwardControl
<1>2. CASE Resume /\ manifest # cur.after
  BY <1>2, FinishStep DEF Resume
<1>3. CASE (DeriveProjection \/ DeriveManifest \/ Refine) /\ purpose = "command"
  BY <1>3 DEF DeriveProjection, DeriveManifest, Refine, PendingIsVisited, WorkingCopy,
              StepHasInput, NotYetCreated, Working, Forward, DeriveSteps
<1>4. CASE ClearMarker /\ purpose = "command"
  BY <1>4, FinishStep DEF ClearMarker
<1>5. CASE DeriveWithoutManifest \/ VisitWithoutManifest \/ RefineCommand \/ ReconcileCommand
               \/ Crash
  BY <1>5, FinishStep
  DEF DeriveWithoutManifest, VisitWithoutManifest, RefineCommand, ReconcileCommand, Crash
<1>6. CASE PowerLoss
  BY <1>6 DEF PowerLoss, Finish, PendingIsVisited, WorkingCopy, StepHasInput,
              NotYetCreated, Working, Forward, DeriveSteps
<1>7. ASSUME NEW c \in Commands,
             Start(c)
      PROVE  ControlInv'
  <2>1. PendingIsVisited'
    BY <1>7
    DEF Start, PendingIsVisited, Finish, AfterSettling, Advance, TypeOK
  <2>2. WorkingCopy'
    BY <1>7
    DEF Start, WorkingCopy, Working, Forward, DeriveSteps, SameTransition, Finish, AfterSettling, Advance, TypeOK
  <2>3. StepHasInput'
    BY <1>7
    DEF Start, StepHasInput, DeriveSteps, Finish, AfterSettling, Advance, TypeOK
  <2>4. NotYetCreated'
    BY <1>7
    DEF Start, NotYetCreated, Finish, AfterSettling, Advance, TypeOK
  <2> QED
    BY <2>1, <2>2, <2>3, <2>4
<1>8. CASE RecoveryDone
  <2>1. /\ pc' \in {"begin", "derive-projection", "refine-command",
                      "reconcile-command", "idle"}
        /\ pc' = "derive-projection" => purpose' = "command"
    BY <1>8 DEF RecoveryDone, TypeOK, Commands
  <2>2. PendingIsVisited'
    BY <1>8, <2>1 DEF RecoveryDone, PendingIsVisited
  <2>3. WorkingCopy' /\ StepHasInput'
    BY <2>1 DEF WorkingCopy, StepHasInput, Working, Forward, DeriveSteps
  <2>4. NotYetCreated'
    BY <1>8 DEF RecoveryDone, NotYetCreated
  <2> QED
    BY <2>2, <2>3, <2>4
<1>9. ASSUME NEW i \in Ops,
             VisitCompleted(i)
      PROVE  ControlInv'
  <2>1. PendingIsVisited'
    BY <1>9
    DEF VisitCompleted, PendingIsVisited, Finish, AfterSettling, Advance, TypeOK
  <2>2. WorkingCopy'
    <3>1. pc' \in {"recover", "idle"}
      BY <1>9 DEF VisitCompleted, Visit, Finish
    <3> QED
      BY <3>1 DEF WorkingCopy, Working, Forward, DeriveSteps
  <2>3. StepHasInput'
    BY <1>9
    DEF VisitCompleted, StepHasInput, DeriveSteps, Finish, AfterSettling, Advance, TypeOK
  <2>4. NotYetCreated'
    BY <1>9
    DEF VisitCompleted, NotYetCreated, Finish, AfterSettling, Advance, TypeOK
  <2> QED
    BY <2>1, <2>2, <2>3, <2>4
<1>10. ASSUME NEW i \in Ops,
             VisitPending(i)
      PROVE  ControlInv'
  <2>1. PendingIsVisited'
    BY <1>10
    DEF VisitPending, PendingIsVisited, Finish, AfterSettling, Advance, TypeOK
  <2>2. WorkingCopy'
    <3>1. CASE op' = i /\ cur' = pending[i] /\ todo' = todo
      <4>1. pending[i] # Nil /\ todo \subseteq {i} /\ i < nextOp
        BY <1>10, <3>1 DEF VisitPending, Visit, PendingIsVisited, NotYetCreated, TypeOK, Ops
      <4> QED
        BY <1>10, <3>1, <4>1 DEF VisitPending, WorkingCopy, SameTransition
    <3>2. CASE pc' = "idle"
      BY <3>2 DEF WorkingCopy, Working, Forward, DeriveSteps
    <3> QED
      BY <1>10, <3>1, <3>2 DEF VisitPending, Finish
  <2>3. StepHasInput'
    BY <1>10
    DEF VisitPending, StepHasInput, DeriveSteps, Finish, AfterSettling, Advance, TypeOK
  <2>4. NotYetCreated'
    BY <1>10
    DEF VisitPending, NotYetCreated, Finish, AfterSettling, Advance, TypeOK
  <2> QED
    BY <2>1, <2>2, <2>3, <2>4
<1>11. CASE Abort
  <2>1. PendingIsVisited'
    BY <1>11
    DEF Abort, PendingIsVisited, Finish, AfterSettling, Advance, TypeOK
  <2>2. WorkingCopy'
    BY <1>11
    DEF Abort, WorkingCopy, Working, Forward, DeriveSteps, SameTransition, Finish, AfterSettling, Advance, TypeOK
  <2>3. StepHasInput'
    BY <1>11
    DEF Abort, StepHasInput, DeriveSteps, Finish, AfterSettling, Advance, TypeOK
  <2>4. NotYetCreated'
    <3>1. op \in Ops /\ op < nextOp
      BY <1>11 DEF Abort, WorkingCopy, Working, Forward
    <3> QED
      BY <1>11, <3>1 DEF Abort, NotYetCreated, TypeOK, Ops
  <2> QED
    BY <2>1, <2>2, <2>3, <2>4
<1>12. CASE Unlink
  <2>1. PendingIsVisited'
    <3>1. op \in Ops /\ todo \subseteq {op} /\ pending[op] # Nil
      BY <1>12 DEF Unlink, WorkingCopy, Working
    <3>2. \A i \in Ops : pending'[i] = Nil
      BY <1>12, <3>1 DEF Unlink, PendingIsVisited, TypeOK
    <3>3. todo' = {}
      BY <1>12, <3>1 DEF Unlink, AfterSettling, Finish
    <3> QED
      BY <3>2, <3>3 DEF PendingIsVisited
  <2>2. WorkingCopy'
    BY <1>12
    DEF Unlink, WorkingCopy, Working, Forward, DeriveSteps, SameTransition, Finish, AfterSettling, Advance, TypeOK
  <2>3. StepHasInput'
    BY <1>12
    DEF Unlink, StepHasInput, DeriveSteps, Finish, AfterSettling, Advance, TypeOK
  <2>4. NotYetCreated'
    BY <1>12
    DEF Unlink, NotYetCreated, Finish, AfterSettling, Advance, TypeOK
  <2> QED
    BY <2>1, <2>2, <2>3, <2>4
<1>13. CASE Complete
  <2>1. PendingIsVisited'
    BY <1>13
    DEF Complete, PendingIsVisited, Finish, AfterSettling, Advance, TypeOK
  <2>2. WorkingCopy'
    BY <1>13
    DEF Complete, WorkingCopy, Working, Forward, DeriveSteps, SameTransition, Finish, AfterSettling, Advance, TypeOK
  <2>3. StepHasInput'
    BY <1>13
    DEF Complete, StepHasInput, DeriveSteps, Finish, AfterSettling, Advance, TypeOK
  <2>4. NotYetCreated'
    <3>1. op \in Ops /\ op < nextOp
      BY <1>13 DEF Complete, WorkingCopy, Working, Forward
    <3> QED
      BY <1>13, <3>1 DEF Complete, NotYetCreated, TypeOK, Ops
  <2> QED
    BY <2>1, <2>2, <2>3, <2>4
<1>14. CASE Begin
  <2>1. PendingIsVisited'
    BY <1>14
    DEF Begin, PendingIsVisited, Finish, AfterSettling, Advance, TypeOK
  <2>2. WorkingCopy'
    BY <1>14
    DEF Begin, WorkingCopy, Working, Forward, DeriveSteps, SameTransition, Finish, AfterSettling, Advance, TypeOK
  <2>3. StepHasInput'
    BY <1>14
    DEF Begin, StepHasInput, DeriveSteps, Finish, AfterSettling, Advance, TypeOK
  <2>4. NotYetCreated'
    BY <1>14
    DEF Begin, NotYetCreated, Finish, AfterSettling, Advance, TypeOK
  <2> QED
    BY <2>1, <2>2, <2>3, <2>4
<1>15. ASSUME NEW after \in Manifests, NEW derive \in BOOLEAN, NEW import \in BOOLEAN,
             Create(after, derive, import)
      PROVE  ControlInv'
  <2>5. NewIntent(LoadedManifest, after, derive, import) # Nil
    <3>1. NewIntent(LoadedManifest, after, derive, import) \in Intents
      BY ConstantsAssumption
      DEF ConstantsAssumption, NewIntent, Intents, LoadedManifest, Statuses, TypeOK
    <3> QED
      BY <3>1, NilAssumption
  <2>6. nextOp \in Ops
    BY <1>15, ConstantsAssumption DEF ConstantsAssumption, Create, Ops, TypeOK
  <2>1. PendingIsVisited'
    BY <1>15
    DEF Create, PendingIsVisited, Finish, AfterSettling, Advance, TypeOK
  <2>2. WorkingCopy'
    <3>1. op' \in Ops /\ op' < nextOp' /\ todo' = {} /\ pending'[op'] = cur'
      BY <1>15, <2>6 DEF Create, PendingIsVisited, TypeOK, Ops
    <3> QED
      BY <1>15, <2>5, <3>1 DEF Create, WorkingCopy, SameTransition
  <2>3. StepHasInput'
    BY <1>15
    DEF Create, StepHasInput, DeriveSteps, Finish, AfterSettling, Advance, TypeOK
  <2>4. NotYetCreated'
    BY <1>15, <2>6 DEF Create, NotYetCreated, TypeOK, Ops
  <2> QED
    BY <2>1, <2>2, <2>3, <2>4
<1>16. CASE Rename
  <2>1. PendingIsVisited'
    BY <1>16
    DEF Rename, PendingIsVisited, Finish, AfterSettling, Advance, TypeOK
  <2>2. WorkingCopy'
    BY <1>16
    DEF Rename, WorkingCopy, Working, Forward, DeriveSteps, SameTransition, Finish, AfterSettling, Advance, TypeOK
  <2>3. StepHasInput'
    BY <1>16
    DEF Rename, StepHasInput, DeriveSteps, Finish, AfterSettling, Advance, TypeOK
  <2>4. NotYetCreated'
    <3>1. op \in Ops /\ op < nextOp
      BY <1>16 DEF Rename, WorkingCopy, Working, Forward
    <3> QED
      BY <1>16, <3>1 DEF Rename, NotYetCreated, TypeOK, Ops
  <2> QED
    BY <2>1, <2>2, <2>3, <2>4
<1>17. CASE RenameFails
  <2>1. PendingIsVisited'
    BY <1>17
    DEF RenameFails, PendingIsVisited, Finish, AfterSettling, Advance, TypeOK
  <2>2. WorkingCopy'
    BY <1>17
    DEF RenameFails, WorkingCopy, Working, Forward, DeriveSteps, SameTransition, Finish, AfterSettling, Advance, TypeOK
  <2>3. StepHasInput'
    BY <1>17
    DEF RenameFails, StepHasInput, DeriveSteps, Finish, AfterSettling, Advance, TypeOK
  <2>4. NotYetCreated'
    BY <1>17
    DEF RenameFails, NotYetCreated, Finish, AfterSettling, Advance, TypeOK
  <2> QED
    BY <2>1, <2>2, <2>3, <2>4
<1>18. CASE LoseDerived
  <2>1. PendingIsVisited'
    BY <1>18
    DEF LoseDerived, PendingIsVisited, Finish, AfterSettling, Advance, TypeOK
  <2>2. WorkingCopy'
    BY <1>18
    DEF LoseDerived, WorkingCopy, Working, Forward, DeriveSteps, SameTransition, Finish, AfterSettling, Advance, TypeOK
  <2>3. StepHasInput'
    BY <1>18
    DEF LoseDerived, StepHasInput, DeriveSteps, Finish, AfterSettling, Advance, TypeOK
  <2>4. NotYetCreated'
    BY <1>18
    DEF LoseDerived, NotYetCreated, Finish, AfterSettling, Advance, TypeOK
  <2> QED
    BY <2>1, <2>2, <2>3, <2>4
<1>19. CASE LoseAnalysis
  <2>1. PendingIsVisited'
    BY <1>19
    DEF LoseAnalysis, PendingIsVisited, Finish, AfterSettling, Advance, TypeOK
  <2>2. WorkingCopy'
    BY <1>19
    DEF LoseAnalysis, WorkingCopy, Working, Forward, DeriveSteps, SameTransition, Finish, AfterSettling, Advance, TypeOK
  <2>3. StepHasInput'
    BY <1>19
    DEF LoseAnalysis, StepHasInput, DeriveSteps, Finish, AfterSettling, Advance, TypeOK
  <2>4. NotYetCreated'
    BY <1>19
    DEF LoseAnalysis, NotYetCreated, Finish, AfterSettling, Advance, TypeOK
  <2> QED
    BY <2>1, <2>2, <2>3, <2>4
<1>20. CASE UNCHANGED vars
  BY <1>20 DEF vars, PendingIsVisited, WorkingCopy, StepHasInput, NotYetCreated,
    Working, Forward, DeriveSteps, SameTransition
<1> QED
  BY <1>1, <1>2, <1>3, <1>4, <1>5, <1>6, <1>7, <1>8, <1>9, <1>10, <1>11, <1>12, <1>13, <1>14, <1>15, <1>16, <1>17, <1>18, <1>19, <1>20
  DEF Next, Step, RecoveryStep, ResumeStep, TransitionStep, Fault, ForwardAction

\* Carrying an operation forward leaves what the files and the manifest say.
LEMMA ForwardLedger ==
    TypeOK /\ LedgerInv /\ CarriesForward => StepMatchesOperation' /\ FilesMatchManifest'
<1> SUFFICES ASSUME TypeOK, LedgerInv, CarriesForward
             PROVE  StepMatchesOperation' /\ FilesMatchManifest'
  OBVIOUS
<1> USE DEF LedgerInv, ControlInv
<1>1. op \in Ops /\ pending[op] # Nil /\ SameTransition(cur, pending[op])
  BY DEF CarriesForward, Working, WorkingCopy
<1>2. pc' \notin {"abort", "rename", "unlink"}
  BY DEF CarriesForward, Forward, DeriveSteps
<1>3. StepMatchesOperation'
  BY <1>2 DEF StepMatchesOperation, CarriesForward, TookEffect, SameTransition,
              ChangesAuthority
<1>4. \A i \in Ops : /\ pending'[i] # Nil <=> pending[i] # Nil
                     /\ pending[i] # Nil => SameTransition(pending'[i], pending[i])
  BY <1>1, NilAssumption DEF TypeOK, SameTransition, CarriesForward
<1>5. FilesMatchManifest'
  BY <1>4 DEF FilesMatchManifest, CarriesForward, SameTransition, LoadedManifest,
              ChangesAuthority
<1> QED
  BY <1>3, <1>5

\* Steps that change no operation file and no manifest only have to be at the
\* right place.
LEMMA FilesUntouched ==
    ASSUME FilesMatchManifest,
           UNCHANGED <<manifest, pending, completed, aborted, committed>>
    PROVE  FilesMatchManifest'
BY DEF FilesMatchManifest, LoadedManifest, ChangesAuthority, SameTransition

\* Away from the steps on an operation, nothing is asked of the step.
LEMMA AwayFromOperation ==
    ASSUME ~Working' PROVE StepMatchesOperation'
BY DEF StepMatchesOperation, Working

\* The proofs cover commands that die and power that fails, but not both: a
\* command that dies before its fsync leaves a rename that a later power
\* failure takes back after the operation was settled.
PowerSafe == MaxPowerLosses = 0 \/ MaxCrashes = 0

\* What the disk holds while no command has died: the manifest that commands
\* see or, between a rename and its fsync, the one before the transition.
DiskIsBehind ==
    IF pc = "sync"
    THEN /\ cur.before = IF manifestDisk = Nil THEN Empty ELSE manifestDisk
         /\ manifestDisk = Nil => committed \subseteq {op}
    ELSE /\ manifestDisk = manifest
         /\ manifest = Nil => committed = {}
PowerInv ==
    /\ crashes <= MaxCrashes
    /\ crashes = 0 => DiskIsBehind

\* Every step keeps the disk at most one transition behind.
LEMMA NextPower == TypeOK /\ LedgerInv /\ PowerInv /\ [Next]_vars => PowerInv'
<1> SUFFICES ASSUME TypeOK, LedgerInv, PowerInv, [Next]_vars PROVE PowerInv'
  OBVIOUS
<1> USE ConstantsAssumption DEF disk, local, bounds, Goto, LedgerInv, ControlInv,
        ConstantsAssumption
<1>1. CASE Rename
  <2>1. /\ pc = "rename" /\ pc' = "sync" /\ manifest' = cur.after
        /\ committed' = committed \cup {op}
        /\ UNCHANGED <<manifestDisk, cur, op, crashes>>
    BY <1>1 DEF Rename
  <2>2. LoadedManifest = cur.before
    BY <2>1 DEF StepMatchesOperation
  <2> QED
    BY <2>1, <2>2 DEF PowerInv, DiskIsBehind, LoadedManifest
<1>2. CASE Sync
  <2>1. cur \in Intents
    BY <1>2, WorkingTypes DEF Sync, Working, Forward
  <2>2. manifest # Nil
    BY <1>2, <2>1, IntentUpdates DEF Sync, StepMatchesOperation, Forward, TookEffect
  <2> QED
    BY <1>2, <2>2 DEF Sync, PowerInv, DiskIsBehind
<1>3. CASE RenameFails
  <2>1. /\ pc = "rename" /\ UNCHANGED <<manifest, manifestDisk, committed, crashes>>
        /\ \/ pc' # "sync"
           \/ pc' = "sync" /\ manifest # Nil /\ cur' = cur
    BY <1>3, Zenon DEF RenameFails, Finish
  <2>2. LoadedManifest = cur.before
    BY <2>1 DEF StepMatchesOperation
  <2> QED
    BY <2>1, <2>2 DEF PowerInv, DiskIsBehind, LoadedManifest
<1>4. CASE Crash
  BY <1>4 DEF Crash, PowerInv, TypeOK
<1>5. CASE PowerLoss
  <2>1. /\ manifest' = manifestDisk /\ manifestDisk' = manifestDisk
        /\ pc' = "idle" /\ crashes' = crashes
        /\ committed' = {i \in committed : pending[i] # Nil => pending[i].after = manifestDisk}
    BY <1>5 DEF PowerLoss, Finish
  <2>2. ASSUME crashes = 0, manifestDisk = Nil PROVE committed' = {}
    <3>1. CASE pc = "sync"
      <4>1. op \in Ops /\ pending[op] # Nil /\ pending[op] \in Intents
        BY <3>1 DEF WorkingCopy, Working, Forward, TypeOK
      <4>2. pending[op].after # Nil
        BY <4>1, IntentUpdates
      <4> QED
        BY <2>1, <2>2, <3>1, <4>1, <4>2 DEF PowerInv, DiskIsBehind
    <3>2. CASE pc # "sync"
      BY <2>1, <2>2, <3>2 DEF PowerInv, DiskIsBehind
    <3> QED
      BY <3>1, <3>2
  <2> QED
    BY <2>1, <2>2 DEF PowerInv, DiskIsBehind
<1>6. CASE \/ Resume \/ Mark \/ ReconcileProjection \/ AdvanceReconciled
           \/ ReuseResolution \/ NoResolution \/ ResolveNotRequested \/ ResolveRequested
           \/ DeriveProjection \/ DeriveManifest \/ Refine \/ ClearMarker
           \/ DeriveWithoutManifest \/ DerivationFails \/ AdvanceResolved
           \/ WriteReceipt \/ AdvanceReceipt \/ Complete
           \/ RecoveryDone \/ VisitWithoutManifest \/ Abort \/ Unlink \/ Begin
           \/ RefineCommand \/ ReconcileCommand \/ LoseDerived \/ LoseAnalysis
  <2>1. pc # "sync" /\ UNCHANGED <<manifest, manifestDisk, committed, crashes>>
    BY <1>6 DEF Resume, Mark, ReconcileProjection, AdvanceReconciled, ReuseResolution,
       NoResolution, ResolveNotRequested, ResolveRequested, DeriveProjection,
       DeriveManifest, Refine, ClearMarker, DeriveWithoutManifest, DerivationFails,
       AdvanceResolved, WriteReceipt, AdvanceReceipt, Complete, RecoveryDone,
       VisitWithoutManifest, Visit, Abort, Unlink, Begin, RefineCommand,
       ReconcileCommand, LoseDerived, LoseAnalysis
  <2>2. pc' # "sync"
    <3>1. CASE RecoveryDone
      BY <3>1 DEF RecoveryDone, TypeOK, Commands
    <3>2. CASE ClearMarker
      BY <3>2 DEF ClearMarker, Resolved, Finish, TypeOK
    <3> QED
      BY <1>6, <3>1, <3>2 DEF Resume, Mark, ReconcileProjection, AdvanceReconciled,
         ReuseResolution, NoResolution, ResolveNotRequested, ResolveRequested,
         DeriveProjection, DeriveManifest, Refine, DeriveWithoutManifest,
         DerivationFails, AdvanceResolved, WriteReceipt, AdvanceReceipt, Complete,
         VisitWithoutManifest, Abort, Unlink, Begin, RefineCommand, ReconcileCommand,
         LoseDerived, LoseAnalysis, Resolved, AfterSettling, Finish
  <2> QED
    BY <2>1, <2>2 DEF PowerInv, DiskIsBehind
<1>7. CASE \/ (\E c \in Commands : Start(c))
           \/ (\E i \in Ops : VisitCompleted(i) \/ VisitPending(i))
           \/ (\E after \in Manifests, derive, import \in BOOLEAN :
                   Create(after, derive, import))
  <2>1. /\ pc # "sync" /\ pc' # "sync"
        /\ UNCHANGED <<manifest, manifestDisk, committed, crashes>>
    BY <1>7 DEF Start, VisitCompleted, VisitPending, Visit, Create, Finish
  <2> QED
    BY <2>1 DEF PowerInv, DiskIsBehind
<1>8. CASE UNCHANGED vars
  BY <1>8 DEF vars, PowerInv, DiskIsBehind
<1> QED
  BY <1>1, <1>2, <1>3, <1>4, <1>5, <1>6, <1>7, <1>8
  DEF Next, Step, RecoveryStep, ResumeStep, TransitionStep, Fault

\* A power failure that takes back a rename takes back only that: away from
\* the rename it changes nothing, and there no other operation is pending.
LEMMA PowerLossTakesBack ==
    ASSUME PowerSafe, TypeOK, LedgerInv, PowerInv, PowerLoss
    PROVE  \/ pc # "sync" /\ manifestDisk = manifest /\ UNCHANGED <<manifest, committed>>
           \/ /\ pc = "sync" /\ crashes = 0 /\ op \in Ops /\ cur \in Intents
              /\ pending[op] # Nil /\ SameTransition(cur, pending[op])
              /\ LoadedManifest' = cur.before
              /\ \A i \in Ops : i # op => pending[i] = Nil /\ (i \in committed' <=> i \in committed)
              /\ op \in committed' => op \in committed /\ pending[op].after = manifestDisk
<1> USE ConstantsAssumption DEF disk, local, bounds, LedgerInv, ControlInv,
        ConstantsAssumption
<1>0. crashes = 0
  BY DEF PowerLoss, PowerSafe, PowerInv, TypeOK
<1>1. DiskIsBehind
  BY <1>0 DEF PowerInv
<1>2. /\ manifest' = manifestDisk
      /\ committed' = {i \in committed : pending[i] # Nil => pending[i].after = manifestDisk}
  BY DEF PowerLoss
<1>3. CASE pc = "sync"
  <2>1. /\ op \in Ops /\ cur \in Intents
        /\ pending[op] # Nil /\ SameTransition(cur, pending[op])
    BY <1>3, WorkingTypes DEF WorkingCopy, Working, Forward
  <2>2. \A i \in Ops : i # op => pending[i] = Nil
    BY <2>1 DEF PendingIsVisited
  <2>3. LoadedManifest' = cur.before
    BY <1>1, <1>2, <1>3 DEF DiskIsBehind, LoadedManifest
  <2> QED
    BY <1>0, <1>2, <1>3, <2>1, <2>2, <2>3
<1>4. CASE pc # "sync"
  <2>1. manifestDisk = manifest /\ (manifest = Nil => committed = {})
    BY <1>1, <1>4 DEF DiskIsBehind
  <2>2. \A i \in committed : pending[i] # Nil => pending[i].after = manifest
    <3>1. ASSUME NEW i \in committed, pending[i] # Nil PROVE pending[i].after = manifest
      <4>1. i \in Ops /\ LoadedManifest = pending[i].after
        BY <3>1 DEF TypeOK, FilesMatchManifest
      <4> QED
        BY <2>1, <4>1 DEF LoadedManifest
    <3> QED
      BY <3>1
  <2> QED
    BY <1>2, <1>4, <2>1, <2>2
<1> QED
  BY <1>3, <1>4

\* Every step keeps what the files and the manifest say of the operations: one
\* that dies, and a power failure that takes back a rename, included.
LEMMA NextLedger ==
    ASSUME PowerSafe
    PROVE  TypeOK /\ LedgerInv /\ PowerInv /\ [Next]_vars
               => StepMatchesOperation' /\ FilesMatchManifest'
<1> SUFFICES ASSUME TypeOK, LedgerInv, PowerInv, [Next]_vars
             PROVE  StepMatchesOperation' /\ FilesMatchManifest'
  OBVIOUS
<1> USE DEF disk, local, bounds, Goto, LedgerInv, ControlInv
<1>1. CASE ForwardAction
  BY <1>1, ForwardActions, ForwardLedger
<1>2. CASE \/ Resume /\ manifest # cur.after
           \/ ClearMarker /\ purpose = "command"
           \/ DeriveWithoutManifest \/ VisitWithoutManifest
           \/ RefineCommand \/ ReconcileCommand \/ Crash
  <2>1. Finish /\ UNCHANGED <<manifest, pending, completed, aborted, committed>>
    BY <1>2 DEF Resume, ClearMarker, DeriveWithoutManifest, VisitWithoutManifest,
                RefineCommand, ReconcileCommand, Crash
  <2>2. ~Working'
    BY <2>1 DEF Finish, Working, Forward, DeriveSteps
  <2> QED
    BY <2>1, <2>2, FilesUntouched, AwayFromOperation
<1>3. CASE \/ (DeriveProjection \/ DeriveManifest \/ Refine) /\ purpose = "command"
           \/ (\E c \in Commands : Start(c))
           \/ RecoveryDone \/ Begin \/ LoseDerived \/ LoseAnalysis
  <2>1. UNCHANGED <<manifest, pending, completed, aborted, committed>>
    BY <1>3 DEF DeriveProjection, DeriveManifest, Refine, Start, RecoveryDone, Begin,
                LoseDerived, LoseAnalysis
  <2>2. ~Working'
    <3>1. CASE RecoveryDone
      <4>1. /\ pc' \in {"begin", "derive-projection", "refine-command",
                        "reconcile-command", "idle"}
            /\ pc' = "derive-projection" => purpose' = "command"
        BY <3>1 DEF RecoveryDone, TypeOK, Commands
      <4> QED
        BY <4>1 DEF Working, Forward, DeriveSteps
    <3> QED
      BY <1>3, <3>1 DEF DeriveProjection, DeriveManifest, Refine, Start, Begin,
                        LoseDerived, LoseAnalysis, Working, Forward, DeriveSteps
  <2> QED
    BY <2>1, <2>2, FilesUntouched, AwayFromOperation
<1>4. ASSUME NEW i \in Ops, VisitCompleted(i)
      PROVE  StepMatchesOperation' /\ FilesMatchManifest'
  <2>1. ~Working'
    BY <1>4 DEF VisitCompleted, Visit, Finish, Working, Forward, DeriveSteps
  <2>2. FilesMatchManifest'
    BY <1>4 DEF VisitCompleted, FilesMatchManifest, LoadedManifest, TypeOK
  <2> QED
    BY <2>1, <2>2, AwayFromOperation
<1>5. ASSUME NEW i \in Ops, VisitPending(i)
      PROVE  StepMatchesOperation' /\ FilesMatchManifest'
  <2>1. FilesMatchManifest'
    BY <1>5, FilesUntouched DEF VisitPending
  <2>2. CASE Finish
    BY <2>1, <2>2, AwayFromOperation DEF Finish, Working, Forward, DeriveSteps
  <2>3. CASE ~Finish
    <3>1. /\ manifest # Nil /\ completed[i] = Nil /\ pending[i] # Nil
          /\ UNCHANGED <<manifest, pending, completed, aborted, committed>>
      BY <1>5 DEF VisitPending, Visit, PendingIsVisited
    <3>2. CASE manifest = pending[i].before /\ ChangesAuthority(pending[i])
      <4>1. op' = i /\ cur' = pending[i] /\ pc' = "abort"
        BY <1>5, <3>2 DEF VisitPending
      <4>2. StepMatchesOperation'
        BY <3>1, <3>2, <4>1
        DEF StepMatchesOperation, Forward, DeriveSteps, ChangesAuthority
      <4> QED
        BY <2>1, <4>2
    <3>3. CASE ~(manifest = pending[i].before /\ ChangesAuthority(pending[i]))
      <4>1. manifest = pending[i].after /\ op' = i /\ cur' = pending[i] /\ pc' = "resume"
        BY <1>5, <2>3, <3>3 DEF VisitPending
      <4>2. aborted[i] = Nil /\ TookEffect(i, pending[i])
        BY <3>1, <3>3, <4>1
        DEF FilesMatchManifest, LoadedManifest, TookEffect, ChangesAuthority
      <4>3. StepMatchesOperation'
        BY <3>1, <4>1, <4>2
        DEF StepMatchesOperation, Forward, DeriveSteps, TookEffect, ChangesAuthority
      <4> QED
        BY <2>1, <4>3
    <3> QED
      BY <3>2, <3>3
  <2> QED
    BY <2>2, <2>3
<1>6. CASE Abort
  <2>1. /\ op \in Ops /\ pending[op] # Nil /\ cur # Nil /\ SameTransition(cur, pending[op])
        /\ manifest = cur.before /\ ChangesAuthority(cur) /\ completed[op] = Nil
        /\ cur \in Intents
    BY <1>6, WorkingTypes DEF Abort, WorkingCopy, Working, StepMatchesOperation
  <2>2. LoadedManifest = manifest /\ op \notin committed
    BY <2>1, IntentUpdates, ConstantsAssumption
    DEF FilesMatchManifest, SameTransition, ChangesAuthority, LoadedManifest,
        ConstantsAssumption
  <2>3. FilesMatchManifest'
    BY <1>6, <2>1, <2>2
    DEF Abort, FilesMatchManifest, SameTransition, ChangesAuthority, LoadedManifest, TypeOK
  <2>4. StepMatchesOperation'
    BY <1>6, <2>1 DEF Abort, StepMatchesOperation, Forward, DeriveSteps, TypeOK
  <2> QED
    BY <2>3, <2>4
<1>7. CASE Unlink
  <2>1. /\ op \in Ops /\ pending' = [pending EXCEPT ![op] = Nil]
        /\ completed[op] # Nil \/ aborted[op] # Nil
    BY <1>7 DEF Unlink, WorkingCopy, Working, StepMatchesOperation
  <2>2. ~Working'
    BY <1>7 DEF Unlink, AfterSettling, Finish, Working, Forward, DeriveSteps
  <2>3. FilesMatchManifest'
    BY <1>7, <2>1 DEF Unlink, FilesMatchManifest, LoadedManifest, TypeOK
  <2> QED
    BY <2>2, <2>3, AwayFromOperation
<1>8. CASE Complete
  <2>1. /\ op \in Ops /\ cur \in Intents /\ pending[op] # Nil
        /\ SameTransition(cur, pending[op])
        /\ TookEffect(op, cur) /\ completed[op] = Nil /\ aborted[op] = Nil
    BY <1>8, WorkingTypes
    DEF Complete, WorkingCopy, Working, Forward, StepMatchesOperation
  <2>2. /\ [cur EXCEPT !.status = "completed"].before = cur.before
        /\ [cur EXCEPT !.status = "completed"].after = cur.after
        /\ [cur EXCEPT !.status = "completed"] # Nil
    <3>1. [cur EXCEPT !.status = "completed"] \in Intents
      BY <2>1, IntentUpdates DEF Statuses
    <3> QED
      BY <2>1, <3>1, NilAssumption DEF Intents
  <2>3. manifest = cur.after /\ LoadedManifest = cur.after
    BY <2>1, IntentUpdates, ConstantsAssumption
    DEF TookEffect, LoadedManifest, ConstantsAssumption
  <2>4. FilesMatchManifest'
    BY <1>8, <2>1, <2>2, <2>3
    DEF Complete, FilesMatchManifest, SameTransition, ChangesAuthority, LoadedManifest,
        TookEffect, TypeOK
  <2>5. StepMatchesOperation'
    BY <1>8, <2>1, <2>2 DEF Complete, StepMatchesOperation, Forward, DeriveSteps, TypeOK
  <2> QED
    BY <2>4, <2>5
<1>9. ASSUME NEW after \in Manifests, NEW derive \in BOOLEAN, NEW import \in BOOLEAN,
             Create(after, derive, import)
      PROVE  StepMatchesOperation' /\ FilesMatchManifest'
  <2> DEFINE intent == NewIntent(LoadedManifest, after, derive, import)
  <2>1. /\ nextOp \in Ops /\ pc' = "rename" /\ op' = nextOp /\ cur' = intent
        /\ pending' = [pending EXCEPT ![nextOp] = intent]
        /\ UNCHANGED <<manifest, completed, aborted, committed>>
    BY <1>9 DEF Create, Ops, TypeOK
  <2>2. intent.before = LoadedManifest
    BY DEF NewIntent
  <2>3. /\ \A i \in Ops : pending[i] = Nil
        /\ completed[nextOp] = Nil /\ aborted[nextOp] = Nil /\ nextOp \notin committed
    BY <1>9, <2>1 DEF Create, PendingIsVisited, NotYetCreated, Ops
  <2>4. StepMatchesOperation'
    BY <2>1, <2>2, <2>3 DEF StepMatchesOperation, Forward, DeriveSteps, LoadedManifest
  <2>5. FilesMatchManifest'
    BY <2>1, <2>2, <2>3 DEF FilesMatchManifest, LoadedManifest, TypeOK
  <2> QED
    BY <2>4, <2>5
<1>10. CASE Rename
  <2>1. /\ op \in Ops /\ cur \in Intents /\ pending[op] # Nil
        /\ SameTransition(cur, pending[op])
        /\ completed[op] = Nil /\ aborted[op] = Nil
    BY <1>10, WorkingTypes DEF Rename, WorkingCopy, Working, StepMatchesOperation
  <2>2. manifest' = cur.after /\ LoadedManifest' = cur.after
    BY <1>10, <2>1, IntentUpdates, ConstantsAssumption
    DEF Rename, LoadedManifest, ConstantsAssumption
  <2>3. \A i \in Ops : pending[i] # Nil => i = op
    BY <2>1 DEF PendingIsVisited
  <2>4. StepMatchesOperation'
    BY <1>10, <2>1, <2>2
    DEF Rename, StepMatchesOperation, Forward, DeriveSteps, TookEffect
  <2>5. FilesMatchManifest'
    BY <1>10, <2>1, <2>2, <2>3 DEF Rename, FilesMatchManifest, SameTransition
  <2> QED
    BY <2>4, <2>5
<1>11. CASE RenameFails
  <2>1. FilesMatchManifest'
    BY <1>11, FilesUntouched DEF RenameFails
  <2>2. LoadedManifest = cur.before /\ completed[op] = Nil /\ aborted[op] = Nil
    BY <1>11 DEF RenameFails, StepMatchesOperation
  <2>3. CASE manifest = Nil
    BY <1>11, <2>1, <2>3, AwayFromOperation
    DEF RenameFails, Finish, Working, Forward, DeriveSteps
  <2>4. CASE manifest # Nil /\ ChangesAuthority(cur)
    <3>1. pc' = "abort" /\ UNCHANGED <<cmd, todo, op, cur, proj, purpose>>
      BY <1>11, <2>4 DEF RenameFails
    <3> QED
      BY <1>11, <2>1, <2>2, <2>4, <3>1
      DEF RenameFails, StepMatchesOperation, Forward, DeriveSteps, LoadedManifest,
          ChangesAuthority
  <2>5. CASE manifest # Nil /\ ~ChangesAuthority(cur)
    <3>1. pc' = "sync" /\ UNCHANGED <<cmd, todo, op, cur, proj, purpose>>
      BY <1>11, <2>5 DEF RenameFails
    <3> QED
      BY <1>11, <2>1, <2>2, <2>5, <3>1
      DEF RenameFails, StepMatchesOperation, Forward, DeriveSteps, LoadedManifest,
          ChangesAuthority, TookEffect
  <2> QED
    BY <2>3, <2>4, <2>5
<1>12. CASE PowerLoss
  <2>1. /\ UNCHANGED <<pending, completed, aborted>> /\ ~Working'
    BY <1>12 DEF PowerLoss, Finish, Working, Forward, DeriveSteps
  <2>2. CASE UNCHANGED <<manifest, committed>>
    BY <2>1, <2>2, FilesUntouched, AwayFromOperation
  <2>3. CASE ~UNCHANGED <<manifest, committed>>
    <3>1. /\ pc = "sync" /\ op \in Ops /\ pending[op] # Nil
          /\ SameTransition(cur, pending[op]) /\ LoadedManifest' = cur.before
          /\ \A i \in Ops : i # op => /\ pending[i] = Nil
                                      /\ i \in committed' <=> i \in committed
          /\ op \in committed' => /\ op \in committed
                                  /\ pending[op].after = manifestDisk
      BY <1>12, <2>3, PowerLossTakesBack
    <3>2. completed[op] = Nil /\ aborted[op] = Nil
      BY <3>1 DEF StepMatchesOperation, Forward
    <3>3. op \in committed' => LoadedManifest' = pending[op].after
      <4>1. pending[op] \in Intents
        BY <3>1 DEF TypeOK
      <4>2. pending[op].after # Nil
        BY <4>1, IntentUpdates, ConstantsAssumption DEF ConstantsAssumption
      <4> QED
        BY <1>12, <3>1, <4>2 DEF PowerLoss, LoadedManifest
    <3>4. FilesMatchManifest'
      BY <2>1, <3>1, <3>2, <3>3 DEF FilesMatchManifest, SameTransition
    <3> QED
      BY <2>1, <3>4, AwayFromOperation
  <2> QED
    BY <2>2, <2>3
<1>13. CASE UNCHANGED vars
  BY <1>13, FilesUntouched
  DEF vars, StepMatchesOperation, Forward, DeriveSteps, TookEffect, LoadedManifest,
      ChangesAuthority
<1> QED
  BY <1>1, <1>2, <1>3, <1>4, <1>5, <1>6, <1>7, <1>8, <1>9, <1>10, <1>11, <1>12, <1>13
  DEF Next, Step, RecoveryStep, ResumeStep, TransitionStep, Fault, ForwardAction

\* The type invariant: every file, row and local keeps its kind, whatever
\* crashes, power failures and losses do.
THEOREM TypeCorrect == Spec => []TypeOK
<1>1. Init => TypeOK /\ ControlInv
  BY InitType DEF Init, ControlInv, PendingIsVisited, WorkingCopy, StepHasInput,
     NotYetCreated, Working, Forward, DeriveSteps
<1>2. TypeOK /\ ControlInv /\ [Next]_vars => (TypeOK /\ ControlInv)'
  BY NextType, NextControl
<1> QED
  BY <1>1, <1>2, PTL DEF Spec

\* The initial states satisfy the invariant that recovery relies on.
LEMMA InitLedger == Init => TypeOK /\ LedgerInv /\ PowerInv
<1>1. Init => TypeOK /\ LedgerInv
  BY InitType DEF Init, LedgerInv, ControlInv, PendingIsVisited, WorkingCopy,
     StepHasInput, NotYetCreated, StepMatchesOperation, FilesMatchManifest,
     Working, Forward, DeriveSteps
<1>2. Init => PowerInv
  BY ConstantsAssumption DEF Init, PowerInv, DiskIsBehind, ConstantsAssumption
<1> QED
  BY <1>1, <1>2

\* What recovery relies on is invariant: the operation files, the manifest and
\* the program counter agree, and the disk is at most one rename behind.
THEOREM LedgerInvariant ==
    ASSUME PowerSafe
    PROVE  Spec => [](TypeOK /\ LedgerInv /\ PowerInv)
<1>1. TypeOK /\ LedgerInv /\ PowerInv /\ [Next]_vars
      => (TypeOK /\ LedgerInv /\ PowerInv)'
  BY NextType, NextControl, NextLedger, NextPower DEF LedgerInv
<1> QED
  BY <1>1, InitLedger, PTL DEF Spec

\* No operation is settled both ways, however often a command dies between the
\* writes that settle it.
THEOREM NeverSettledTwice ==
    ASSUME PowerSafe
    PROVE  Spec => []SettledOneWay
<1>1. TypeOK /\ LedgerInv => SettledOneWay
  BY DEF LedgerInv, FilesMatchManifest, SettledOneWay
<1> QED
  BY <1>1, LedgerInvariant, PTL

\* An operation whose manifest took effect is never aborted and never
\* forgotten, and only such an operation, or one that changed nothing, completes.
THEOREM CommittedIsAccounted ==
    ASSUME PowerSafe
    PROVE  Spec => []CommittedAccounted
<1>1. TypeOK /\ LedgerInv => CommittedAccounted
  BY DEF LedgerInv, FilesMatchManifest, CommittedAccounted
<1> QED
  BY <1>1, LedgerInvariant, PTL

\* Recovery never meets a manifest on neither side of a pending transition.
THEOREM RecoveryAlwaysDecides ==
    ASSUME PowerSafe
    PROVE  Spec => []RecoveryDecides
<1>1. TypeOK /\ LedgerInv => RecoveryDecides
  BY DEF LedgerInv, ControlInv, PendingIsVisited, FilesMatchManifest, RecoveryDecides,
         SameTransition
<1> QED
  BY <1>1, LedgerInvariant, PTL

------------------------------------------------------------------------------
(* The operations implement the authority ledger.                            *)

\* A step after which every operation has the transition and the outcome it
\* had, and the manifest the value it had, is a stutter of the ledger.
LEMMA LedgerStutter ==
    ASSUME LoadedManifest' = LoadedManifest, committed' = committed,
           \A i \in Ops : TransitionOf(i)' = TransitionOf(i) /\ OutcomeOf(i)' = OutcomeOf(i)
    PROVE  UNCHANGED Ledger!vars
BY DEF Ledger!vars

\* One operation gets an outcome and the others keep theirs, or the same of
\* transitions: the ledger's function changes at that operation.
LEMMA OneOutcome ==
    ASSUME NEW o \in Ops, NEW v, OutcomeOf(o)' = v,
           \A j \in Ops : j # o => OutcomeOf(j)' = OutcomeOf(j)
    PROVE  [i \in Ops |-> OutcomeOf(i)]' = [[i \in Ops |-> OutcomeOf(i)] EXCEPT ![o] = v]
OBVIOUS

LEMMA OneTransition ==
    ASSUME NEW o \in Ops, NEW STATE v, TransitionOf(o)' = v,
           \A j \in Ops : j # o => TransitionOf(j)' = TransitionOf(j)
    PROVE  [i \in Ops |-> TransitionOf(i)]'
              = [[i \in Ops |-> TransitionOf(i)] EXCEPT ![o] = v]
OBVIOUS

\* The initial states are initial states of the ledger.
LEMMA LedgerInitial == Init => Ledger!Init
BY DEF Init, Ledger!Init, LoadedManifest, TransitionOf, OutcomeOf

\* Every step is a step of the ledger, or a stutter of it.
LEMMA LedgerNext ==
    ASSUME MaxPowerLosses = 0
    PROVE  TypeOK /\ LedgerInv /\ [Next]_vars => [Ledger!Next]_(Ledger!vars)
<1> SUFFICES ASSUME TypeOK, LedgerInv, [Next]_vars
             PROVE  Ledger!Next \/ UNCHANGED Ledger!vars
  OBVIOUS
<1> USE DEF disk, local, bounds, Goto, LedgerInv, ControlInv
<1>1. CASE ForwardAction
  <2>1. CarriesForward
    BY <1>1, ForwardActions
  <2>2. op \in Ops /\ pending[op] # Nil /\ SameTransition(cur, pending[op])
    BY <2>1 DEF CarriesForward, Working, WorkingCopy
  <2>3. \A i \in Ops : /\ pending'[i] # Nil <=> pending[i] # Nil
                       /\ pending[i] # Nil => SameTransition(pending'[i], pending[i])
    BY <2>1, <2>2, NilAssumption DEF TypeOK, SameTransition, CarriesForward
  <2> QED
    BY <2>1, <2>3, LedgerStutter
    DEF CarriesForward, LoadedManifest, TransitionOf, OutcomeOf, SameTransition
<1>2. CASE UNCHANGED <<manifest, pending, completed, aborted, committed>>
  BY <1>2, LedgerStutter DEF LoadedManifest, TransitionOf, OutcomeOf
<1>3. CASE \/ Resume /\ manifest # cur.after
           \/ ClearMarker /\ purpose = "command"
           \/ DeriveWithoutManifest \/ VisitWithoutManifest
           \/ RefineCommand \/ ReconcileCommand \/ Crash \/ RenameFails
           \/ (DeriveProjection \/ DeriveManifest \/ Refine) /\ purpose = "command"
           \/ (\E c \in Commands : Start(c))
           \/ (\E i \in Ops : VisitPending(i))
           \/ RecoveryDone \/ Begin \/ LoseDerived \/ LoseAnalysis
  <2>1. UNCHANGED <<manifest, pending, completed, aborted, committed>>
    BY <1>3 DEF Resume, ClearMarker, DeriveWithoutManifest, VisitWithoutManifest,
                RefineCommand, ReconcileCommand, Crash, RenameFails, DeriveProjection,
                DeriveManifest, Refine, Start, VisitPending, RecoveryDone, Begin,
                LoseDerived, LoseAnalysis
  <2> QED
    BY <1>2, <2>1
<1>4. ASSUME NEW i \in Ops, VisitCompleted(i)
      PROVE  Ledger!Next \/ UNCHANGED Ledger!vars
  <2>1. /\ UNCHANGED <<manifest, completed, aborted, committed>>
        /\ completed[i] # Nil
        /\ pending' = pending \/ pending' = [pending EXCEPT ![i] = Nil]
    BY <1>4 DEF VisitCompleted
  <2>2. \A j \in Ops : TransitionOf(j)' = TransitionOf(j) /\ OutcomeOf(j)' = OutcomeOf(j)
    BY <2>1 DEF TransitionOf, OutcomeOf, FilesMatchManifest, SameTransition, TypeOK
  <2> QED
    BY <2>1, <2>2, LedgerStutter DEF LoadedManifest
<1>5. CASE Unlink
  <2>1. /\ UNCHANGED <<manifest, completed, aborted, committed>>
        /\ op \in Ops /\ (completed[op] # Nil \/ aborted[op] # Nil)
        /\ pending' = [pending EXCEPT ![op] = Nil]
    BY <1>5 DEF Unlink, StepMatchesOperation, WorkingCopy, Working
  <2>2. \A j \in Ops : TransitionOf(j)' = TransitionOf(j) /\ OutcomeOf(j)' = OutcomeOf(j)
    BY <2>1 DEF TransitionOf, OutcomeOf, FilesMatchManifest, SameTransition, TypeOK
  <2> QED
    BY <2>1, <2>2, LedgerStutter DEF LoadedManifest
<1>6. CASE Abort
  <2>1. PICK o \in Ops : o = op
    BY <1>6 DEF Abort, WorkingCopy, Working
  <2>2. /\ cur \in Intents /\ pending[o] # Nil
        /\ SameTransition(cur, pending[o]) /\ cur # Nil
        /\ manifest = cur.before /\ ChangesAuthority(cur) /\ completed[o] = Nil
        /\ UNCHANGED <<manifest, pending, completed, committed>>
        /\ aborted' = [aborted EXCEPT ![o] = cur]
    BY <1>6, <2>1, WorkingTypes DEF Abort, WorkingCopy, Working, StepMatchesOperation
  <2>3. LoadedManifest' = LoadedManifest /\ aborted'[o] = cur /\ completed'[o] = Nil
    BY <2>2 DEF LoadedManifest, TypeOK
  <2>4. o \notin committed
    BY <2>2, IntentUpdates, ConstantsAssumption
    DEF FilesMatchManifest, SameTransition, ChangesAuthority, LoadedManifest,
        ConstantsAssumption
  <2>5. \A j \in Ops : /\ TransitionOf(j)' = TransitionOf(j)
                       /\ j # o => OutcomeOf(j)' = OutcomeOf(j)
    BY <2>2 DEF TransitionOf, OutcomeOf, SameTransition, TypeOK
  <2>6. OutcomeOf(o)' = "aborted"
    BY <2>2, <2>3 DEF OutcomeOf
  <2>7. CASE aborted[o] # Nil
    <3>1. OutcomeOf(o) = "aborted"
      BY <2>2, <2>7 DEF OutcomeOf
    <3>2. \A j \in Ops : TransitionOf(j)' = TransitionOf(j) /\ OutcomeOf(j)' = OutcomeOf(j)
      BY <2>5, <2>6, <3>1
    <3> QED
      BY <2>2, <2>3, <3>2, LedgerStutter
  <2>8. CASE aborted[o] = Nil
    <3>1. OutcomeOf(o) = "open"
      BY <2>2, <2>8 DEF OutcomeOf
    <3>2. [i \in Ops |-> OutcomeOf(i)]'
             = [[i \in Ops |-> OutcomeOf(i)] EXCEPT ![o] = "aborted"]
      BY <2>5, <2>6, OneOutcome
    <3>3. [i \in Ops |-> TransitionOf(i)]' = [i \in Ops |-> TransitionOf(i)]
      BY <2>5
    <3>4. Ledger!AbortOp(o)
      BY <2>2, <2>3, <2>4, <3>1, <3>2, <3>3 DEF Ledger!AbortOp
    <3> QED
      BY <3>4 DEF Ledger!Next
  <2> QED
    BY <2>7, <2>8
<1>7. CASE Complete
  <2> DEFINE last == [cur EXCEPT !.status = "completed"]
  <2>1. PICK o \in Ops : o = op
    BY <1>7 DEF Complete, WorkingCopy, Working, Forward
  <2>2. /\ cur \in Intents /\ pending[o] # Nil
        /\ SameTransition(cur, pending[o])
        /\ TookEffect(o, cur) /\ completed[o] = Nil /\ aborted[o] = Nil
        /\ UNCHANGED <<manifest, pending, aborted, committed>>
        /\ completed' = [completed EXCEPT ![o] = last]
    BY <1>7, <2>1, WorkingTypes
    DEF Complete, WorkingCopy, Working, Forward, StepMatchesOperation
  <2>3. last.before = cur.before /\ last.after = cur.after /\ last # Nil
    <3>1. last \in Intents
      BY <2>2, IntentUpdates DEF Statuses
    <3> QED
      BY <2>2, <3>1, NilAssumption DEF Intents
  <2>4. LoadedManifest = cur.after /\ LoadedManifest' = LoadedManifest
    BY <2>2, IntentUpdates, ConstantsAssumption
    DEF TookEffect, LoadedManifest, ConstantsAssumption
  <2>5. \A j \in Ops : /\ TransitionOf(j)' = TransitionOf(j)
                       /\ j # o => OutcomeOf(j)' = OutcomeOf(j)
    BY <2>2, <2>3 DEF TransitionOf, OutcomeOf, SameTransition, TypeOK
  <2>6. OutcomeOf(o) = "open"
    BY <2>2 DEF OutcomeOf
  <2>7. OutcomeOf(o)' = "completed"
    <3>1. completed'[o] = last
      BY <2>2 DEF TypeOK
    <3> QED
      BY <2>3, <3>1 DEF OutcomeOf
  <2>8. TransitionOf(o) = [before |-> cur.before, after |-> cur.after]
    BY <2>2 DEF TransitionOf, SameTransition
  <2>9. Ledger!CompleteOp(o)
    <3>1. [i \in Ops |-> OutcomeOf(i)]'
             = [[i \in Ops |-> OutcomeOf(i)] EXCEPT ![o] = "completed"]
      BY <2>5, <2>7, OneOutcome
    <3>2. [i \in Ops |-> TransitionOf(i)]' = [i \in Ops |-> TransitionOf(i)]
      BY <2>5
    <3> QED
      BY <2>2, <2>4, <2>6, <2>8, <3>1, <3>2
      DEF Ledger!CompleteOp, TookEffect, ChangesAuthority
  <2> QED
    BY <2>9 DEF Ledger!Next
<1>8. ASSUME NEW after \in Manifests, NEW derive \in BOOLEAN, NEW import \in BOOLEAN,
             Create(after, derive, import)
      PROVE  Ledger!Next \/ UNCHANGED Ledger!vars
  <2> DEFINE intent == NewIntent(LoadedManifest, after, derive, import)
             step == [before |-> LoadedManifest, after |-> after]
  <2>1. PICK o \in Ops : o = nextOp
    BY <1>8 DEF Create, Ops, TypeOK
  <2>2. /\ pending' = [pending EXCEPT ![o] = intent]
        /\ UNCHANGED <<manifest, completed, aborted, committed>>
    BY <1>8, <2>1 DEF Create
  <2>3. intent.before = LoadedManifest /\ intent.after = after /\ intent # Nil
    <3>1. intent \in Intents
      BY ConstantsAssumption
      DEF ConstantsAssumption, NewIntent, Intents, LoadedManifest, Statuses, TypeOK
    <3> QED
      BY <3>1, NilAssumption DEF NewIntent
  <2>4. /\ \A i \in Ops : pending[i] = Nil
        /\ completed[o] = Nil /\ aborted[o] = Nil
    BY <1>8, <2>1 DEF Create, PendingIsVisited, NotYetCreated, Ops
  <2>5. \A j \in Ops : j # o => /\ TransitionOf(j)' = TransitionOf(j)
                                /\ OutcomeOf(j)' = OutcomeOf(j)
    BY <2>2 DEF TransitionOf, OutcomeOf, TypeOK
  <2>6. pending'[o] = intent /\ completed'[o] = Nil /\ aborted'[o] = Nil
    BY <2>2, <2>4 DEF TypeOK
  <2>7. TransitionOf(o)' = step
    BY <2>3, <2>6 DEF TransitionOf
  <2>8. OutcomeOf(o) = "none" /\ OutcomeOf(o)' = "open"
    BY <2>3, <2>4, <2>6 DEF OutcomeOf
  <2>9. \A j \in Ops : OutcomeOf(j) # "open"
    BY <2>4 DEF OutcomeOf
  <2>10. LoadedManifest' = LoadedManifest
    BY <2>2 DEF LoadedManifest
  <2>11. Ledger!Open(o, after)
    <3>1. [i \in Ops |-> OutcomeOf(i)]'
             = [[i \in Ops |-> OutcomeOf(i)] EXCEPT ![o] = "open"]
      BY <2>5, <2>8, OneOutcome
    <3>2. [i \in Ops |-> TransitionOf(i)]'
             = [[i \in Ops |-> TransitionOf(i)] EXCEPT ![o] = step]
      BY <2>5, <2>7, OneTransition
    <3> QED
      BY <2>2, <2>8, <2>9, <2>10, <3>1, <3>2 DEF Ledger!Open
  <2> QED
    BY <2>11 DEF Ledger!Next
<1>9. CASE Rename
  <2>1. /\ op \in Ops /\ cur \in Intents /\ pending[op] # Nil
        /\ SameTransition(cur, pending[op]) /\ op \notin committed
        /\ completed[op] = Nil /\ aborted[op] = Nil /\ LoadedManifest = cur.before
        /\ UNCHANGED <<pending, completed, aborted>>
        /\ manifest' = cur.after /\ committed' = committed \cup {op}
    BY <1>9, WorkingTypes DEF Rename, WorkingCopy, Working, StepMatchesOperation
  <2>2. LoadedManifest' = cur.after
    BY <2>1, IntentUpdates, ConstantsAssumption DEF LoadedManifest, ConstantsAssumption
  <2>3. \A j \in Ops : TransitionOf(j)' = TransitionOf(j) /\ OutcomeOf(j)' = OutcomeOf(j)
    BY <2>1 DEF TransitionOf, OutcomeOf
  <2>4. /\ TransitionOf(op) = [before |-> cur.before, after |-> cur.after]
        /\ OutcomeOf(op) = "open"
    BY <2>1 DEF TransitionOf, OutcomeOf, SameTransition
  <2>5. Ledger!Move(op)
    BY <2>1, <2>2, <2>3, <2>4 DEF Ledger!Move
  <2> QED
    BY <2>1, <2>5 DEF Ledger!Next
<1>10. CASE PowerLoss
  BY <1>10 DEF PowerLoss, TypeOK
<1>11. CASE UNCHANGED vars
  BY <1>2, <1>11 DEF vars
<1> QED
  BY <1>1, <1>3, <1>4, <1>5, <1>6, <1>7, <1>8, <1>9, <1>10, <1>11
  DEF Next, Step, RecoveryStep, ResumeStep, TransitionStep, Fault, ForwardAction

\* The operations, with their files, recoveries and crashes, implement the
\* authority ledger: a manifest moves once per operation, an operation that
\* moved it completes, and one that aborts never moved it.
THEOREM ImplementsLedger ==
    ASSUME MaxPowerLosses = 0
    PROVE  Spec => LedgerSpec
<1>1. PowerSafe
  BY DEF PowerSafe
<1> QED
  BY <1>1, LedgerInitial, LedgerNext, LedgerInvariant, PTL DEF Spec, LedgerSpec, Ledger!Spec

==============================================================================
