------------------------- MODULE PatternAnnotations -------------------------
(***************************************************************************)
(* The reviews that operators attach to workflow patterns in the           *)
(* workbench: pattern-annotations.ts and annotatePattern of                *)
(* workbench/data.ts.                                                      *)
(*                                                                         *)
(* A review is a content-addressed record that names its predecessor; a    *)
(* manifest names the latest record of each pattern.  Operators look at a  *)
(* view, which takes no lock, and submit a form that says which revision   *)
(* and which pattern artifact they looked at.  The write runs under a      *)
(* SQLite transaction, which ends with its process.                        *)
(*                                                                         *)
(* A content hash is what it is taken of: a record is the sequence of the  *)
(* reviews up to it.  A review is its operator and its artifact; text and  *)
(* times are left out, and so are power failures and the manifest's own    *)
(* revision, which nothing reads.  Fault stands for every end of a         *)
(* request without an answer: death of the process or of the connection,   *)
(* an error before or after a rename.                                      *)
(***************************************************************************)
EXTENDS Naturals, SequencesExt

CONSTANTS
    Operators, None,
    Handles,        \* of patterns: the stable triple kind, signal, role
    Artifacts,      \* versions of the workflow patterns artifact
    Active,         \* artifact -> the handles of its patterns
    MaxHistory,     \* MAX_HISTORY
    MaxFaults       \* bound

Review == [by : Operators, artifact : Artifacts]
Record == [handle : Handles, reviews : Seq(Review)]
Form == [handle : Handles, saw : Seq(Review), artifact : Artifacts]
Steps == {"idle", "looking", "reading", "waiting", "locked", "open", "written", "saved"}

ASSUME AnnotationAssumption ==
    /\ Active \in [Artifacts -> SUBSET Handles]
    /\ MaxHistory \in Nat \ {0} /\ MaxFaults \in Nat
    /\ None \notin Operators \cup Artifacts \cup Form \cup [Handles -> Seq(Review)]

VARIABLES
    artifact,       \* the derived artifact that is current
    objects,        \* annotations/objects: the records in it
    manifest,       \* handle -> the latest record of it; None without a file
    lock,           \* whose transaction is open in workflow-patterns-lock.sqlite
    form,           \* operator -> the form that a view gave him, or None
    pc,             \* operator -> the next step of his request
    patterns,       \* operator -> the artifact whose patterns were loaded
    snapshot,       \* operator -> the artifact whose hash was loaded
    loaded,         \* operator -> the manifest that was loaded under the lock
    acks,           \* history: the forms that were answered, and with what
    faults          \* how many requests ended without an answer

vars == <<artifact, objects, manifest, lock, form, pc, patterns, snapshot, loaded, acks, faults>>
local == <<patterns, snapshot, loaded>>

Genesis == [h \in Handles |-> <<>>]

Init ==
    /\ artifact \in Artifacts
    /\ objects = {} /\ manifest = None /\ lock = None
    /\ form = [c \in Operators |-> None] /\ pc = [c \in Operators |-> "idle"]
    /\ patterns = [c \in Operators |-> None] /\ snapshot = [c \in Operators |-> None]
    /\ loaded = [c \in Operators |-> None]
    /\ acks = {} /\ faults = 0

----------------------------------------------------------------------------
(* What is on disk.                                                        *)

RecordOf(h, reviews) == [handle |-> h, reviews |-> reviews]

\* Every record on the chain of predecessors can be loaded.
Unbroken(h, reviews) ==
    \A n \in 1 .. Len(reviews) : RecordOf(h, SubSeq(reviews, 1, n)) \in objects

\* A mutant that allows one record more.
MutantWithinBound(reviews) == Len(reviews) <= MaxHistory + 1
WithinBound(reviews) == Len(reviews) <= MaxHistory

\* One history that cannot be loaded fails the load of all.
Readable ==
    IF manifest = None THEN objects = {}
    ELSE \A h \in Handles : Unbroken(h, manifest[h]) /\ WithinBound(manifest[h])

----------------------------------------------------------------------------
(* The view of an operator.                                                *)

Go(c, step) == pc' = [pc EXCEPT ![c] = step]

Fill(c, h, reviews) ==
    /\ h \in Active[artifact]
    /\ form' = [form EXCEPT ![c] = [handle |-> h, saw |-> reviews, artifact |-> artifact]]

View(c, h) ==
    /\ pc[c] = "idle" /\ manifest # None /\ Readable
    /\ Fill(c, h, manifest[h])
    /\ UNCHANGED <<artifact, objects, manifest, lock, pc, local, acks, faults>>

\* Without a manifest the directory of objects is looked at next.
MissManifest(c) ==
    /\ pc[c] = "idle" /\ manifest = None
    /\ Go(c, "looking")
    /\ UNCHANGED <<artifact, objects, manifest, lock, form, local, acks, faults>>

ViewNothing(c, h) ==
    /\ pc[c] = "looking" /\ objects = {}
    /\ Fill(c, h, <<>>) /\ Go(c, "idle")
    /\ UNCHANGED <<artifact, objects, manifest, lock, local, acks, faults>>

\* The manifest is reported lost; a writer may have created it meanwhile.
ReportLoss(c) ==
    /\ pc[c] = "looking" /\ objects # {}
    /\ Go(c, "idle")
    /\ UNCHANGED <<artifact, objects, manifest, lock, form, local, acks, faults>>

----------------------------------------------------------------------------
(* The submission of a form.                                               *)

Return(c) ==
    /\ Go(c, "idle") /\ lock' = IF lock = c THEN None ELSE lock
    /\ patterns' = [patterns EXCEPT ![c] = None]
    /\ snapshot' = [snapshot EXCEPT ![c] = None]
    /\ loaded' = [loaded EXCEPT ![c] = None]

Handle(c) == form[c].handle
Mine(c) == [by |-> c, artifact |-> snapshot[c]]
Extended(c) == Append(loaded[c][Handle(c)], Mine(c))

Submit(c) ==
    /\ pc[c] = "idle" /\ form[c] # None
    /\ Go(c, "reading") /\ patterns' = [patterns EXCEPT ![c] = artifact]
    /\ UNCHANGED <<artifact, objects, manifest, lock, form, snapshot, loaded, acks, faults>>

\* The hash is read after the patterns, from a manifest that may be newer.
ReadHash(c) ==
    /\ pc[c] = "reading"
    /\ Handle(c) \in Active[patterns[c]]
    /\ snapshot' = [snapshot EXCEPT ![c] = artifact]
    /\ Go(c, "waiting")
    /\ UNCHANGED <<artifact, objects, manifest, lock, form, patterns, loaded, acks, faults>>

NotActive(c) ==
    /\ pc[c] = "reading" /\ Handle(c) \notin Active[patterns[c]]
    /\ Return(c)
    /\ UNCHANGED <<artifact, objects, manifest, form, acks, faults>>

Busy(c) ==
    /\ pc[c] = "waiting" /\ lock # None
    /\ Return(c)
    /\ UNCHANGED <<artifact, objects, manifest, form, acks, faults>>

\* A mutant without the transaction.
MutantAcquire(c) ==
    /\ pc[c] = "waiting"
    /\ lock' = c /\ Go(c, "locked")
    /\ UNCHANGED <<artifact, objects, manifest, form, local, acks, faults>>

Acquire(c) ==
    /\ pc[c] = "waiting" /\ lock = None
    /\ lock' = c /\ Go(c, "locked")
    /\ UNCHANGED <<artifact, objects, manifest, form, local, acks, faults>>

SameSnapshot(c) == form[c].artifact = snapshot[c]

\* A mutant that leaves the first manifest to the end.
MutantOpen(c) ==
    /\ pc[c] = "locked" /\ Readable /\ SameSnapshot(c)
    /\ loaded' = [loaded EXCEPT ![c] = IF manifest = None THEN Genesis ELSE manifest]
    /\ Go(c, "open")
    /\ UNCHANGED <<artifact, objects, manifest, lock, form, patterns, snapshot, acks, faults>>

\* The state is loaded, and an empty manifest written before the first object.
Open(c) ==
    /\ pc[c] = "locked" /\ Readable /\ SameSnapshot(c)
    /\ manifest' = IF manifest = None THEN Genesis ELSE manifest
    /\ loaded' = [loaded EXCEPT ![c] = manifest']
    /\ Go(c, "open")
    /\ UNCHANGED <<artifact, objects, lock, form, patterns, snapshot, acks, faults>>

\* A mutant that accepts a form for any later revision too.
MutantSameRevision(c) == Len(loaded[c][Handle(c)]) >= Len(form[c].saw)
SameRevision(c) == Len(loaded[c][Handle(c)]) = Len(form[c].saw)

\* A conflict, or a state that cannot be loaded.
Refuse(c) ==
    /\ \/ pc[c] = "locked" /\ ~(Readable /\ SameSnapshot(c))
       \/ pc[c] = "open" /\ ~SameRevision(c)
    /\ Return(c)
    /\ UNCHANGED <<artifact, objects, manifest, form, acks, faults>>

WriteObject(c) ==
    /\ pc[c] = "open" /\ SameRevision(c)
    /\ objects' = objects \cup {RecordOf(Handle(c), Extended(c))}
    /\ Go(c, "written")
    /\ UNCHANGED <<artifact, manifest, lock, form, local, acks, faults>>

WriteManifest(c) ==
    /\ pc[c] = "written"
    /\ manifest' = [loaded[c] EXCEPT ![Handle(c)] = Extended(c)]
    /\ Go(c, "saved")
    /\ UNCHANGED <<artifact, objects, lock, form, local, acks, faults>>

Acknowledge(c) ==
    /\ pc[c] = "saved"
    /\ acks' = acks \cup {[by |-> c, form |-> form[c], reviews |-> Extended(c)]}
    /\ form' = [form EXCEPT ![c] = None]
    /\ Return(c)
    /\ UNCHANGED <<artifact, objects, manifest, faults>>

Fault(c) ==
    /\ pc[c] # "idle" /\ faults < MaxFaults
    /\ Return(c) /\ faults' = faults + 1
    /\ UNCHANGED <<artifact, objects, manifest, form, acks>>

\* The patterns are derived again.
Derive(a) ==
    /\ a # artifact
    /\ artifact' = a
    /\ UNCHANGED <<objects, manifest, lock, form, pc, local, acks, faults>>

----------------------------------------------------------------------------

Step(c) ==
    \/ \E h \in Handles : View(c, h) \/ ViewNothing(c, h)
    \/ MissManifest(c) \/ ReportLoss(c)
    \/ Submit(c) \/ ReadHash(c) \/ NotActive(c) \/ Busy(c) \/ Acquire(c) \/ Open(c) \/ Refuse(c)
    \/ WriteObject(c) \/ WriteManifest(c) \/ Acknowledge(c)
    \/ Fault(c)

Next == (\E c \in Operators : Step(c)) \/ \E a \in Artifacts : Derive(a)

Spec == Init /\ [][Next]_vars

----------------------------------------------------------------------------
(* Properties.                                                             *)

Ack == [by : Operators, form : Form, reviews : Seq(Review)]

TypeOK ==
    /\ artifact \in Artifacts /\ objects \subseteq Record
    /\ manifest \in [Handles -> Seq(Review)] \cup {None}
    /\ lock \in Operators \cup {None} /\ pc \in [Operators -> Steps]
    /\ form \in [Operators -> Form \cup {None}]
    /\ patterns \in [Operators -> Artifacts \cup {None}]
    /\ snapshot \in [Operators -> Artifacts \cup {None}]
    /\ loaded \in [Operators -> [Handles -> Seq(Review)] \cup {None}]
    /\ acks \subseteq Ack /\ faults \in 0 .. MaxFaults

\* Wherever a write ends, the manifest names a whole chain of records, and a
\* root with records has a manifest (a lost one is not recoverable).
NothingDangles ==
    IF manifest = None THEN objects = {}
    ELSE \A h \in Handles : Unbroken(h, manifest[h])

\* A review that was acknowledged is never lost to another operator's write,
\* to one of the same pattern nor to one of another.
AcksAreKept ==
    \A a \in acks : manifest # None /\ IsPrefix(a.reviews, manifest[a.form.handle])

\* A review stands right after the one that its operator had seen, and names
\* the artifact that he had seen, in which the pattern was active.
BuiltOnWhatWasSeen ==
    \A a \in acks :
        /\ a.reviews = Append(a.form.saw, [by |-> a.by, artifact |-> a.form.artifact])
        /\ a.form.handle \in Active[a.form.artifact]

\* The write does not test the bound on a history, so one review may exceed
\* it.  From then on nothing is written any more, whatever the pattern.
LimitFreezes ==
    [][manifest # None /\ (\E h \in Handles : Len(manifest[h]) > MaxHistory)
           => UNCHANGED <<manifest, objects>>]_vars

History == IF manifest = None THEN Genesis ELSE manifest
Confirmed == {<<a.form.handle, a.reviews>> : a \in acks}

Register == INSTANCE AnnotationRegister WITH history <- History, confirmed <- Confirmed
\* The manifest and the records implement a register of histories.
RegisterSpec == Register!Spec

=============================================================================
