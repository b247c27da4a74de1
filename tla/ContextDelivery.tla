-------------------------- MODULE ContextDelivery --------------------------
(***************************************************************************)
(* Context sessions and what is charged to them: context-session.ts,       *)
(* context-plane.ts, context-events.ts, context-event-outbox.ts, the       *)
(* finalization of recall-events.ts and the release pointer of             *)
(* context-release.ts.                                                     *)
(*                                                                         *)
(* A session file holds a token budget, the bundles and recalls that were  *)
(* charged to it and an outbox of event batches that the SQLite projection *)
(* may not have yet.  A delivery or a recall is finalized under the        *)
(* context finalization lock: stage the events, debit the session and fill *)
(* its outbox in one write, publish, clear the outbox, answer.  Whoever    *)
(* reads a session publishes its outbox first and then clears that, in two *)
(* steps: here all such reads are ReadEvents and FinishReading, and the    *)
(* calls that read wait for an outbox without anything to publish.         *)
(*                                                                         *)
(* A section under the ingest lock is one action, except where a death     *)
(* between two of its writes leaves a trace (Persist and Save; a           *)
(* publication that is cut short).  Fault stands for every end of a call   *)
(* without an answer: death, an I/O error, an ingest lock that is taken.   *)
(* Both locks are those of FileLock, which shows that they exclude and     *)
(* that a dead owner's lock is reclaimed.  Of the four budgets tokens is   *)
(* kept; a hash is the record that it is taken of; of the reclaimable      *)
(* sessions any is evicted, not the oldest.  Losing power is left out.     *)
(***************************************************************************)
EXTENDS Naturals, FiniteSets, FiniteSetsExt

CONSTANTS
    Procs, None,
    Sessions,       \* the native sessions; the binding of each is its own
    Capacity,       \* MAX_CONTEXT_SESSIONS
    Total,          \* the token budget of a session
    Tasks, Cost,    \* task -> the tokens of its rendered context
    Gates,          \* the release gates that an operator may authorize
    Ids, Queries,   \* of recall invocations
    RecallBudget,   \* the tokens that a recall asks for
    Results, Spend, \* what the recall runtime may return -> its tokens
    Lifecycle,      \* how many event batches a recall stages
    MaxBundles,     \* MAX_CONTEXT_BUNDLE_HASHES
    MaxRecalls,     \* MAX_CONTEXT_RECALL_INVOCATIONS
    MaxPending,     \* MAX_STAGED_RECALL_EVENT_BATCHES
    MaxFeedback, MaxFaults  \* bounds

Bundle == [session : Sessions, before : 0 .. Total, task : Tasks, gate : Gates]
Invocation == [id : Ids, query : Queries]
Charge == [kind : {"emitted"}, key : Bundle, by : Procs]
              \cup [kind : {"recall"}, key : Invocation, by : Results]
Batch == [session : Sessions, kind : {"emitted", "recall", "proposed", "rendered", "failed", "feedback"},
          key : Bundle \cup Invocation \cup {None}, by : Procs \cup Results \cup {None},
          part : 1 .. Lifecycle]
SessionFile == [remaining : 0 .. Total, attempted : SUBSET Bundle,
                charged : SUBSET Charge, pending : SUBSET Batch]

ASSUME DeliveryAssumption ==
    /\ Capacity \in Nat \ {0} /\ Total \in Nat /\ Lifecycle \in Nat \ {0}
    /\ Cost \in [Tasks -> Nat] /\ Spend \in [Results -> Nat]
    /\ RecallBudget \in Nat /\ \A r \in Results : Spend[r] <= RecallBudget
    /\ MaxBundles \in Nat /\ MaxRecalls \in Nat /\ MaxPending \in Nat
    /\ MaxFeedback \in Nat /\ MaxFaults \in Nat
    /\ None \notin SessionFile \cup [remaining : 0 .. Total, charged : SUBSET Charge]
    /\ None \notin Gates \cup Procs \cup Results \cup Bundle \cup Invocation
    /\ Bundle \cap Invocation = {}

VARIABLES
    sessions,       \* session -> its file in memory/context-sessions, or None
    results,        \* memory/context-recall-results: [session, key, by]
    indexed,        \* event_batches: the batches that SQLite knows
    rows,           \* context_event_projection: their rows
    gate,           \* the gate that memory/context-release/current.json names
    reading,        \* what a reader has published and not yet cleared
    custody,        \* the owner of the finalization lock
    pc, task,       \* process -> its next step, and the call it serves
    answers,        \* history: what calls returned, and to whom
    faults          \* how many calls ended without an answer

vars == <<sessions, results, indexed, rows, gate, reading, custody, pc, task, answers, faults>>

Steps == {"idle", "reserving", "rendering", "proposed", "validated", "staged", "answering",
          "admitted", "obtained", "persisted", "committed", "published", "asserting"}
Task == [session : Sessions \cup {None}, key : Bundle \cup Invocation \cup {None},
         by : Procs \cup Results \cup {None}, before : 0 .. Total,
         charged : BOOLEAN, room : BOOLEAN]
Call(s, key, by, before, charged, room) ==
    [session |-> s, key |-> key, by |-> by, before |-> before, charged |-> charged, room |-> room]
NoTask == Call(None, None, None, 0, FALSE, FALSE)

Init ==
    /\ sessions = [s \in Sessions |-> None]
    /\ results = {} /\ indexed = {} /\ rows = {}
    /\ gate = None /\ reading = {} /\ custody = None
    /\ pc = [p \in Procs |-> "idle"] /\ task = [p \in Procs |-> NoTask]
    /\ answers = {} /\ faults = 0

----------------------------------------------------------------------------
(* What is in the files.                                                   *)

IsBundle(key) == key \in Bundle
Parts(kind) == IF kind = "recall" THEN 1 .. Lifecycle ELSE {1}
BatchesOf(s, c) == {[session |-> s, kind |-> c.kind, key |-> c.key, by |-> c.by, part |-> i] :
                       i \in Parts(c.kind)}
Price(c) == IF c.kind = "emitted" THEN Cost[c.key.task] ELSE Spend[c.by]

Charged(file, key) == \E c \in file.charged : c.key = key
Recalls(file) == {c \in file.charged : c.kind = "recall"}

\* The limits that parseStoredSession rejects a stored session for.
Readable(file) ==
    /\ Cardinality(file.charged \ Recalls(file)) <= MaxBundles
    /\ Cardinality(file.attempted) <= MaxBundles
    /\ Cardinality(Recalls(file)) <= MaxRecalls
    /\ Cardinality(file.pending) <= MaxPending

\* A delivery is published once it is charged; of a recall all batches are,
\* and only together with its durable result.
Publishable(s) ==
    UNION {BatchesOf(s, c) : c \in {d \in sessions[s].charged :
               /\ BatchesOf(s, d) \subseteq sessions[s].pending
               /\ d.kind = "recall" => [session |-> s, key |-> d.key, by |-> d.by] \in results}}

SameEvent(a, b) ==
    a.session = b.session /\ a.kind = b.kind /\ a.key = b.key /\ a.part = b.part
\* INSERT OR IGNORE under the unique index of idempotency keys; a batch that is
\* indexed already is projected all the same.
Projected(batches) == rows \cup {b \in batches : \A r \in rows : ~SameEvent(r, b)}
MutantSurface(batches) ==
    indexed' = indexed \cup batches /\ rows' = Projected(batches \ indexed)
Surface(batches) == indexed' = indexed \cup batches /\ rows' = Projected(batches)

\* An ingest lock that is held between two writes turns everybody else away.
IngestFree == \A p \in Procs : pc[p] # "persisted"

AllPublishable == UNION {Publishable(s) : s \in {x \in Sessions : sessions[x] # None}}

Answer(p, events) ==
    answers' = answers \cup
        {[session |-> task[p].session, key |-> task[p].key, event |-> e] : e \in events}

Go(p, step) == pc' = [pc EXCEPT ![p] = step]
Return(p) ==
    /\ Go(p, "idle") /\ task' = [task EXCEPT ![p] = NoTask]
    /\ custody' = IF custody = p THEN None ELSE custody

Session(p) == task[p].session
File(p) == sessions[Session(p)]

----------------------------------------------------------------------------
(* Reading: publish every outbox, then clear what was published.           *)

ReadEvents ==
    /\ IngestFree /\ reading = {} /\ AllPublishable # {}
    /\ Surface(AllPublishable)
    /\ reading' = AllPublishable
    /\ UNCHANGED <<sessions, results, gate, custody, pc, task, answers, faults>>

\* A mutant that clears the whole outbox.
MutantFinishReading ==
    /\ IngestFree /\ reading # {}
    /\ sessions' = [s \in Sessions |-> IF sessions[s] = None THEN None
                        ELSE [sessions[s] EXCEPT !.pending = {}]]
    /\ reading' = {}
    /\ UNCHANGED <<results, indexed, rows, gate, custody, pc, task, answers, faults>>

FinishReading ==
    /\ IngestFree /\ reading # {}
    /\ sessions' = [s \in Sessions |-> IF sessions[s] = None THEN None
                        ELSE [sessions[s] EXCEPT !.pending = @ \ reading]]
    /\ reading' = {}
    /\ UNCHANGED <<results, indexed, rows, gate, custody, pc, task, answers, faults>>

\* readContextSession succeeds and has nothing left to publish.
CanRead(s) ==
    /\ IngestFree /\ sessions[s] # None /\ Readable(sessions[s])
    /\ Publishable(s) = {}

Begin(p, step, call) ==
    /\ Go(p, step) /\ task' = [task EXCEPT ![p] = call]

\* The session was evicted since it was read.
Missing(p) ==
    /\ pc[p] \in {"reserving", "obtained"} /\ File(p) = None
    /\ Return(p)
    /\ UNCHANGED <<sessions, results, indexed, rows, gate, reading, answers, faults>>

----------------------------------------------------------------------------
(* Sessions.                                                               *)

NewSession == [remaining |-> Total, attempted |-> {}, charged |-> {}, pending |-> {}]

MutantReclaimable(s) ==
    sessions[s] # None /\ sessions[s].remaining = Total /\ sessions[s].pending = {}

Reclaimable(s) ==
    /\ sessions[s] # None /\ sessions[s] = NewSession
    /\ \A r \in rows : r.session # s
    /\ \A r \in results : r.session # s

OpenSession(s) ==
    /\ IngestFree /\ sessions[s] = None
    /\ \/ /\ Cardinality({x \in Sessions : sessions[x] # None}) < Capacity
          /\ sessions' = [sessions EXCEPT ![s] = NewSession]
       \/ /\ Cardinality({x \in Sessions : sessions[x] # None}) >= Capacity
          /\ \E old \in Sessions :
                /\ Reclaimable(old)
                /\ sessions' = [sessions EXCEPT ![old] = None, ![s] = NewSession]
    /\ UNCHANGED <<results, indexed, rows, gate, reading, custody, pc, task, answers, faults>>

\* A mutant that takes the ingest lock only.
MutantAuthorize(g) ==
    /\ IngestFree
    /\ gate' = g
    /\ UNCHANGED <<sessions, results, indexed, rows, reading, custody, pc, task, answers, faults>>

\* The pointer is replaced under both locks.
Authorize(g) ==
    /\ custody = None /\ IngestFree
    /\ gate' = g
    /\ UNCHANGED <<sessions, results, indexed, rows, reading, custody, pc, task, answers, faults>>

----------------------------------------------------------------------------
(* Preparing a bundle: plan against the remaining budget, reserve the      *)
(* attempt, render, record the two events.                                 *)

StartPrepare(p, s, t) ==
    /\ pc[p] = "idle" /\ gate # None /\ CanRead(s)
    /\ Begin(p, "reserving", Call(s,
          [session |-> s, before |-> sessions[s].remaining, task |-> t, gate |-> gate],
          None, 0, FALSE, FALSE))
    /\ UNCHANGED <<sessions, results, indexed, rows, gate, reading, custody, answers, faults>>

MutantHasRoom(file, key) == Cardinality(file.attempted) <= MaxBundles
HasRoom(file, key) == key \in file.attempted \/ Cardinality(file.attempted) < MaxBundles

Reserve(p) ==
    /\ pc[p] = "reserving" /\ File(p) # None /\ IngestFree
    /\ LET key == task[p].key IN
       IF HasRoom(File(p), key)
       THEN /\ sessions' = [sessions EXCEPT ![Session(p)].attempted = @ \cup {key}]
            /\ Go(p, "rendering") /\ UNCHANGED <<custody, task>>
       ELSE Return(p) /\ UNCHANGED sessions
    /\ UNCHANGED <<results, indexed, rows, gate, reading, answers, faults>>

Record(p, kind) ==
    [session |-> Session(p), kind |-> kind, key |-> task[p].key, by |-> None, part |-> 1]

\* A context that does not fit its request is recorded as a failed delivery.
Render(p) ==
    /\ pc[p] = "rendering" /\ IngestFree
    /\ IF Cost[task[p].key.task] <= task[p].key.before
       THEN /\ Surface({Record(p, "proposed")})
            /\ Go(p, "proposed") /\ UNCHANGED <<custody, task>>
       ELSE Surface({Record(p, "failed")}) /\ Return(p)
    /\ UNCHANGED <<sessions, results, gate, reading, answers, faults>>

RecordRendered(p) ==
    /\ pc[p] = "proposed" /\ IngestFree
    /\ Surface({Record(p, "rendered")})
    /\ Return(p)
    /\ UNCHANGED <<sessions, results, gate, reading, answers, faults>>

\* Preparing returns when both events are recorded; its bundle is a file that
\* any process may confirm, any number of times.
Prepared == {r.key : r \in {x \in rows : x.kind = "rendered"}}

----------------------------------------------------------------------------
(* Confirming a bundle: validate outside the finalization lock, then check *)
(* the gate, debit, publish and answer under it.  The receipt of a         *)
(* confirmation is the process that presents it.                           *)

StartConfirm(p, b) ==
    /\ pc[p] = "idle" /\ b \in Prepared /\ CanRead(b.session)
    /\ LET file == sessions[b.session] IN
       /\ Charged(file, b) \/ Cost[b.task] <= file.remaining
       /\ Begin(p, "validated", Call(b.session, b, p, 0,
             Charged(file, b), Cardinality(file.pending) < MaxPending))
    /\ UNCHANGED <<sessions, results, indexed, rows, gate, reading, custody, answers, faults>>

Emitted(key) == {r \in rows : r.kind = "emitted" /\ r.key = key}

\* The gate changed since the bundle was prepared, or the outbox was full.
Deny(p) ==
    /\ pc[p] = "validated" /\ custody = None
    /\ gate # task[p].key.gate \/ (~task[p].charged /\ ~task[p].room)
    /\ Return(p)
    /\ UNCHANGED <<sessions, results, indexed, rows, gate, reading, answers, faults>>

\* A retry of a delivery that was charged when it was validated.
Redeliver(p) ==
    /\ pc[p] = "validated" /\ custody = None /\ IngestFree /\ AllPublishable = {}
    /\ gate = task[p].key.gate /\ task[p].charged
    /\ Answer(p, {r.by : r \in {x \in Emitted(task[p].key) : x.by = task[p].by}})
    /\ Return(p)
    /\ UNCHANGED <<sessions, results, indexed, rows, gate, reading, faults>>

ChargeOf(p) ==
    [kind |-> IF IsBundle(task[p].key) THEN "emitted" ELSE "recall",
     key |-> task[p].key, by |-> task[p].by]

Own(p) == BatchesOf(Session(p), ChargeOf(p))

\* A mutant that publishes the receipt before it is paid for.
MutantStage(p) ==
    /\ pc[p] = "validated" /\ custody = None
    /\ gate = task[p].key.gate /\ ~task[p].charged /\ task[p].room
    /\ custody' = p /\ Go(p, "staged") /\ Surface(Own(p))
    /\ UNCHANGED <<sessions, results, gate, reading, task, answers, faults>>

\* The gate is still the one; the receipt is staged.
Stage(p) ==
    /\ pc[p] = "validated" /\ custody = None
    /\ gate = task[p].key.gate /\ ~task[p].charged /\ task[p].room
    /\ custody' = p /\ Go(p, "staged")
    /\ UNCHANGED <<sessions, results, indexed, rows, gate, reading, task, answers, faults>>

\* A mutant that charges a recall for what it asked for.
MutantDebit(p, file) ==
    LET asked == IF IsBundle(task[p].key) THEN Price(ChargeOf(p)) ELSE RecallBudget
    IN  [file EXCEPT !.remaining = @ - asked, !.charged = @ \cup {ChargeOf(p)},
                     !.pending = @ \cup BatchesOf(Session(p), ChargeOf(p))]

Debit(p, file) ==
    [file EXCEPT !.remaining = @ - Price(ChargeOf(p)), !.charged = @ \cup {ChargeOf(p)},
                 !.pending = @ \cup BatchesOf(Session(p), ChargeOf(p))]

BundleFits(p) ==
    /\ task[p].key.before = File(p).remaining
    /\ Cost[task[p].key.task] <= File(p).remaining
    /\ Cardinality(File(p).pending) < MaxPending

CommitBundle(p) ==
    /\ pc[p] = "staged" /\ CanRead(Session(p))
    /\ IF Charged(File(p), task[p].key)
       THEN Go(p, "answering") /\ UNCHANGED <<sessions, custody, task>>
       ELSE IF BundleFits(p)
       THEN /\ sessions' = [sessions EXCEPT ![Session(p)] = Debit(p, @)]
            /\ Go(p, "committed") /\ UNCHANGED <<custody, task>>
       ELSE Return(p) /\ UNCHANGED sessions
    /\ UNCHANGED <<results, indexed, rows, gate, reading, answers, faults>>

\* A mutant that answers with the event it has staged itself.
MutantAnswerCommitted(p) ==
    /\ pc[p] = "answering" /\ IngestFree /\ AllPublishable = {}
    /\ Answer(p, {task[p].by})
    /\ Return(p)
    /\ UNCHANGED <<sessions, results, indexed, rows, gate, reading, faults>>

\* Somebody else committed it meanwhile: his event is the answer.
AnswerCommitted(p) ==
    /\ pc[p] = "answering" /\ IngestFree /\ AllPublishable = {}
    /\ Answer(p, {r.by : r \in Emitted(task[p].key)})
    /\ Return(p)
    /\ UNCHANGED <<sessions, results, indexed, rows, gate, reading, faults>>

----------------------------------------------------------------------------
(* A recorded recall: read the session, take the durable result of the     *)
(* invocation or run the adapters, then persist, debit and publish under   *)
(* the finalization lock.                                                  *)

SameId(file, i) == {c \in Recalls(file) : c.key.id = i.id}
Durable(s, i) == {r.by : r \in {x \in results : x.session = s /\ x.key = i}}

\* An invocation id that is charged: the durable result answers the same
\* request, another request is a conflict.
Replayed(s, i) ==
    {[session |-> s, key |-> i, event |-> c.by] : c \in
        {d \in SameId(sessions[s], i) : d.key = i /\ d.by \in Durable(s, i)}}

StartRecall(p, s, i) ==
    /\ pc[p] = "idle" /\ CanRead(s)
    /\ IF SameId(sessions[s], i) # {}
       THEN answers' = answers \cup Replayed(s, i) /\ UNCHANGED <<pc, task>>
       ELSE /\ Cardinality(Recalls(sessions[s])) < MaxRecalls
            /\ RecallBudget <= sessions[s].remaining
            /\ Begin(p, "admitted", Call(s, i, None, sessions[s].remaining, FALSE, FALSE))
            /\ UNCHANGED answers
    /\ UNCHANGED <<sessions, results, indexed, rows, gate, reading, custody, faults>>

Obtain(p) ==
    /\ pc[p] = "admitted"
    /\ LET durable == Durable(Session(p), task[p].key) IN
       \E r \in (IF durable # {} THEN durable ELSE Results) :
          task' = [task EXCEPT ![p].by = r]
    /\ Go(p, "obtained")
    /\ UNCHANGED <<sessions, results, indexed, rows, gate, reading, custody, answers, faults>>

RecallFits(p) ==
    /\ Cardinality(Recalls(File(p))) < MaxRecalls
    /\ File(p).remaining = task[p].before
    /\ Spend[task[p].by] <= File(p).remaining
    /\ Cardinality(File(p).pending) + Lifecycle <= MaxPending
    /\ Durable(Session(p), task[p].key) \subseteq {task[p].by}

\* The result is made durable before the session is debited.
Persist(p) ==
    /\ pc[p] = "obtained" /\ custody = None /\ CanRead(Session(p))
    /\ IF SameId(File(p), task[p].key) = {} /\ RecallFits(p)
       THEN /\ results' = results \cup
                   {[session |-> Session(p), key |-> task[p].key, by |-> task[p].by]}
            /\ custody' = p /\ Go(p, "persisted")
            /\ UNCHANGED <<task, answers>>
       ELSE /\ answers' = answers \cup Replayed(Session(p), task[p].key)
            /\ Return(p) /\ UNCHANGED results
    /\ UNCHANGED <<sessions, indexed, rows, gate, reading, faults>>

Save(p) ==
    /\ pc[p] = "persisted"
    /\ sessions' = [sessions EXCEPT ![Session(p)] = Debit(p, File(p))]
    /\ Go(p, "committed")
    /\ UNCHANGED <<results, indexed, rows, gate, reading, custody, task, answers, faults>>

----------------------------------------------------------------------------
(* The end of both: publish, clear, answer.                                *)

Publish(p) ==
    /\ pc[p] = "committed" /\ IngestFree
    /\ Surface(Own(p))
    /\ Go(p, "published")
    /\ UNCHANGED <<sessions, results, gate, reading, custody, task, answers, faults>>

ClearOutbox(p) ==
    /\ pc[p] = "published" /\ IngestFree
    /\ sessions' = [sessions EXCEPT ![Session(p)].pending = @ \ Own(p)]
    /\ IF Own(p) \subseteq rows \/ ~IsBundle(task[p].key)
       THEN Answer(p, {task[p].by}) ELSE UNCHANGED answers
    /\ Return(p)
    /\ UNCHANGED <<results, indexed, rows, gate, reading, faults>>

----------------------------------------------------------------------------
(* Feedback and outcomes name interventions, and are checked against them  *)
(* outside the lock under which they are written.                          *)

\* Without a reference only the session is looked at.
MutantResolves(s, about) == about # None => about.session = s
Resolves(s, about) == about # None => about.session = s /\ Emitted(about) # {}

StartFeedback(p, s, about) ==
    /\ pc[p] = "idle" /\ CanRead(s)
    /\ Cardinality({r \in rows : r.kind = "feedback"}) < MaxFeedback
    /\ Resolves(s, about)
    /\ Begin(p, "asserting", Call(s, about, None, 0, FALSE, FALSE))
    /\ UNCHANGED <<sessions, results, indexed, rows, gate, reading, custody, answers, faults>>

WriteFeedback(p) ==
    /\ pc[p] = "asserting" /\ IngestFree
    /\ Surface({Record(p, "feedback")})
    /\ Return(p)
    /\ UNCHANGED <<sessions, results, gate, reading, answers, faults>>

----------------------------------------------------------------------------
(* A call that ends without an answer.  Batches are indexed one by one, in *)
(* their order, and the rows of one in a transaction after its own.        *)

MutantPrefixes(batches) == SUBSET batches

Prefixes(batches) ==
    {d \in SUBSET batches : \A b \in d, a \in batches :
        (a.session = b.session /\ a.key = b.key /\ a.part < b.part) => a \in d}

CutShort ==
    \E done \in Prefixes(AllPublishable) :
       /\ rows' = Projected(done)
       /\ \E b \in AllPublishable :
             /\ done \cup {b} \in Prefixes(AllPublishable)
             /\ indexed' = indexed \cup done \cup {b}

Fault(p) ==
    /\ pc[p] # "idle" /\ faults < MaxFaults
    /\ \/ IngestFree /\ CutShort
       \/ UNCHANGED <<indexed, rows>>
    /\ Return(p) /\ faults' = faults + 1
    /\ UNCHANGED <<sessions, results, gate, reading, answers>>

\* A reader that ends between its two halves.
ReaderFault ==
    /\ reading # {} /\ faults < MaxFaults
    /\ reading' = {} /\ faults' = faults + 1
    /\ UNCHANGED <<sessions, results, indexed, rows, gate, custody, pc, task, answers>>

----------------------------------------------------------------------------

Step(p) ==
    \/ Missing(p)
    \/ Reserve(p) \/ Render(p) \/ RecordRendered(p)
    \/ Deny(p) \/ Redeliver(p) \/ Stage(p) \/ CommitBundle(p) \/ AnswerCommitted(p)
    \/ Obtain(p) \/ Persist(p) \/ Save(p)
    \/ Publish(p) \/ ClearOutbox(p)
    \/ WriteFeedback(p)

Start(p) ==
    \/ \E s \in Sessions : \/ \E t \in Tasks : StartPrepare(p, s, t)
                           \/ \E i \in Invocation : StartRecall(p, s, i)
                           \/ \E about \in Prepared \cup {None} : StartFeedback(p, s, about)
    \/ \E b \in Prepared : StartConfirm(p, b)

Next ==
    \/ \E p \in Procs : Step(p) \/ Start(p) \/ Fault(p)
    \/ \E s \in Sessions : OpenSession(s)
    \/ \E g \in Gates : Authorize(g)
    \/ ReadEvents \/ FinishReading \/ ReaderFault

Spec == Init /\ [][Next]_vars

\* A running call takes its next step, and somebody keeps reading events.
FairSpec == Spec /\ (\A p \in Procs : WF_vars(Step(p)))
            /\ WF_vars(ReadEvents) /\ WF_vars(FinishReading)

----------------------------------------------------------------------------
(* Properties.                                                             *)

TypeOK ==
    /\ sessions \in [Sessions -> SessionFile \cup {None}]
    /\ results \subseteq [session : Sessions, key : Invocation, by : Results]
    /\ indexed \subseteq Batch /\ rows \subseteq indexed
    /\ reading \subseteq rows
    /\ gate \in Gates \cup {None} /\ custody \in Procs \cup {None}
    /\ pc \in [Procs -> Steps] /\ task \in [Procs -> Task]
    /\ faults \in 0 .. MaxFaults

\* The budget of a session and the prices of what it was charged for add up
\* to what it was opened with, and nothing is overdrawn, whoever raced and
\* whatever was cut short.
BudgetAddsUp ==
    \A s \in Sessions : sessions[s] # None =>
        /\ sessions[s].remaining >= 0
        /\ sessions[s].remaining + MapThenSumSet(Price, sessions[s].charged) = Total

\* A delivery or a recall that shows in the projection was charged, by the
\* very call that it shows (the debit comes before the publication).
ShownIsCharged ==
    \A r \in rows : r.kind \in {"emitted", "recall"} =>
        /\ sessions[r.session] # None
        /\ [kind |-> r.kind, key |-> r.key, by |-> r.by] \in sessions[r.session].charged

\* What was charged is in the projection or in the outbox from which any
\* reader publishes it, and the result of a recall is durable.
ChargedIsRecoverable ==
    \A s \in Sessions : sessions[s] # None =>
        \A c \in sessions[s].charged :
            /\ BatchesOf(s, c) \subseteq rows \cup Publishable(s)
            /\ c.kind = "recall" => [session |-> s, key |-> c.key, by |-> c.by] \in results

\* A recall never shows a later event of its life without the earlier ones.
LifecycleInOrder ==
    \A r \in rows : r.kind = "recall" =>
        \A i \in 1 .. r.part : [r EXCEPT !.part = i] \in rows

\* All calls that are answered for the same request are answered the same,
\* and with something that was charged.
AnswersAgree ==
    /\ \A a, b \in answers : a.session = b.session /\ a.key = b.key => a.event = b.event
    /\ \A a \in answers :
          /\ sessions[a.session] # None
          /\ \E c \in sessions[a.session].charged : c.key = a.key /\ c.by = a.event

\* Feedback that names an exposure belongs to a session that was charged for
\* it, though the session is looked at outside the lock under which it is written.
FeedbackResolves ==
    \A r \in rows : r.kind = "feedback" /\ r.key # None =>
        sessions[r.session] # None /\ Charged(sessions[r.session], r.key)

\* No sequence of calls takes a session past a limit for which the next read
\* would reject it.
SessionsReadable == \A s \in Sessions : sessions[s] # None => Readable(sessions[s])

\* A bundle is charged only while the gate that it was prepared for is the
\* authorized one.
ChargedUnderItsGate ==
    [][\A s \in Sessions : sessions[s] # None /\ sessions'[s] # None =>
          \A c \in sessions'[s].charged \ sessions[s].charged :
             c.kind = "emitted" => c.key.gate = gate /\ gate' = gate]_vars

\* Whatever is charged shows in the end, though nobody answers its caller.
ChargedShows ==
    []<>(\A s \in Sessions : sessions[s] # None =>
            \A c \in sessions[s].charged : BatchesOf(s, c) \subseteq rows)

Book == [s \in Sessions |-> IF sessions[s] = None THEN None
            ELSE [remaining |-> sessions[s].remaining, charged |-> sessions[s].charged]]
Shown == {x \in Sessions \X Charge : BatchesOf(x[1], x[2]) \subseteq rows}
Clash(c, d) == c.kind = d.kind /\ (IF c.kind = "recall" THEN c.key.id = d.key.id ELSE c.key = d.key)

Budget == INSTANCE SessionBudget WITH book <- Book, shown <- Shown
\* The sessions implement a budget that takes each charge once and shows
\* only what it took.
BudgetSpec == Budget!Spec

=============================================================================
