----------------------- MODULE ContextDeliveryProofs -----------------------
(***************************************************************************)
(* Proofs about ContextDelivery, for every set of processes, sessions,     *)
(* tasks, gates and invocations, every budget, cost and limit and however  *)
(* many calls end without an answer: what the projection shows was         *)
(* charged, what was charged can be recovered, all answers to a request    *)
(* agree, the sessions implement SessionBudget, what a session has used is *)
(* the sum of what its bundles cost, each charged under its own gate, and  *)
(* no file outgrows the bounds that its reader tests.                      *)
(***************************************************************************)
EXTENDS ContextDelivery, FiniteSums

\* The steps that are taken under the finalization lock.
Holding == {"staged", "answering", "persisted", "committed", "published"}

HoldersExclude == \A p \in Procs : pc[p] \in Holding => custody = p

\* What a call works on at its steps.
CallsTyped ==
    \A p \in Procs :
       /\ pc[p] # "idle" => Session(p) \in Sessions
       /\ pc[p] \in {"reserving", "rendering", "proposed", "validated", "staged", "answering"} =>
             task[p].key \in Bundle /\ task[p].key.session = Session(p)
       /\ pc[p] \in {"validated", "staged", "answering"} => task[p].by \in Procs
       /\ pc[p] \in {"admitted", "obtained", "persisted"} => task[p].key \in Invocation
       /\ pc[p] \in {"obtained", "persisted"} => task[p].by \in Results

RenderedBundles == \A r \in rows : r.kind = "rendered" => r.key \in Bundle

\* What a call relies on at its steps.
CallsKnow ==
    \A p \in Procs :
       /\ pc[p] = "persisted" =>
             /\ File(p) # None /\ SameId(File(p), task[p].key) = {}
             /\ Spend[task[p].by] <= File(p).remaining
             /\ [session |-> Session(p), key |-> task[p].key, by |-> task[p].by] \in results
       /\ pc[p] \in {"committed", "published"} =>
             File(p) # None /\ ChargeOf(p) \in File(p).charged
       /\ pc[p] = "published" => Own(p) \subseteq rows
       /\ pc[p] = "asserting" /\ task[p].key # None =>
             File(p) # None /\ Charged(File(p), task[p].key)

ChargedOnce ==
    \A s \in Sessions : sessions[s] # None =>
        /\ \A c, d \in sessions[s].charged : Clash(c, d) => c = d
        /\ \A c \in sessions[s].charged : c.kind = "emitted" => c.key.session = s

\* The batches of a charge are in the projection or all in the outbox.
BatchesKept ==
    \A s \in Sessions : sessions[s] # None =>
        \A c \in sessions[s].charged :
            /\ BatchesOf(s, c) \subseteq rows \/ BatchesOf(s, c) \subseteq sessions[s].pending
            /\ c.kind = "recall" => [session |-> s, key |-> c.key, by |-> c.by] \in results

\* A reader clears the batches of a charge only when all of them are shown.
ReadingShown ==
    \A s \in Sessions : sessions[s] # None =>
        \A c \in sessions[s].charged :
            BatchesOf(s, c) \cap reading # {} => BatchesOf(s, c) \subseteq rows

AnswersCharged ==
    \A a \in answers :
        /\ a.session \in Sessions /\ a.key \in Bundle \cup Invocation
        /\ sessions[a.session] # None
        /\ \E c \in sessions[a.session].charged : c.key = a.key /\ c.by = a.event

DeliveryInv ==
    /\ TypeOK /\ HoldersExclude /\ CallsTyped /\ RenderedBundles /\ CallsKnow
    /\ ShownIsCharged /\ ChargedOnce /\ BatchesKept /\ ReadingShown
    /\ AnswersCharged /\ FeedbackResolves /\ LifecycleInOrder

-----------------------------------------------------------------------------
(* Charges and their batches.                                              *)

LEMMA ChargeShape ==
    ASSUME NEW c \in Charge
    PROVE  /\ c = [kind |-> c.kind, key |-> c.key, by |-> c.by]
           /\ c.kind = "emitted" => c.key \in Bundle /\ c.by \in Procs
           /\ c.kind = "recall" => c.key \in Invocation /\ c.by \in Results
           /\ c.kind \in {"emitted", "recall"} /\ 1 \in Parts(c.kind)
           /\ Parts(c.kind) \subseteq 1 .. Lifecycle
           /\ Price(c) \in Nat
  BY DeliveryAssumption DEF DeliveryAssumption, Charge, Price, Parts, Bundle

LEMMA BatchesShape ==
    ASSUME NEW s \in Sessions, NEW c \in Charge
    PROVE  /\ BatchesOf(s, c) \subseteq Batch /\ BatchesOf(s, c) # {}
           /\ \A b \in BatchesOf(s, c) :
                /\ b.session = s /\ b.kind = c.kind /\ b.key = c.key /\ b.by = c.by
                /\ b.part \in Parts(c.kind)
                /\ c = [kind |-> b.kind, key |-> b.key, by |-> b.by]
<1>1. /\ c.kind \in {"emitted", "recall"} /\ c.key \in Bundle \cup Invocation
      /\ c.by \in Procs \cup Results /\ 1 \in Parts(c.kind)
      /\ Parts(c.kind) \subseteq 1 .. Lifecycle
      /\ c = [kind |-> c.kind, key |-> c.key, by |-> c.by]
  BY ChargeShape
<1>2. BatchesOf(s, c) # {}
  BY <1>1 DEF BatchesOf
<1>3. ASSUME NEW b \in BatchesOf(s, c)
      PROVE  /\ b \in Batch /\ b.session = s /\ b.kind = c.kind /\ b.key = c.key
             /\ b.by = c.by /\ b.part \in Parts(c.kind)
  <2>1. PICK i \in Parts(c.kind) :
           b = [session |-> s, kind |-> c.kind, key |-> c.key, by |-> c.by, part |-> i]
    BY DEF BatchesOf
  <2> QED
    BY <1>1, <2>1 DEF Batch
<1> QED
  BY <1>1, <1>2, <1>3

LEMMA SameEventSame ==
    ASSUME TypeOK, ShownIsCharged, ChargedOnce, NEW s \in Sessions, sessions[s] # None,
           NEW c \in sessions[s].charged, NEW b \in BatchesOf(s, c), NEW r \in rows,
           SameEvent(r, b)
    PROVE  r = b
<1>1. c \in Charge /\ r \in Batch
  BY DEF TypeOK, SessionFile
<1>2. b \in Batch /\ b.session = s /\ b.kind = c.kind /\ b.key = c.key /\ b.by = c.by
  BY <1>1, BatchesShape
<1>3. r.kind \in {"emitted", "recall"} /\ r.session = s /\ r.key = c.key /\ r.kind = c.kind
  BY <1>1, <1>2, ChargeShape DEF SameEvent
<1>4. [kind |-> r.kind, key |-> r.key, by |-> r.by] \in sessions[s].charged
  BY <1>3 DEF ShownIsCharged
<1>5. [kind |-> r.kind, key |-> r.key, by |-> r.by] = c
  BY <1>3, <1>4 DEF ChargedOnce, Clash
<1>6. r.by = b.by
  BY <1>5, <1>2
<1> QED
  BY <1>1, <1>2, <1>6 DEF SameEvent, Batch

\* A publication shows every batch of the charges that it is given.
LEMMA ProjectedShows ==
    ASSUME TypeOK, ShownIsCharged, ChargedOnce, NEW s \in Sessions, sessions[s] # None,
           NEW c \in sessions[s].charged, NEW batches, NEW b \in BatchesOf(s, c), b \in batches
    PROVE  b \in Projected(batches)
  BY SameEventSame DEF Projected

LEMMA PublishableShape ==
    ASSUME TypeOK, NEW b \in AllPublishable
    PROVE  \E s \in Sessions : sessions[s] # None /\
              \E c \in sessions[s].charged :
                  b \in BatchesOf(s, c) /\ BatchesOf(s, c) \subseteq AllPublishable
<1>1. PICK s \in Sessions : sessions[s] # None /\ b \in Publishable(s)
  BY DEF AllPublishable
<1>2. PICK c \in sessions[s].charged :
         b \in BatchesOf(s, c) /\ BatchesOf(s, c) \subseteq Publishable(s)
  BY <1>1 DEF Publishable
<1> QED
  BY <1>1, <1>2 DEF AllPublishable

LEMMA PublishableTyped == ASSUME TypeOK PROVE AllPublishable \subseteq Batch
  BY PublishableShape, BatchesShape DEF TypeOK, SessionFile

----------------------------------------------------------------------------
(* Types and what calls work on, action by action.                         *)

LEMMA ReturnTyped ==
    ASSUME TypeOK, CallsTyped, NEW p \in Procs, Return(p)
    PROVE  /\ pc' \in [Procs -> Steps] /\ task' \in [Procs -> Task]
           /\ custody' \in Procs \cup {None} /\ CallsTyped'
<1>1. NoTask \in Task
  BY DeliveryAssumption DEF DeliveryAssumption, NoTask, Call, Task
<1>2. pc' \in [Procs -> Steps] /\ task' \in [Procs -> Task] /\ custody' \in Procs \cup {None}
  BY <1>1 DEF Return, Go, TypeOK, Steps
<1>3. \A q \in Procs : q # p => pc'[q] = pc[q] /\ task'[q] = task[q]
  BY DEF Return, Go, TypeOK
<1>4. pc'[p] = "idle"
  BY DEF Return, Go, TypeOK
<1> QED
  BY <1>2, <1>3, <1>4 DEF CallsTyped, Session

LEMMA SurfaceTyped ==
    ASSUME TypeOK, NEW batches, batches \subseteq Batch, Surface(batches)
    PROVE  indexed' \subseteq Batch /\ rows' \subseteq indexed' /\ reading \subseteq rows'
           /\ rows \subseteq rows'
  BY DEF TypeOK, Surface, Projected

LEMMA RecordTyped ==
    ASSUME TypeOK, NEW p \in Procs, Session(p) \in Sessions,
           NEW kind \in {"proposed", "rendered", "failed", "feedback"}
    PROVE  {Record(p, kind)} \subseteq Batch
  BY DeliveryAssumption DEF DeliveryAssumption, TypeOK, Record, Batch, Task

LEMMA ChargeOfTyped ==
    ASSUME TypeOK, CallsTyped, NEW p \in Procs
    PROVE  /\ pc[p] = "staged" => /\ ChargeOf(p) \in Charge /\ ChargeOf(p).kind = "emitted"
                                  /\ Price(ChargeOf(p)) = Cost[task[p].key.task]
           /\ pc[p] = "persisted" => /\ ChargeOf(p) \in Charge /\ ChargeOf(p).kind = "recall"
                                     /\ Price(ChargeOf(p)) = Spend[task[p].by]
  BY DeliveryAssumption DEF DeliveryAssumption, CallsTyped, ChargeOf, Charge, IsBundle, Price

LEMMA DebitTyped ==
    ASSUME TypeOK, NEW p \in Procs, Session(p) \in Sessions, ChargeOf(p) \in Charge,
           NEW file \in SessionFile, Price(ChargeOf(p)) <= file.remaining
    PROVE  Debit(p, file) \in SessionFile
<1>1. Own(p) \subseteq Batch
  BY BatchesShape DEF Own
<1>2. file.remaining - Price(ChargeOf(p)) \in 0 .. Total
  BY ChargeShape, DeliveryAssumption DEF DeliveryAssumption, SessionFile
<1> QED
  BY <1>1, <1>2 DEF Debit, SessionFile, Own

\* What the actions that neither start nor serve a call do to the types.
LEMMA OthersTyped ==
    ASSUME TypeOK, CallsTyped, ShownIsCharged, ChargedOnce,
           \/ ReadEvents \/ FinishReading \/ ReaderFault
           \/ \E s \in Sessions : OpenSession(s)
           \/ \E g \in Gates : Authorize(g)
    PROVE  TypeOK' /\ CallsTyped'
<1> USE DeliveryAssumption DEF DeliveryAssumption
<1>1. pc' = pc /\ task' = task /\ custody' = custody
  BY DEF ReadEvents, FinishReading, ReaderFault, OpenSession, Authorize
<1>2. CallsTyped'
  BY <1>1 DEF CallsTyped, Session
<1>3. CASE ReadEvents
  <2>1. indexed' \subseteq Batch /\ rows' \subseteq indexed'
    BY <1>3, SurfaceTyped, PublishableTyped DEF ReadEvents
  <2>2. AllPublishable \subseteq rows'
    <3> SUFFICES ASSUME NEW b \in AllPublishable PROVE b \in rows'
      OBVIOUS
    <3>1. PICK s \in Sessions : sessions[s] # None /\
             (\E c \in sessions[s].charged : b \in BatchesOf(s, c))
      BY PublishableShape
    <3> QED
      BY <1>3, <3>1, ProjectedShows DEF ReadEvents, Surface
  <2> QED
    BY <1>1, <1>2, <1>3, <2>1, <2>2 DEF TypeOK, ReadEvents
<1>4. CASE FinishReading
  <2>1. sessions' \in [Sessions -> SessionFile \cup {None}]
    BY <1>4 DEF FinishReading, TypeOK, SessionFile
  <2> QED
    BY <1>1, <1>2, <1>4, <2>1 DEF TypeOK, FinishReading
<1>5. CASE ReaderFault
  BY <1>1, <1>2, <1>5 DEF TypeOK, ReaderFault
<1>6. ASSUME NEW s \in Sessions, OpenSession(s)
      PROVE  TypeOK'
  <2>1. NewSession \in SessionFile
    BY DEF NewSession, SessionFile
  <2>2. sessions' \in [Sessions -> SessionFile \cup {None}]
    BY <1>6, <2>1 DEF OpenSession, TypeOK
  <2> QED
    BY <1>1, <1>6, <2>2 DEF TypeOK, OpenSession
<1>7. ASSUME NEW g \in Gates, Authorize(g)
      PROVE  TypeOK'
  BY <1>1, <1>7 DEF TypeOK, Authorize
<1> QED
  BY <1>2, <1>3, <1>4, <1>5, <1>6, <1>7

LEMMA CallTyped ==
    ASSUME NEW s \in Sessions, NEW k \in Bundle \cup Invocation \cup {None},
           NEW by \in Procs \cup Results \cup {None}, NEW before \in 0 .. Total,
           NEW charged \in BOOLEAN, NEW room \in BOOLEAN
    PROVE  Call(s, k, by, before, charged, room) \in Task
  BY DEF Call, Task

LEMMA NoBudget == 0 \in 0 .. Total
  BY DeliveryAssumption DEF DeliveryAssumption

LEMMA PreparesTyped ==
    ASSUME TypeOK, CallsTyped, NEW p \in Procs,
           \/ \E s \in Sessions, k \in Tasks : StartPrepare(p, s, k)
           \/ Reserve(p) \/ Render(p) \/ RecordRendered(p) \/ Missing(p)
           \/ \E s \in Sessions, about \in Prepared \cup {None} : StartFeedback(p, s, about)
           \/ WriteFeedback(p)
    PROVE  TypeOK' /\ CallsTyped'
<1> USE DeliveryAssumption DEF DeliveryAssumption
<1>1. ASSUME NEW s \in Sessions, NEW k \in Tasks, StartPrepare(p, s, k)
      PROVE  TypeOK' /\ CallsTyped'
  <2> DEFINE b == [session |-> s, before |-> sessions[s].remaining, task |-> k, gate |-> gate]
  <2>1. b \in Bundle
    BY <1>1 DEF StartPrepare, CanRead, TypeOK, SessionFile, Bundle
  <2>2. Call(s, b, None, 0, FALSE, FALSE) \in Task
    BY <2>1, CallTyped, NoBudget
  <2> HIDE DEF b
  <2>3. /\ pc' = [pc EXCEPT ![p] = "reserving"]
        /\ task' = [task EXCEPT ![p] = Call(s, b, None, 0, FALSE, FALSE)]
    BY <1>1 DEF StartPrepare, Begin, Go, b
  <2>4. TypeOK'
    BY <1>1, <2>2, <2>3 DEF StartPrepare, TypeOK, Steps
  <2>5. task'[p].key = b /\ task'[p].session = s
    BY <2>3 DEF TypeOK, Call
  <2>6. b.session = s
    BY DEF b
  <2> QED
    BY <2>1, <2>3, <2>4, <2>5, <2>6 DEF CallsTyped, TypeOK, Session
<1>2. CASE Reserve(p)
  <2>1. CASE Return(p) /\ UNCHANGED sessions
    BY <1>2, <2>1, ReturnTyped DEF Reserve, TypeOK
  <2>2. CASE /\ sessions' = [sessions EXCEPT ![Session(p)].attempted = @ \cup {task[p].key}]
             /\ Go(p, "rendering") /\ UNCHANGED <<custody, task>>
    <3>1. task[p].key \in Bundle /\ Session(p) \in Sessions /\ task[p].key.session = Session(p)
      BY <1>2 DEF Reserve, CallsTyped
    <3>2. sessions' \in [Sessions -> SessionFile \cup {None}]
      BY <1>2, <2>2, <3>1 DEF TypeOK, SessionFile, Reserve, File
    <3>3. TypeOK'
      BY <1>2, <2>2, <3>2 DEF Reserve, TypeOK, Go, Steps
    <3> QED
      BY <2>2, <3>1, <3>3 DEF CallsTyped, Go, TypeOK, Session
  <2> QED
    BY <1>2, <2>1, <2>2 DEF Reserve
<1>3. CASE Render(p)
  <2>0. Session(p) \in Sessions /\ task[p].key \in Bundle /\ task[p].key.session = Session(p)
    BY <1>3 DEF Render, CallsTyped
  <2>1. CASE Surface({Record(p, "failed")}) /\ Return(p)
    BY <1>3, <2>0, <2>1, ReturnTyped, RecordTyped, SurfaceTyped DEF Render, TypeOK
  <2>2. CASE Surface({Record(p, "proposed")}) /\ Go(p, "proposed") /\ UNCHANGED <<custody, task>>
    <3>1. TypeOK'
      BY <1>3, <2>0, <2>2, RecordTyped, SurfaceTyped DEF Render, TypeOK, Go, Steps
    <3> QED
      BY <2>0, <2>2, <3>1 DEF CallsTyped, Go, TypeOK, Session
  <2> QED
    BY <1>3, <2>1, <2>2 DEF Render
<1>4. CASE RecordRendered(p)
  BY <1>4, ReturnTyped, RecordTyped, SurfaceTyped DEF RecordRendered, TypeOK, CallsTyped
<1>5. CASE Missing(p)
  BY <1>5, ReturnTyped DEF Missing, TypeOK
<1>6. ASSUME NEW s \in Sessions, NEW about \in Prepared \cup {None}, StartFeedback(p, s, about)
      PROVE  TypeOK' /\ CallsTyped'
  <2>1. about \in Bundle \cup Invocation \cup {None}
    BY DEF Prepared, TypeOK, Batch
  <2>2. Call(s, about, None, 0, FALSE, FALSE) \in Task
    BY <2>1, CallTyped, NoBudget
  <2>3. /\ pc' = [pc EXCEPT ![p] = "asserting"]
        /\ task' = [task EXCEPT ![p] = Call(s, about, None, 0, FALSE, FALSE)]
    BY <1>6 DEF StartFeedback, Begin, Go
  <2>4. TypeOK'
    BY <1>6, <2>2, <2>3 DEF StartFeedback, TypeOK, Steps
  <2>5. task'[p].session = s
    BY <2>3 DEF TypeOK, Call
  <2> QED
    BY <2>3, <2>4, <2>5 DEF CallsTyped, TypeOK, Session
<1>7. CASE WriteFeedback(p)
  BY <1>7, ReturnTyped, RecordTyped, SurfaceTyped DEF WriteFeedback, TypeOK, CallsTyped
<1> QED
  BY <1>1, <1>2, <1>3, <1>4, <1>5, <1>6, <1>7

LEMMA DeliveriesTyped ==
    ASSUME TypeOK, CallsTyped, RenderedBundles, NEW p \in Procs,
           \/ \E b \in Prepared : StartConfirm(p, b)
           \/ Deny(p) \/ Redeliver(p) \/ Stage(p) \/ CommitBundle(p) \/ AnswerCommitted(p)
    PROVE  TypeOK' /\ CallsTyped'
<1>1. ASSUME NEW b \in Prepared, StartConfirm(p, b)
      PROVE  TypeOK' /\ CallsTyped'
  <2> DEFINE call == Call(b.session, b, p, 0, Charged(sessions[b.session], b),
                          Cardinality(sessions[b.session].pending) < MaxPending)
  <2>1. b \in Bundle /\ b.session \in Sessions
    BY DEF Prepared, RenderedBundles, Bundle
  <2>2. /\ call \in Task /\ call.session = b.session /\ call.key = b /\ call.by = p
    <3>1. Charged(sessions[b.session], b) \in BOOLEAN
      BY DEF Charged
    <3>2. (Cardinality(sessions[b.session].pending) < MaxPending) \in BOOLEAN
      OBVIOUS
    <3> QED
      BY <2>1, <3>1, <3>2, CallTyped, NoBudget DEF Call
  <2>3. pc' = [pc EXCEPT ![p] = "validated"] /\ task' = [task EXCEPT ![p] = call]
    BY <1>1 DEF StartConfirm, Begin, Go
  <2> HIDE DEF call
  <2>4. TypeOK'
    BY <1>1, <2>2, <2>3 DEF StartConfirm, TypeOK, Steps
  <2> QED
    BY <2>1, <2>2, <2>3, <2>4 DEF CallsTyped, TypeOK, Session
<1>2. CASE Deny(p) \/ Redeliver(p) \/ AnswerCommitted(p)
  BY <1>2, ReturnTyped DEF Deny, Redeliver, AnswerCommitted, TypeOK
<1>3. CASE Stage(p)
  <2>1. TypeOK'
    BY <1>3 DEF Stage, TypeOK, Go, Steps
  <2> QED
    BY <1>3, <2>1 DEF CallsTyped, Stage, Go, TypeOK, Session
<1>4. CASE CommitBundle(p)
  <2>1. CASE Go(p, "answering") /\ UNCHANGED <<sessions, custody, task>>
    <3>1. TypeOK'
      BY <1>4, <2>1 DEF CommitBundle, TypeOK, Go, Steps
    <3> QED
      BY <1>4, <2>1, <3>1 DEF CallsTyped, CommitBundle, Go, TypeOK, Session
  <2>2. CASE /\ BundleFits(p) /\ sessions' = [sessions EXCEPT ![Session(p)] = Debit(p, @)]
             /\ Go(p, "committed") /\ UNCHANGED <<custody, task>>
    <3>1. Session(p) \in Sessions /\ File(p) \in SessionFile
      BY <1>4 DEF CommitBundle, CanRead, CallsTyped, TypeOK, File
    <3>2. Debit(p, File(p)) \in SessionFile
      BY <1>4, <2>2, <3>1, ChargeOfTyped, DebitTyped DEF CommitBundle, BundleFits
    <3>3. sessions' \in [Sessions -> SessionFile \cup {None}]
      BY <2>2, <3>1, <3>2 DEF TypeOK, File
    <3>4. TypeOK'
      BY <1>4, <2>2, <3>3 DEF CommitBundle, TypeOK, Go, Steps
    <3> QED
      BY <1>4, <2>2, <3>4 DEF CallsTyped, CommitBundle, Go, TypeOK, Session
  <2>3. CASE Return(p) /\ UNCHANGED sessions
    BY <1>4, <2>3, ReturnTyped DEF CommitBundle, TypeOK
  <2> QED
    BY <1>4, <2>1, <2>2, <2>3 DEF CommitBundle
<1> QED
  BY <1>1, <1>2, <1>3, <1>4

LEMMA RecallsTyped ==
    ASSUME TypeOK, CallsTyped, CallsKnow, NEW p \in Procs,
           \/ \E s \in Sessions, i \in Invocation : StartRecall(p, s, i)
           \/ Obtain(p) \/ Persist(p) \/ Save(p)
    PROVE  TypeOK' /\ CallsTyped'
<1>1. ASSUME NEW s \in Sessions, NEW i \in Invocation, StartRecall(p, s, i)
      PROVE  TypeOK' /\ CallsTyped'
  <2>1. CASE UNCHANGED <<pc, task>>
    BY <1>1, <2>1 DEF StartRecall, TypeOK, CallsTyped, Session
  <2>2. CASE Begin(p, "admitted", Call(s, i, None, sessions[s].remaining, FALSE, FALSE))
    <3>1. sessions[s].remaining \in 0 .. Total
      BY <1>1 DEF StartRecall, CanRead, TypeOK, SessionFile
    <3>2. Call(s, i, None, sessions[s].remaining, FALSE, FALSE) \in Task
      BY <3>1, CallTyped
    <3>3. TypeOK'
      BY <1>1, <2>2, <3>2 DEF StartRecall, Begin, Go, TypeOK, Steps
    <3>4. task'[p].session = s /\ task'[p].key = i /\ pc'[p] = "admitted"
      BY <2>2 DEF Begin, Go, TypeOK, Call
    <3> QED
      BY <2>2, <3>3, <3>4 DEF CallsTyped, Begin, Go, TypeOK, Session
  <2> QED
    BY <1>1, <2>1, <2>2 DEF StartRecall
<1>2. CASE Obtain(p)
  <2>1. PICK r \in Results : task' = [task EXCEPT ![p].by = r]
    BY <1>2 DEF Obtain, Durable, TypeOK
  <2>2. TypeOK'
    BY <1>2, <2>1 DEF Obtain, Go, TypeOK, Steps, Task
  <2>3. task'[p].session = task[p].session /\ task'[p].key = task[p].key /\ task'[p].by = r
    BY <2>1 DEF TypeOK, Task
  <2> QED
    BY <1>2, <2>1, <2>2, <2>3 DEF CallsTyped, Obtain, Go, TypeOK, Session
<1>3. CASE Persist(p)
  <2>1. CASE /\ results' = results \cup
                   {[session |-> Session(p), key |-> task[p].key, by |-> task[p].by]}
             /\ custody' = p /\ Go(p, "persisted") /\ UNCHANGED <<task, answers>>
    <3>1. results' \subseteq [session : Sessions, key : Invocation, by : Results]
      BY <1>3, <2>1 DEF Persist, CallsTyped, TypeOK
    <3>2. TypeOK'
      BY <1>3, <2>1, <3>1 DEF Persist, TypeOK, Go, Steps
    <3> QED
      BY <1>3, <2>1, <3>2 DEF CallsTyped, Persist, Go, TypeOK, Session
  <2>2. CASE Return(p) /\ UNCHANGED results
    BY <1>3, <2>2, ReturnTyped DEF Persist, TypeOK
  <2> QED
    BY <1>3, <2>1, <2>2 DEF Persist
<1>4. CASE Save(p)
  <2>1. Session(p) \in Sessions /\ File(p) \in SessionFile
    BY <1>4 DEF Save, CallsTyped, CallsKnow, TypeOK, File
  <2>2. Debit(p, File(p)) \in SessionFile
    BY <1>4, <2>1, ChargeOfTyped, DebitTyped DEF Save, CallsKnow
  <2>3. sessions' \in [Sessions -> SessionFile \cup {None}]
    BY <1>4, <2>1, <2>2 DEF Save, TypeOK
  <2>4. TypeOK'
    BY <1>4, <2>3 DEF Save, TypeOK, Go, Steps
  <2> QED
    BY <1>4, <2>4 DEF CallsTyped, Save, Go, TypeOK, Session
<1> QED
  BY <1>1, <1>2, <1>3, <1>4

LEMMA EndsTyped ==
    ASSUME TypeOK, CallsTyped, CallsKnow, ShownIsCharged, ChargedOnce, NEW p \in Procs,
           Publish(p) \/ ClearOutbox(p) \/ Fault(p)
    PROVE  TypeOK' /\ CallsTyped'
<1> USE DeliveryAssumption DEF DeliveryAssumption
<1>1. CASE Publish(p)
  <2>1. Session(p) \in Sessions /\ ChargeOf(p) \in Charge
    BY <1>1 DEF Publish, CallsTyped, CallsKnow, TypeOK, SessionFile, File
  <2>2. Own(p) \subseteq Batch
    BY <2>1, BatchesShape DEF Own
  <2>3. TypeOK'
    BY <1>1, <2>2, SurfaceTyped DEF Publish, TypeOK, Go, Steps
  <2> QED
    BY <1>1, <2>1, <2>3 DEF CallsTyped, Publish, Go, TypeOK, Session
<1>2. CASE ClearOutbox(p)
  <2>1. Session(p) \in Sessions /\ File(p) \in SessionFile
    BY <1>2 DEF ClearOutbox, CallsTyped, CallsKnow, TypeOK, File
  <2>2. sessions' \in [Sessions -> SessionFile \cup {None}]
    BY <1>2, <2>1 DEF ClearOutbox, TypeOK, SessionFile, File
  <2> QED
    BY <1>2, <2>2, ReturnTyped DEF ClearOutbox, TypeOK
<1>3. CASE Fault(p)
  <2>1. indexed' \subseteq Batch /\ rows' \subseteq indexed' /\ rows \subseteq rows'
    <3>1. CASE UNCHANGED <<indexed, rows>>
      BY <3>1 DEF TypeOK
    <3>2. CASE CutShort
      <4>1. PICK done \in Prefixes(AllPublishable) :
              /\ rows' = Projected(done)
              /\ \E b \in AllPublishable : indexed' = indexed \cup done \cup {b}
        BY <3>2 DEF CutShort
      <4>2. done \subseteq AllPublishable
        BY DEF Prefixes
      <4> QED
        BY <4>1, <4>2, PublishableTyped DEF TypeOK, Projected
    <3> QED
      BY <1>3, <3>1, <3>2 DEF Fault
  <2>2. faults' \in 0 .. MaxFaults
    BY <1>3 DEF Fault, TypeOK
  <2> QED
    BY <1>3, <2>1, <2>2, ReturnTyped DEF Fault, TypeOK
<1> QED
  BY <1>1, <1>2, <1>3

LEMMA TypeNext ==
    ASSUME DeliveryInv, Next
    PROVE  TypeOK' /\ CallsTyped'
<1> USE DEF DeliveryInv
<1>1. ASSUME NEW p \in Procs, Step(p) \/ Start(p) \/ Fault(p)
      PROVE  TypeOK' /\ CallsTyped'
  <2>1. CASE Step(p)
    BY <2>1, PreparesTyped, DeliveriesTyped, RecallsTyped, EndsTyped DEF Step
  <2>2. CASE Start(p)
    BY <2>2, PreparesTyped, DeliveriesTyped, RecallsTyped DEF Start
  <2> QED
    BY <1>1, <2>1, <2>2, EndsTyped
<1>2. CASE ReadEvents \/ FinishReading \/ ReaderFault
           \/ (\E s \in Sessions : OpenSession(s)) \/ (\E g \in Gates : Authorize(g))
  BY <1>2, OthersTyped
<1> QED
  BY <1>1, <1>2 DEF Next

LEMMA DeliveryInit == Init => DeliveryInv
<1> SUFFICES ASSUME Init PROVE DeliveryInv
  OBVIOUS
<1> USE DeliveryAssumption DEF DeliveryAssumption, Init
<1>1. NoTask \in Task
  BY DEF NoTask, Call, Task
<1>2. TypeOK
  BY <1>1 DEF TypeOK, Steps
<1>3. HoldersExclude /\ CallsTyped /\ CallsKnow /\ RenderedBundles /\ AnswersCharged
  BY DEF HoldersExclude, CallsTyped, CallsKnow, RenderedBundles, AnswersCharged, Holding
<1>4. ShownIsCharged /\ ChargedOnce /\ BatchesKept /\ ReadingShown
      /\ FeedbackResolves /\ LifecycleInOrder
  BY DEF ShownIsCharged, ChargedOnce, BatchesKept, ReadingShown, FeedbackResolves,
         LifecycleInOrder
<1> QED
  BY <1>2, <1>3, <1>4 DEF DeliveryInv

----------------------------------------------------------------------------
(* What a step does to a session file, to the rows and to the calls.       *)

LEMMA SessionsWritten ==
    ASSUME Next
    PROVE  \/ sessions' = sessions
           \/ FinishReading \/ \E s \in Sessions : OpenSession(s)
           \/ \E p \in Procs : Reserve(p) \/ CommitBundle(p) \/ Save(p) \/ ClearOutbox(p)
<1>1. ASSUME NEW p \in Procs, Step(p)
      PROVE  sessions' = sessions \/ Reserve(p) \/ CommitBundle(p) \/ Save(p) \/ ClearOutbox(p)
  BY <1>1 DEF Step, Missing, Render, RecordRendered, Deny, Redeliver, Stage, AnswerCommitted,
              Obtain, Persist, Publish, WriteFeedback
<1>2. ASSUME NEW p \in Procs, Start(p) \/ Fault(p)
      PROVE  sessions' = sessions
  BY <1>2 DEF Start, Fault, StartPrepare, StartRecall, StartFeedback, StartConfirm
<1> QED
  BY <1>1, <1>2 DEF Next, Authorize, ReadEvents, ReaderFault

\* The file keeps what it is charged for; of its outbox only batches that are
\* shown are cleared.
Kept(s) ==
    /\ sessions[s] # None /\ sessions'[s] # None
    /\ sessions'[s].charged = sessions[s].charged
    /\ sessions'[s].remaining = sessions[s].remaining
    /\ \A b \in sessions[s].pending \ sessions'[s].pending :
          \/ b \in reading
          \/ \E p \in Procs : pc[p] = "published" /\ Session(p) = s /\ b \in Own(p)

Debited(s, p) ==
    /\ pc[p] \in {"staged", "persisted"} /\ Session(p) = s
    /\ sessions[s] # None /\ sessions'[s] = Debit(p, sessions[s])
    /\ ChargeOf(p) \in Charge /\ Price(ChargeOf(p)) <= sessions[s].remaining
    /\ \A c \in sessions[s].charged : ~Clash(c, ChargeOf(p)) /\ ~Clash(ChargeOf(p), c)
    /\ ChargeOf(p).kind = "emitted" => ChargeOf(p).key.session = s
    /\ ChargeOf(p).kind = "recall" =>
          [session |-> s, key |-> ChargeOf(p).key, by |-> ChargeOf(p).by] \in results
    /\ UNCHANGED <<rows, results, reading>>

Evicted(s) ==
    /\ Reclaimable(s) /\ sessions'[s] = None /\ IngestFree
    /\ UNCHANGED <<rows, results, reading, pc, task, answers>>

Opened(s) ==
    /\ sessions[s] = None /\ sessions'[s] = NewSession
    /\ UNCHANGED <<rows, results, reading, pc, task, answers>>

LEMMA BundleDebited ==
    ASSUME DeliveryInv, NEW p \in Procs, CommitBundle(p), NEW s \in Sessions,
           sessions[s] # sessions'[s]
    PROVE  Debited(s, p)
<1>1. /\ pc[p] = "staged" /\ File(p) # None /\ ~Charged(File(p), task[p].key) /\ BundleFits(p)
      /\ sessions' = [sessions EXCEPT ![Session(p)] = Debit(p, @)]
      /\ UNCHANGED <<rows, results, reading>>
  BY DEF CommitBundle, CanRead, File
<1>2. s = Session(p) /\ sessions'[s] = Debit(p, sessions[s]) /\ sessions[s] # None
  BY <1>1 DEF DeliveryInv, TypeOK, File
<1>3. ChargeOf(p) \in Charge /\ ChargeOf(p).kind = "emitted" /\ ChargeOf(p).key = task[p].key
  BY <1>1, ChargeOfTyped DEF DeliveryInv, ChargeOf
<1>4. Price(ChargeOf(p)) <= sessions[s].remaining
  BY <1>1, <1>2, ChargeOfTyped DEF DeliveryInv, BundleFits, File
<1>5. \A c \in sessions[s].charged : ~Clash(c, ChargeOf(p)) /\ ~Clash(ChargeOf(p), c)
  BY <1>1, <1>2, <1>3 DEF Charged, Clash, File
<1>6. ChargeOf(p).key.session = s
  BY <1>1, <1>2, <1>3 DEF DeliveryInv, CallsTyped
<1> QED
  BY <1>1, <1>2, <1>3, <1>4, <1>5, <1>6 DEF Debited

LEMMA RecallDebited ==
    ASSUME DeliveryInv, NEW p \in Procs, Save(p), NEW s \in Sessions,
           sessions[s] # sessions'[s]
    PROVE  Debited(s, p)
<1>1. /\ pc[p] = "persisted" /\ sessions' = [sessions EXCEPT ![Session(p)] = Debit(p, File(p))]
      /\ UNCHANGED <<rows, results, reading>>
  BY DEF Save
<1>2. s = Session(p) /\ sessions'[s] = Debit(p, sessions[s])
  BY <1>1 DEF DeliveryInv, TypeOK, File
<1>3. /\ ChargeOf(p) \in Charge /\ ChargeOf(p).kind = "recall"
      /\ ChargeOf(p).key = task[p].key /\ ChargeOf(p).by = task[p].by
      /\ Price(ChargeOf(p)) = Spend[task[p].by]
  BY <1>1, ChargeOfTyped DEF DeliveryInv, ChargeOf
<1>4. /\ sessions[s] # None /\ SameId(sessions[s], task[p].key) = {}
      /\ Spend[task[p].by] <= sessions[s].remaining
      /\ [session |-> s, key |-> task[p].key, by |-> task[p].by] \in results
  BY <1>1, <1>2 DEF DeliveryInv, CallsKnow, File
<1>5. \A c \in sessions[s].charged : ~Clash(c, ChargeOf(p)) /\ ~Clash(ChargeOf(p), c)
  BY <1>3, <1>4 DEF SameId, Recalls, Clash
<1> QED
  BY <1>1, <1>2, <1>3, <1>4, <1>5 DEF Debited

LEMMA KeptWrites ==
    ASSUME DeliveryInv, NEW s \in Sessions,
           FinishReading \/ \E p \in Procs : Reserve(p) \/ ClearOutbox(p)
    PROVE  (sessions[s] = None /\ sessions'[s] = None) \/ Kept(s)
<1>1. CASE sessions'[s] = sessions[s]
  BY <1>1 DEF Kept
<1>2. ASSUME FinishReading
      PROVE  (sessions[s] = None /\ sessions'[s] = None) \/ Kept(s)
  <2>1. CASE sessions[s] = None
    BY <1>2, <2>1 DEF FinishReading
  <2>2. CASE sessions[s] # None
    <3>1. sessions'[s] = [sessions[s] EXCEPT !.pending = @ \ reading]
      BY <1>2, <2>2 DEF FinishReading
    <3>2. sessions[s] \in SessionFile
      BY <2>2 DEF DeliveryInv, TypeOK
    <3>3. sessions'[s] \in SessionFile
      BY <3>1, <3>2 DEF SessionFile
    <3>4. sessions'[s] # None
      BY <3>3, DeliveryAssumption DEF DeliveryAssumption
    <3> QED
      BY <2>2, <3>1, <3>2, <3>4 DEF Kept, SessionFile
  <2> QED
    BY <2>1, <2>2
<1>3. ASSUME NEW p \in Procs, Reserve(p), sessions[s] # sessions'[s]
      PROVE  Kept(s)
  <2>1. s = Session(p) /\ sessions[s] # None
    BY <1>3 DEF Reserve, DeliveryInv, TypeOK, File
  <2>2. sessions'[s] = [sessions[s] EXCEPT !.attempted = @ \cup {task[p].key}]
    BY <1>3, <2>1 DEF Reserve, DeliveryInv, TypeOK
  <2>3. sessions[s] \in SessionFile /\ task[p].key \in Bundle
    BY <1>3, <2>1 DEF DeliveryInv, TypeOK, CallsTyped, Reserve
  <2>4. sessions'[s] \in SessionFile
    BY <2>2, <2>3 DEF SessionFile
  <2>5. sessions'[s] # None
    BY <2>4, DeliveryAssumption DEF DeliveryAssumption
  <2> QED
    BY <1>3, <2>1, <2>2, <2>3, <2>5 DEF Kept, SessionFile
<1>4. ASSUME NEW p \in Procs, ClearOutbox(p), sessions[s] # sessions'[s]
      PROVE  Kept(s)
  <2>1. s = Session(p) /\ sessions[s] # None
    BY <1>4 DEF ClearOutbox, DeliveryInv, CallsKnow, TypeOK, File
  <2>2. sessions'[s] = [sessions[s] EXCEPT !.pending = @ \ Own(p)]
    BY <1>4, <2>1 DEF ClearOutbox, DeliveryInv, TypeOK
  <2>3. sessions[s] \in SessionFile
    BY <2>1 DEF DeliveryInv, TypeOK
  <2>4. sessions'[s] \in SessionFile
    BY <2>2, <2>3 DEF SessionFile
  <2>5. sessions'[s] # None
    BY <2>4, DeliveryAssumption DEF DeliveryAssumption
  <2> QED
    BY <1>4, <2>1, <2>2, <2>3, <2>5 DEF Kept, ClearOutbox, SessionFile
<1> QED
  BY <1>1, <1>2, <1>3, <1>4

LEMMA FileStep ==
    ASSUME DeliveryInv, Next, NEW s \in Sessions
    PROVE  \/ sessions[s] = None /\ sessions'[s] = None
           \/ Kept(s) \/ Evicted(s) \/ Opened(s)
           \/ \E p \in Procs : Debited(s, p)
<1>1. CASE sessions'[s] = sessions[s]
  BY <1>1 DEF Kept
<1>2. ASSUME NEW x \in Sessions, OpenSession(x), sessions[s] # sessions'[s]
      PROVE  Evicted(s) \/ Opened(s)
  BY <1>2 DEF OpenSession, Evicted, Opened, Reclaimable, DeliveryInv, TypeOK
<1> QED
  BY <1>1, <1>2, SessionsWritten, KeptWrites, BundleDebited, RecallDebited

\* What is charged stays charged.
LEMMA ChargesStay ==
    ASSUME DeliveryInv, Next, NEW s \in Sessions, sessions[s] # None,
           NEW c \in sessions[s].charged
    PROVE  sessions'[s] # None /\ c \in sessions'[s].charged
<1>1. CASE Kept(s)
  BY <1>1 DEF Kept
<1>2. CASE Evicted(s)
  BY <1>2 DEF Evicted, Reclaimable, NewSession
<1>3. ASSUME NEW p \in Procs, Debited(s, p)
      PROVE  sessions'[s] # None /\ c \in sessions'[s].charged
  <2>1. sessions[s] \in SessionFile
    BY DEF DeliveryInv, TypeOK
  <2>2. Debit(p, sessions[s]) \in SessionFile
    BY <1>3, <2>1, DebitTyped DEF Debited, DeliveryInv
  <2> QED
    <3>1. sessions'[s] = Debit(p, sessions[s])
      BY <1>3 DEF Debited
    <3>2. sessions'[s] # None
      BY <2>2, <3>1, DeliveryAssumption DEF DeliveryAssumption
    <3>3. sessions'[s].charged = sessions[s].charged \cup {ChargeOf(p)}
      BY <2>1, <3>1 DEF Debit, SessionFile
    <3> QED
      BY <3>2, <3>3
<1> QED
  BY <1>1, <1>2, <1>3, FileStep DEF Opened

LEMMA ChargesComeFrom ==
    ASSUME DeliveryInv, Next, NEW s \in Sessions, sessions'[s] # None,
           NEW c \in sessions'[s].charged
    PROVE  \/ sessions[s] # None /\ c \in sessions[s].charged
           \/ \E p \in Procs : Debited(s, p) /\ c = ChargeOf(p)
<1>1. ASSUME NEW p \in Procs, Debited(s, p)
      PROVE  c \in sessions[s].charged \/ c = ChargeOf(p)
  <2>1. sessions[s] \in SessionFile
    BY <1>1 DEF DeliveryInv, TypeOK, Debited
  <2> QED
    BY <1>1, <2>1 DEF Debited, Debit, SessionFile
<1> QED
  BY <1>1, FileStep DEF Opened, Kept, Evicted, NewSession, Debited

LEMMA ResultsStay == ASSUME Next PROVE results \subseteq results'
<1>1. ASSUME NEW p \in Procs, Step(p) PROVE results \subseteq results'
  <2>1. CASE Persist(p)
    BY <2>1 DEF Persist
  <2>2. CASE ~Persist(p)
    BY <1>1, <2>2, SMTT(30) DEF Step, Missing, Reserve, Render, RecordRendered, Deny, Redeliver,
       Stage, CommitBundle, AnswerCommitted, Obtain, Save, Publish, ClearOutbox, WriteFeedback
  <2> QED
    BY <2>1, <2>2
<1>2. ASSUME NEW p \in Procs, Start(p) \/ Fault(p) PROVE UNCHANGED results
  BY <1>2 DEF Start, Fault, StartPrepare, StartRecall, StartFeedback, StartConfirm
<1>3. CASE ~\E p \in Procs : Step(p) \/ Start(p) \/ Fault(p)
  BY <1>3 DEF Next, OpenSession, Authorize, ReadEvents, FinishReading, ReaderFault
<1> QED
  BY <1>1, <1>2, <1>3

\* Where the rows of a step come from: a publication shows batches of charges,
\* in the order of a recall's life; everything else is a record of a call.
Published(r) ==
    \E s \in Sessions : sessions[s] # None /\
       \E c \in sessions[s].charged :
          /\ r \in BatchesOf(s, c)
          /\ \A b \in BatchesOf(s, c) : b.part < r.part => b \in rows'
Recorded(r) ==
    \E p \in Procs :
       \/ r = Record(p, "proposed") \/ r = Record(p, "failed")
       \/ pc[p] = "proposed" /\ r = Record(p, "rendered")
       \/ pc[p] = "asserting" /\ r = Record(p, "feedback")

LEMMA RowsComeFrom ==
    ASSUME DeliveryInv, Next
    PROVE  /\ rows \subseteq rows'
           /\ \A r \in rows' \ rows : Published(r) \/ Recorded(r)
<1> USE DEF DeliveryInv
<1>1. ASSUME rows' = rows
      PROVE  /\ rows \subseteq rows'
             /\ \A r \in rows' \ rows : Published(r) \/ Recorded(r)
  BY <1>1
<1>2. ASSUME ReadEvents
      PROVE  /\ rows \subseteq rows'
             /\ \A r \in rows' \ rows : Published(r)
  <2>1. rows' = Projected(AllPublishable)
    BY <1>2 DEF ReadEvents, Surface
  <2>2. ASSUME NEW r \in AllPublishable
        PROVE  Published(r)
    <3>1. PICK s \in Sessions : sessions[s] # None /\
             \E c \in sessions[s].charged :
                r \in BatchesOf(s, c) /\ BatchesOf(s, c) \subseteq AllPublishable
      BY PublishableShape
    <3> QED
      BY <2>1, <3>1, ProjectedShows DEF Published
  <2> QED
    BY <2>1, <2>2 DEF Projected
<1>3. ASSUME NEW p \in Procs, Publish(p)
      PROVE  /\ rows \subseteq rows'
             /\ \A r \in rows' \ rows : Published(r)
  <2>1. rows' = Projected(Own(p))
    BY <1>3 DEF Publish, Surface
  <2>2. /\ Session(p) \in Sessions /\ sessions[Session(p)] # None
        /\ ChargeOf(p) \in sessions[Session(p)].charged
    BY <1>3 DEF Publish, CallsTyped, CallsKnow, File
  <2>3. ASSUME NEW r \in Own(p)
        PROVE  Published(r)
    BY <2>1, <2>2, ProjectedShows DEF Published, Own
  <2> QED
    BY <2>1, <2>3 DEF Projected
<1>4. ASSUME NEW p \in Procs, Fault(p), rows' # rows
      PROVE  /\ rows \subseteq rows'
             /\ \A r \in rows' \ rows : Published(r)
  <2>1. PICK done \in Prefixes(AllPublishable) : rows' = Projected(done)
    BY <1>4 DEF Fault, CutShort
  <2>2. /\ done \subseteq AllPublishable
        /\ \A b \in done, a \in AllPublishable :
              (a.session = b.session /\ a.key = b.key /\ a.part < b.part) => a \in done
    BY DEF Prefixes
  <2>3. ASSUME NEW r \in done
        PROVE  Published(r)
    <3>1. PICK s \in Sessions : sessions[s] # None /\
             \E c \in sessions[s].charged :
                r \in BatchesOf(s, c) /\ BatchesOf(s, c) \subseteq AllPublishable
      BY <2>2, PublishableShape
    <3>2. PICK c \in sessions[s].charged :
             r \in BatchesOf(s, c) /\ BatchesOf(s, c) \subseteq AllPublishable
      BY <3>1
    <3>3. c \in Charge
      BY <3>1 DEF TypeOK, SessionFile
    <3>4. ASSUME NEW b \in BatchesOf(s, c), b.part < r.part
          PROVE  b \in rows'
      <4>1. b \in done
        BY <2>2, <3>2, <3>3, <3>4, BatchesShape
      <4> QED
        BY <2>1, <3>1, <4>1, ProjectedShows
    <3> QED
      BY <3>1, <3>2, <3>4 DEF Published
  <2> QED
    BY <2>1, <2>3 DEF Projected
<1>5. ASSUME NEW p \in Procs, Render(p) \/ RecordRendered(p) \/ WriteFeedback(p)
      PROVE  /\ rows \subseteq rows'
             /\ \A r \in rows' \ rows : Recorded(r)
  BY <1>5 DEF Render, RecordRendered, WriteFeedback, Surface, Projected, Recorded
<1>6. \/ rows' = rows \/ ReadEvents
      \/ \E p \in Procs : Publish(p) \/ Fault(p) \/ Render(p) \/ RecordRendered(p) \/ WriteFeedback(p)
  <2>1. ASSUME NEW p \in Procs, Step(p)
        PROVE  rows' = rows \/ Publish(p) \/ Render(p) \/ RecordRendered(p) \/ WriteFeedback(p)
    BY <2>1 DEF Step, Missing, Reserve, Deny, Redeliver, Stage, CommitBundle, AnswerCommitted,
                Obtain, Persist, Save, ClearOutbox
  <2>2. ASSUME NEW p \in Procs, Start(p)
        PROVE  rows' = rows
    BY <2>2 DEF Start, StartPrepare, StartRecall, StartFeedback, StartConfirm
  <2> QED
    BY <2>1, <2>2 DEF Next, OpenSession, Authorize, FinishReading, ReaderFault
<1> QED
  BY <1>1, <1>2, <1>3, <1>4, <1>5, <1>6

----------------------------------------------------------------------------
(* Every step keeps the invariant, conjunct by conjunct.                   *)

LEMMA RowsTyped ==
    ASSUME DeliveryInv, NEW r \in rows
    PROVE  /\ r \in Batch /\ r.session \in Sessions
  BY DEF DeliveryInv, TypeOK, Batch

LEMMA PublishedShape ==
    ASSUME DeliveryInv, NEW r, Published(r)
    PROVE  /\ r \in Batch /\ r.kind \in {"emitted", "recall"}
           /\ r.session \in Sessions /\ sessions[r.session] # None
           /\ [kind |-> r.kind, key |-> r.key, by |-> r.by] \in sessions[r.session].charged
<1>1. PICK s \in Sessions : sessions[s] # None /\ \E c \in sessions[s].charged : r \in BatchesOf(s, c)
  BY DEF Published
<1>2. PICK c \in sessions[s].charged : r \in BatchesOf(s, c)
  BY <1>1
<1>3. c \in Charge
  BY <1>1 DEF DeliveryInv, TypeOK, SessionFile
<1> QED
  BY <1>1, <1>2, <1>3, BatchesShape, ChargeShape

LEMMA RecordedShape ==
    ASSUME NEW r, Recorded(r)
    PROVE  /\ r.kind \in {"proposed", "failed", "rendered", "feedback"}
           /\ r.kind = "rendered" => \E p \in Procs : pc[p] = "proposed" /\ r = Record(p, "rendered")
           /\ r.kind = "feedback" => \E p \in Procs : pc[p] = "asserting" /\ r = Record(p, "feedback")
  BY DEF Recorded, Record

LEMMA ShownNext == ASSUME DeliveryInv, Next PROVE ShownIsCharged'
<1> SUFFICES ASSUME NEW r \in rows', r.kind \in {"emitted", "recall"}
             PROVE  /\ sessions'[r.session] # None
                    /\ [kind |-> r.kind, key |-> r.key, by |-> r.by] \in sessions'[r.session].charged
  BY DEF ShownIsCharged
<1>1. /\ r.session \in Sessions /\ sessions[r.session] # None
      /\ [kind |-> r.kind, key |-> r.key, by |-> r.by] \in sessions[r.session].charged
  <2>1. CASE r \in rows
    BY <2>1, RowsTyped DEF DeliveryInv, ShownIsCharged
  <2>2. CASE Published(r)
    BY <2>2, PublishedShape
  <2>3. CASE Recorded(r)
    BY <2>3, RecordedShape
  <2> QED
    BY <2>1, <2>2, <2>3, RowsComeFrom
<1> QED
  BY <1>1, ChargesStay

LEMMA ChargedOnceNext == ASSUME DeliveryInv, Next PROVE ChargedOnce'
<1> SUFFICES ASSUME NEW s \in Sessions, sessions'[s] # None
             PROVE  /\ \A c, d \in sessions'[s].charged : Clash(c, d) => c = d
                    /\ \A c \in sessions'[s].charged : c.kind = "emitted" => c.key.session = s
  BY DEF ChargedOnce, Clash
<1>1. ASSUME NEW p \in Procs, NEW q \in Procs, Debited(s, p), Debited(s, q)
      PROVE  ChargeOf(p) = ChargeOf(q)
  <2>1. sessions[s] \in SessionFile
    BY <1>1 DEF DeliveryInv, TypeOK, Debited
  <2>2. sessions'[s].charged = sessions[s].charged \cup {ChargeOf(p)}
    BY <1>1, <2>1 DEF Debited, Debit, SessionFile
  <2>3. sessions'[s].charged = sessions[s].charged \cup {ChargeOf(q)}
    BY <1>1, <2>1 DEF Debited, Debit, SessionFile
  <2>4. ChargeOf(p) \notin sessions[s].charged
    BY <1>1 DEF Debited, Clash
  <2> QED
    BY <2>2, <2>3, <2>4
<1>2. ASSUME NEW c \in sessions'[s].charged, NEW d \in sessions'[s].charged, Clash(c, d)
      PROVE  c = d
  <2>1. /\ \/ sessions[s] # None /\ c \in sessions[s].charged
           \/ \E p \in Procs : Debited(s, p) /\ c = ChargeOf(p)
        /\ \/ sessions[s] # None /\ d \in sessions[s].charged
           \/ \E p \in Procs : Debited(s, p) /\ d = ChargeOf(p)
    BY ChargesComeFrom
  <2>2. CASE sessions[s] # None /\ c \in sessions[s].charged /\ d \in sessions[s].charged
    BY <1>2, <2>2 DEF DeliveryInv, ChargedOnce
  <2>3. ASSUME NEW p \in Procs, Debited(s, p), c = ChargeOf(p), d \in sessions[s].charged
        PROVE  FALSE
    BY <1>2, <2>3 DEF Debited
  <2>4. ASSUME NEW p \in Procs, Debited(s, p), d = ChargeOf(p), c \in sessions[s].charged
        PROVE  FALSE
    BY <1>2, <2>4 DEF Debited
  <2> QED
    BY <1>1, <2>1, <2>2, <2>3, <2>4
<1>3. ASSUME NEW c \in sessions'[s].charged, c.kind = "emitted"
      PROVE  c.key.session = s
  <2>1. CASE sessions[s] # None /\ c \in sessions[s].charged
    BY <1>3, <2>1 DEF DeliveryInv, ChargedOnce
  <2>2. ASSUME NEW p \in Procs, Debited(s, p), c = ChargeOf(p)
        PROVE  c.key.session = s
    BY <1>3, <2>2 DEF Debited
  <2> QED
    BY <2>1, <2>2, ChargesComeFrom
<1> QED
  BY <1>2, <1>3

LEMMA BatchesKeptNext == ASSUME DeliveryInv, Next PROVE BatchesKept'
<1> SUFFICES ASSUME NEW s \in Sessions, sessions'[s] # None, NEW c \in sessions'[s].charged
             PROVE  /\ \/ BatchesOf(s, c) \subseteq rows'
                       \/ BatchesOf(s, c) \subseteq sessions'[s].pending
                    /\ c.kind = "recall" =>
                          [session |-> s, key |-> c.key, by |-> c.by] \in results'
  BY DEF BatchesKept, BatchesOf, Parts
<1>0. rows \subseteq rows' /\ results \subseteq results'
  BY RowsComeFrom, ResultsStay
<1>1. ASSUME NEW p \in Procs, Debited(s, p), c = ChargeOf(p)
      PROVE  /\ BatchesOf(s, c) \subseteq sessions'[s].pending
             /\ c.kind = "recall" => [session |-> s, key |-> c.key, by |-> c.by] \in results'
  <2>1. sessions[s] \in SessionFile
    BY <1>1 DEF DeliveryInv, TypeOK, Debited
  <2> QED
    BY <1>0, <1>1, <2>1 DEF Debited, Debit, SessionFile
<1>2. ASSUME sessions[s] # None, c \in sessions[s].charged
      PROVE  /\ \/ BatchesOf(s, c) \subseteq rows'
                \/ BatchesOf(s, c) \subseteq sessions'[s].pending
             /\ c.kind = "recall" => [session |-> s, key |-> c.key, by |-> c.by] \in results'
  <2>1. /\ \/ BatchesOf(s, c) \subseteq rows
           \/ BatchesOf(s, c) \subseteq sessions[s].pending
        /\ c.kind = "recall" => [session |-> s, key |-> c.key, by |-> c.by] \in results
    BY <1>2 DEF DeliveryInv, BatchesKept
  <2>2. CASE BatchesOf(s, c) \subseteq sessions[s].pending /\ Kept(s)
    <3>1. ASSUME NEW b \in BatchesOf(s, c), b \notin sessions'[s].pending
          PROVE  BatchesOf(s, c) \subseteq rows
      <4>1. CASE b \in reading
        BY <1>2, <4>1 DEF DeliveryInv, ReadingShown
      <4>2. ASSUME NEW p \in Procs, pc[p] = "published", Session(p) = s, b \in Own(p)
            PROVE  BatchesOf(s, c) \subseteq rows
        <5>1. /\ Own(p) \subseteq rows /\ ChargeOf(p) \in sessions[s].charged
          BY <4>2 DEF DeliveryInv, CallsKnow, File
        <5>2. c \in Charge /\ ChargeOf(p) \in Charge
          BY <1>2, <5>1 DEF DeliveryInv, TypeOK, SessionFile
        <5>3. c = ChargeOf(p)
          BY <4>2, <5>2, BatchesShape DEF Own
        <5> QED
          BY <4>2, <5>1, <5>3 DEF Own
      <4> QED
        BY <2>2, <3>1, <4>1, <4>2 DEF Kept
    <3> QED
      BY <1>0, <2>1, <3>1
  <2>3. CASE BatchesOf(s, c) \subseteq sessions[s].pending /\ \E p \in Procs : Debited(s, p)
    <3>1. sessions[s] \in SessionFile
      BY <1>2 DEF DeliveryInv, TypeOK
    <3>2. sessions[s].pending \subseteq sessions'[s].pending
      BY <2>3, <3>1 DEF Debited, Debit, SessionFile
    <3> QED
      BY <1>0, <2>1, <2>3, <3>2
  <2> QED
    BY <1>0, <1>2, <2>1, <2>2, <2>3, FileStep DEF Evicted, Opened
<1> QED
  BY <1>1, <1>2, ChargesComeFrom

LEMMA OnlyReadersRead == ASSUME Next PROVE reading' \subseteq reading \/ ReadEvents
<1>1. ASSUME NEW p \in Procs, Step(p) PROVE reading' = reading
  BY <1>1 DEF Step, Missing, Reserve, Render, RecordRendered, Deny, Redeliver, Stage, CommitBundle,
              AnswerCommitted, Obtain, Persist, Save, Publish, ClearOutbox, WriteFeedback
<1>2. ASSUME NEW p \in Procs, Start(p) PROVE reading' = reading
  BY <1>2 DEF Start, StartPrepare, StartRecall, StartFeedback, StartConfirm
<1>3. ASSUME NEW p \in Procs, Fault(p) PROVE reading' = reading
  BY <1>3 DEF Fault
<1>4. CASE (\E s \in Sessions : OpenSession(s)) \/ \E g \in Gates : Authorize(g)
  BY <1>4 DEF OpenSession, Authorize
<1>5. CASE FinishReading \/ ReaderFault
  BY <1>5 DEF FinishReading, ReaderFault
<1> QED
  BY <1>1, <1>2, <1>3, <1>4, <1>5 DEF Next

LEMMA ReadingShownNext == ASSUME DeliveryInv, Next PROVE ReadingShown'
<1> SUFFICES ASSUME NEW s \in Sessions, sessions'[s] # None, NEW c \in sessions'[s].charged,
                    NEW b \in BatchesOf(s, c), b \in reading'
             PROVE  BatchesOf(s, c) \subseteq rows'
  BY DEF ReadingShown, BatchesOf, Parts
<1>0. rows \subseteq rows' /\ reading \subseteq rows
  BY RowsComeFrom DEF DeliveryInv, TypeOK
<1>1. ASSUME NEW p \in Procs, Debited(s, p), c = ChargeOf(p)
      PROVE  FALSE
  <2>1. b \in rows /\ c \in Charge
    BY <1>0, <1>1 DEF Debited
  <2>2. [kind |-> b.kind, key |-> b.key, by |-> b.by] = c /\ b.session = s
    BY <2>1, BatchesShape
  <2>3. c \in sessions[s].charged
    BY <2>1, <2>2, ChargeShape DEF DeliveryInv, ShownIsCharged
  <2> QED
    BY <1>1, <2>3 DEF Debited, Clash
<1>2. ASSUME sessions[s] # None, c \in sessions[s].charged
      PROVE  BatchesOf(s, c) \subseteq rows'
  <2>0. c \in Charge
    BY <1>2 DEF DeliveryInv, TypeOK, SessionFile
  <2>1. CASE b \in reading
    BY <1>0, <1>2, <2>1 DEF DeliveryInv, ReadingShown
  <2>2. CASE ReadEvents
    <3>1. b \in AllPublishable /\ rows' = Projected(AllPublishable)
      BY <2>2 DEF ReadEvents, Surface
    <3>2. PICK x \in Sessions : sessions[x] # None /\
             \E d \in sessions[x].charged :
                b \in BatchesOf(x, d) /\ BatchesOf(x, d) \subseteq AllPublishable
      BY <3>1, PublishableShape DEF DeliveryInv
    <3>3. PICK d \in sessions[x].charged :
             b \in BatchesOf(x, d) /\ BatchesOf(x, d) \subseteq AllPublishable
      BY <3>2
    <3>4. d \in Charge
      BY <3>2 DEF DeliveryInv, TypeOK, SessionFile
    <3>5. x = s /\ d = c
      BY <2>0, <3>3, <3>4, BatchesShape
    <3> QED
      BY <1>2, <3>1, <3>3, <3>5, ProjectedShows DEF DeliveryInv
  <2>3. reading' \subseteq reading \/ ReadEvents
    BY OnlyReadersRead
  <2> QED
    BY <2>1, <2>2, <2>3
<1> QED
  BY <1>1, <1>2, ChargesComeFrom

LEMMA LifecycleNext == ASSUME DeliveryInv, Next PROVE LifecycleInOrder'
<1> SUFFICES ASSUME NEW r \in rows', r.kind = "recall", NEW i \in 1 .. r.part
             PROVE  [r EXCEPT !.part = i] \in rows'
  BY DEF LifecycleInOrder
<1>0. rows \subseteq rows'
  BY RowsComeFrom
<1>1. CASE r \in rows
  BY <1>0, <1>1 DEF DeliveryInv, LifecycleInOrder
<1>2. CASE r \notin rows
  <2>1. Published(r)
    BY <1>2, RowsComeFrom, RecordedShape
  <2>0. PICK s \in Sessions : sessions[s] # None /\
           \E c \in sessions[s].charged :
              /\ r \in BatchesOf(s, c)
              /\ \A b \in BatchesOf(s, c) : b.part < r.part => b \in rows'
    BY <2>1 DEF Published
  <2>2. PICK c \in sessions[s].charged :
           /\ r \in BatchesOf(s, c)
           /\ \A b \in BatchesOf(s, c) : b.part < r.part => b \in rows'
    BY <2>0
  <2>3. c \in Charge
    BY <2>0 DEF DeliveryInv, TypeOK, SessionFile
  <2>4. r \in Batch /\ c.kind = "recall" /\ r.part \in 1 .. Lifecycle
    BY <2>2, <2>3, BatchesShape DEF Batch
  <2>5. PICK k \in Parts(c.kind) :
           r = [session |-> s, kind |-> c.kind, key |-> c.key, by |-> c.by, part |-> k]
    BY <2>2 DEF BatchesOf
  <2> DEFINE b == [session |-> s, kind |-> c.kind, key |-> c.key, by |-> c.by, part |-> i]
  <2>6. [r EXCEPT !.part = i] = b
    BY <2>5
  <2>7. i \in 1 .. Lifecycle /\ i \in Nat /\ r.part \in Nat /\ i <= r.part
    BY <2>4, DeliveryAssumption DEF DeliveryAssumption
  <2>8. b \in BatchesOf(s, c)
    BY <2>4, <2>7 DEF BatchesOf, Parts
  <2>9. CASE i = r.part
    BY <2>4, <2>5, <2>6, <2>9
  <2>10. CASE i # r.part
    <3>1. b.part < r.part
      BY <2>7, <2>10
    <3> QED
      BY <2>2, <2>6, <2>8, <3>1
  <2> QED
    BY <2>9, <2>10
<1> QED
  BY <1>1, <1>2

LEMMA FeedbackNext == ASSUME DeliveryInv, Next PROVE FeedbackResolves' /\ RenderedBundles'
<1>1. ASSUME NEW r \in rows', r.kind = "feedback", r.key # None
      PROVE  sessions'[r.session] # None /\ Charged(sessions'[r.session], r.key)
  <2>1. /\ r.session \in Sessions /\ sessions[r.session] # None
        /\ Charged(sessions[r.session], r.key)
    <3>1. CASE r \in rows
      BY <1>1, <3>1, RowsTyped DEF DeliveryInv, FeedbackResolves
    <3>2. CASE Recorded(r)
      <4>1. PICK p \in Procs : pc[p] = "asserting" /\ r = Record(p, "feedback")
        BY <1>1, <3>2, RecordedShape
      <4>2. r.session = Session(p) /\ r.key = task[p].key
        BY <4>1 DEF Record
      <4> QED
        BY <1>1, <4>1, <4>2 DEF DeliveryInv, CallsKnow, CallsTyped, File
    <3> QED
      BY <1>1, <3>1, <3>2, RowsComeFrom, PublishedShape
  <2>2. PICK c \in sessions[r.session].charged : c.key = r.key
    BY <2>1 DEF Charged
  <2> QED
    BY <2>1, <2>2, ChargesStay DEF Charged
<1>2. ASSUME NEW r \in rows', r.kind = "rendered"
      PROVE  r.key \in Bundle
  <2>1. CASE r \in rows
    BY <1>2, <2>1 DEF DeliveryInv, RenderedBundles
  <2>2. CASE Recorded(r)
    <3>1. PICK p \in Procs : pc[p] = "proposed" /\ r = Record(p, "rendered")
      BY <1>2, <2>2, RecordedShape
    <3> QED
      BY <3>1 DEF Record, DeliveryInv, CallsTyped
  <2> QED
    BY <1>2, <2>1, <2>2, RowsComeFrom, PublishedShape
<1> QED
  BY <1>1, <1>2 DEF FeedbackResolves, RenderedBundles, Charged

LEMMA CallStep ==
    ASSUME DeliveryInv, Next, NEW q \in Procs
    PROVE  \/ pc'[q] = pc[q] /\ task'[q] = task[q]
           \/ Step(q) \/ Start(q) \/ Fault(q)
<1> USE DEF DeliveryInv, TypeOK
<1>1. ASSUME NEW p \in Procs, Step(p), p # q
      PROVE  pc'[q] = pc[q] /\ task'[q] = task[q]
  BY <1>1 DEF Step, Missing, Reserve, Render, RecordRendered, Deny, Redeliver, Stage,
              CommitBundle, AnswerCommitted, Obtain, Persist, Save, Publish, ClearOutbox,
              WriteFeedback, Return, Go
<1>2. ASSUME NEW p \in Procs, Start(p) \/ Fault(p), p # q
      PROVE  pc'[q] = pc[q] /\ task'[q] = task[q]
  BY <1>2 DEF Start, Fault, StartPrepare, StartRecall, StartFeedback, StartConfirm, Begin, Return, Go
<1> QED
  BY <1>1, <1>2 DEF Next, OpenSession, Authorize, ReadEvents, FinishReading, ReaderFault

\* The steps by which a call comes to what CallsKnow says of it.
LEMMA CallComesTo ==
    ASSUME DeliveryInv, Next, NEW q \in Procs,
           ~(pc'[q] = pc[q] /\ task'[q] = task[q])
    PROVE  /\ pc'[q] = "persisted" => Persist(q) /\ pc[q] = "obtained"
           /\ pc'[q] = "committed" => CommitBundle(q) \/ Save(q)
           /\ pc'[q] = "published" => Publish(q)
           /\ pc'[q] = "asserting" =>
                 \E s \in Sessions, about \in Prepared \cup {None} : StartFeedback(q, s, about)
           /\ pc'[q] \in {"staged", "answering"} => Stage(q) \/ CommitBundle(q)
<1> USE DEF DeliveryInv, TypeOK
<1>1. CASE Step(q)
  BY <1>1 DEF Step, Missing, Reserve, Render, RecordRendered, Deny, Redeliver, Stage,
              CommitBundle, AnswerCommitted, Obtain, Persist, Save, Publish, ClearOutbox,
              WriteFeedback, Return, Go
<1>2. CASE Start(q) \/ Fault(q)
  BY <1>2 DEF Start, Fault, StartPrepare, StartRecall, StartFeedback, StartConfirm, Begin, Return, Go
<1> QED
  BY <1>1, <1>2, CallStep

LEMMA HoldersNext == ASSUME DeliveryInv, Next PROVE HoldersExclude'
<1> SUFFICES ASSUME NEW q \in Procs, pc'[q] \in Holding PROVE custody' = q
  BY DEF HoldersExclude
<1> USE DEF DeliveryInv, TypeOK
<1>1. CASE pc'[q] = pc[q] /\ task'[q] = task[q]
  <2>1. custody = q
    BY <1>1 DEF HoldersExclude
  <2>2. ASSUME NEW p \in Procs, Return(p)
        PROVE  custody' = q
    <3>1. p # q
      BY <2>2 DEF Return, Go, Holding
    <3> QED
      BY <2>1, <2>2, <3>1 DEF Return
  <2>3. q # None
    BY DeliveryAssumption DEF DeliveryAssumption
  <2>4. custody' = custody \/ \E p \in Procs : Return(p) \/ Stage(p) \/ Persist(p)
    <3>1. ASSUME NEW p \in Procs, Step(p)
          PROVE  custody' = custody \/ Return(p) \/ Stage(p) \/ Persist(p)
      BY <3>1 DEF Step, Missing, Reserve, Render, RecordRendered, Deny, Redeliver,
                  CommitBundle, AnswerCommitted, Obtain, Save, Publish, ClearOutbox, WriteFeedback
    <3>2. ASSUME NEW p \in Procs, Start(p) \/ Fault(p)
          PROVE  custody' = custody \/ Return(p)
      BY <3>2 DEF Start, Fault, StartPrepare, StartRecall, StartFeedback, StartConfirm
    <3> QED
      BY <3>1, <3>2 DEF Next, OpenSession, Authorize, ReadEvents, FinishReading, ReaderFault
  <2>5. ASSUME NEW p \in Procs, Stage(p) \/ Persist(p)
        PROVE  FALSE
    BY <2>1, <2>3, <2>5 DEF Stage, Persist
  <2> QED
    BY <2>1, <2>2, <2>4, <2>5
<1>2. CASE ~(pc'[q] = pc[q] /\ task'[q] = task[q])
  <2>1. CASE Persist(q)
    BY <2>1 DEF Persist, Return, Go, Holding
  <2>2. CASE Stage(q)
    BY <2>2 DEF Stage
  <2>3. CASE CommitBundle(q) \/ Save(q) \/ Publish(q)
    <3>1. custody = q
      BY <2>3 DEF CommitBundle, Save, Publish, HoldersExclude, Holding
    <3> QED
      BY <2>3, <3>1 DEF CommitBundle, Save, Publish, Return, Go, Holding
  <2> QED
    BY <1>2, <2>1, <2>2, <2>3, CallComesTo DEF Holding
<1> QED
  BY <1>1, <1>2

\* Nobody writes a session between the two writes of a recall's commitment.
LEMMA PersistedAlone ==
    ASSUME DeliveryInv, Next, NEW q \in Procs, pc[q] = "persisted", pc'[q] = "persisted"
    PROVE  sessions' = sessions
<1>1. ~IngestFree
  BY DEF IngestFree
<1>2. ASSUME NEW p \in Procs, Save(p)
      PROVE  FALSE
  <2>1. p = q
    BY <1>2 DEF Save, DeliveryInv, HoldersExclude, Holding
  <2> QED
    BY <1>2, <2>1 DEF Save, Go, DeliveryInv, TypeOK
<1> QED
  BY <1>1, <1>2, SessionsWritten DEF FinishReading, OpenSession, Reserve, CommitBundle, CanRead,
                                     ClearOutbox

LEMMA CallsKnowNext == ASSUME DeliveryInv, Next PROVE CallsKnow'
<1> USE DEF DeliveryInv
<1>0. TypeOK' /\ CallsTyped' /\ rows \subseteq rows' /\ results \subseteq results'
  BY TypeNext, RowsComeFrom, ResultsStay
<1> SUFFICES ASSUME NEW q \in Procs
             PROVE  /\ pc'[q] = "persisted" =>
                          /\ File(q)' # None /\ (SameId(File(q), task[q].key) = {})'
                          /\ (Spend[task[q].by] <= File(q).remaining)'
                          /\ [session |-> Session(q)', key |-> task'[q].key,
                              by |-> task'[q].by] \in results'
                    /\ pc'[q] \in {"committed", "published"} =>
                          File(q)' # None /\ (ChargeOf(q) \in File(q).charged)'
                    /\ pc'[q] = "published" => (Own(q) \subseteq rows)'
                    /\ pc'[q] = "asserting" /\ task'[q].key # None =>
                          File(q)' # None /\ Charged(File(q), task[q].key)'
  BY DEF CallsKnow
<1>1. CASE pc'[q] = pc[q] /\ task'[q] = task[q]
  <2>1. Session(q)' = Session(q) /\ ChargeOf(q)' = ChargeOf(q) /\ Own(q)' = Own(q)
    BY <1>1 DEF Session, ChargeOf, Own
  <2>2. CASE pc[q] = "persisted"
    <3>1. File(q)' = File(q)
      BY <1>1, <2>1, <2>2, PersistedAlone DEF File
    <3>2. SameId(File(q), task[q].key)' = SameId(File(q), task[q].key)
      BY <1>1, <3>1 DEF SameId, Recalls
    <3> QED
      BY <1>0, <1>1, <2>1, <2>2, <3>1, <3>2 DEF CallsKnow
  <2>3. CASE pc[q] \in {"committed", "published"}
    <3>1. Session(q) \in Sessions /\ File(q) # None /\ ChargeOf(q) \in File(q).charged
      BY <2>3 DEF CallsKnow, CallsTyped
    <3>2. File(q)' # None /\ (ChargeOf(q) \in File(q).charged)'
      BY <2>1, <3>1, ChargesStay DEF File
    <3>3. pc[q] = "published" => (Own(q) \subseteq rows)'
      BY <1>0, <2>1 DEF CallsKnow
    <3> QED
      BY <1>1, <2>3, <3>2, <3>3
  <2>4. CASE pc[q] = "asserting" /\ task[q].key # None
    <3>1. Session(q) \in Sessions /\ File(q) # None /\ Charged(File(q), task[q].key)
      BY <2>4 DEF CallsKnow, CallsTyped
    <3>2. PICK c \in sessions[Session(q)].charged : c.key = task[q].key
      BY <3>1 DEF Charged, File
    <3>3. sessions'[Session(q)] # None /\ c \in sessions'[Session(q)].charged
      BY <3>1, ChargesStay DEF File
    <3>4. File(q)' # None /\ Charged(File(q), task[q].key)'
      BY <1>1, <2>1, <3>2, <3>3 DEF File, Charged
    <3> QED
      BY <1>1, <2>4, <3>4
  <2> QED
    BY <1>1, <2>2, <2>3, <2>4
<1>2. ASSUME ~(pc'[q] = pc[q] /\ task'[q] = task[q]), pc'[q] = "persisted"
      PROVE  /\ File(q)' # None /\ (SameId(File(q), task[q].key) = {})'
             /\ (Spend[task[q].by] <= File(q).remaining)'
             /\ [session |-> Session(q)', key |-> task'[q].key, by |-> task'[q].by] \in results'
  <2>1. Persist(q)
    BY <1>2, CallComesTo
  <2>2. ~Return(q)
    BY <1>2, <2>1 DEF Return, Go, TypeOK
  <2>3. /\ task' = task /\ sessions' = sessions /\ File(q) # None
        /\ SameId(File(q), task[q].key) = {} /\ RecallFits(q)
        /\ [session |-> Session(q), key |-> task[q].key, by |-> task[q].by] \in results'
    BY <2>1, <2>2 DEF Persist, CanRead, File
  <2> QED
    BY <2>3 DEF File, Session, RecallFits, SameId, Recalls
<1>3. ASSUME ~(pc'[q] = pc[q] /\ task'[q] = task[q]), pc'[q] = "committed"
      PROVE  File(q)' # None /\ (ChargeOf(q) \in File(q).charged)'
  <2>1. CommitBundle(q) \/ Save(q)
    BY <1>3, CallComesTo
  <2>2. /\ task' = task /\ Session(q) \in Sessions
        /\ sessions' = [sessions EXCEPT ![Session(q)] = Debit(q, File(q))]
    BY <1>3, <2>1 DEF CommitBundle, Save, Return, Go, TypeOK, CallsTyped, File
  <2>3. sessions'[Session(q)] = Debit(q, File(q))
    BY <2>2 DEF TypeOK
  <2>4. File(q) \in SessionFile
    BY <2>1, <2>2 DEF CommitBundle, CanRead, Save, CallsKnow, TypeOK, File
  <2>5. ChargeOf(q) \in sessions'[Session(q)].charged
    BY <2>3, <2>4 DEF Debit, SessionFile
  <2>6. /\ ChargeOf(q) \in Charge /\ Price(ChargeOf(q)) <= File(q).remaining
    BY <2>1, ChargeOfTyped, <1>3 DEF CommitBundle, BundleFits, Return, Go, TypeOK, Save, CallsKnow
  <2>7. sessions'[Session(q)] # None
    BY <2>2, <2>3, <2>4, <2>6, DebitTyped, DeliveryAssumption DEF DeliveryAssumption
  <2> QED
    BY <2>2, <2>5, <2>7 DEF File, Session, ChargeOf
<1>4. ASSUME ~(pc'[q] = pc[q] /\ task'[q] = task[q]), pc'[q] = "published"
      PROVE  /\ File(q)' # None /\ (ChargeOf(q) \in File(q).charged)'
             /\ (Own(q) \subseteq rows)'
  <2>1. Publish(q)
    BY <1>4, CallComesTo
  <2>2. pc[q] = "committed" /\ sessions' = sessions /\ task' = task /\ rows' = Projected(Own(q))
    BY <2>1 DEF Publish, Surface
  <2>3. Session(q) \in Sessions /\ File(q) # None /\ ChargeOf(q) \in File(q).charged
    BY <2>2 DEF CallsKnow, CallsTyped
  <2>4. Own(q) \subseteq rows'
    BY <2>2, <2>3, ProjectedShows DEF Own, File
  <2> QED
    BY <2>2, <2>3, <2>4 DEF File, Session, ChargeOf, Own
<1>5. ASSUME ~(pc'[q] = pc[q] /\ task'[q] = task[q]), pc'[q] = "asserting", task'[q].key # None
      PROVE  File(q)' # None /\ Charged(File(q), task[q].key)'
  <2>1. PICK s \in Sessions, about \in Prepared \cup {None} : StartFeedback(q, s, about)
    BY <1>5, CallComesTo
  <2>2. /\ sessions' = sessions /\ sessions[s] # None /\ Resolves(s, about)
        /\ task' = [task EXCEPT ![q] = Call(s, about, None, 0, FALSE, FALSE)]
    BY <2>1 DEF StartFeedback, Begin, CanRead
  <2>3. task'[q].session = s /\ task'[q].key = about
    BY <2>2 DEF TypeOK, Call
  <2>4. PICK r \in rows : r.kind = "emitted" /\ r.key = about
    BY <1>5, <2>2, <2>3 DEF Resolves, Emitted
  <2>5. /\ r.session \in Sessions /\ sessions[r.session] # None
        /\ [kind |-> r.kind, key |-> r.key, by |-> r.by] \in sessions[r.session].charged
    BY <2>4, RowsTyped DEF ShownIsCharged
  <2>6. r.key.session = r.session
    BY <2>4, <2>5 DEF ChargedOnce
  <2>7. Charged(sessions[s], about)
    <3>1. about # None /\ about.session = s
      BY <1>5, <2>2, <2>3 DEF Resolves
    <3>2. r.session = s
      BY <2>4, <2>6, <3>1
    <3>3. \E c \in sessions[s].charged : c.key = about
      BY <2>4, <2>5, <3>2
    <3> QED
      BY <3>3 DEF Charged
  <2> QED
    BY <2>2, <2>3, <2>7 DEF File, Session, Charged
<1> QED
  BY <1>1, <1>2, <1>3, <1>4, <1>5

\* What calls may be answered with.
Owed(a) ==
    /\ a.session \in Sessions /\ a.key \in Bundle \cup Invocation
    /\ sessions[a.session] # None
    /\ \E c \in sessions[a.session].charged : c.key = a.key /\ c.by = a.event

LEMMA EmittedOwed ==
    ASSUME DeliveryInv, NEW p \in Procs, pc[p] \in {"validated", "answering"},
           NEW r \in Emitted(task[p].key)
    PROVE  Owed([session |-> Session(p), key |-> task[p].key, event |-> r.by])
<1>1. r \in rows /\ r.kind = "emitted" /\ r.key = task[p].key
  BY DEF Emitted
<1>2. /\ r.session \in Sessions /\ sessions[r.session] # None
      /\ [kind |-> r.kind, key |-> r.key, by |-> r.by] \in sessions[r.session].charged
  BY <1>1, RowsTyped DEF DeliveryInv, ShownIsCharged
<1>3. r.key.session = r.session
  BY <1>1, <1>2 DEF DeliveryInv, ChargedOnce
<1>4. task[p].key \in Bundle /\ task[p].key.session = Session(p)
  BY DEF DeliveryInv, CallsTyped
<1> QED
  BY <1>1, <1>2, <1>3, <1>4 DEF Owed

LEMMA ReplayedOwed ==
    ASSUME NEW s \in Sessions, sessions[s] # None, NEW i \in Invocation, NEW a \in Replayed(s, i)
    PROVE  Owed(a)
  BY DEF Replayed, SameId, Recalls, Owed

LEMMA AnswersNext == ASSUME DeliveryInv, Next PROVE AnswersCharged'
<1>1. ASSUME NEW a \in answers' \ answers
      PROVE  Owed(a)
  <2>1. ASSUME NEW p \in Procs, Redeliver(p)
        PROVE  Owed(a)
    <3>1. PICK r \in Emitted(task[p].key) :
            a = [session |-> Session(p), key |-> task[p].key, event |-> r.by]
      BY <2>1 DEF Redeliver, Answer, Session
    <3> QED
      BY <2>1, <3>1, EmittedOwed DEF Redeliver
  <2>2. ASSUME NEW p \in Procs, AnswerCommitted(p)
        PROVE  Owed(a)
    <3>1. PICK r \in Emitted(task[p].key) :
            a = [session |-> Session(p), key |-> task[p].key, event |-> r.by]
      BY <2>2 DEF AnswerCommitted, Answer, Session
    <3> QED
      BY <2>2, <3>1, EmittedOwed DEF AnswerCommitted
  <2>3. ASSUME NEW p \in Procs, ClearOutbox(p)
        PROVE  Owed(a)
    <3>1. a = [session |-> Session(p), key |-> task[p].key, event |-> task[p].by]
      BY <2>3 DEF ClearOutbox, Answer, Session
    <3>2. Session(p) \in Sessions /\ File(p) # None /\ ChargeOf(p) \in File(p).charged
      BY <2>3 DEF ClearOutbox, DeliveryInv, CallsTyped, CallsKnow
    <3>3. ChargeOf(p) \in Charge
      BY <3>2 DEF DeliveryInv, TypeOK, SessionFile, File
    <3>4. ChargeOf(p).key = task[p].key /\ ChargeOf(p).by = task[p].by
      BY DEF ChargeOf
    <3> QED
      BY <3>1, <3>2, <3>3, <3>4, ChargeShape DEF Owed, File
  <2>4. ASSUME NEW p \in Procs, Persist(p)
        PROVE  Owed(a)
    BY <2>4, ReplayedOwed DEF Persist, CanRead, DeliveryInv, CallsTyped
  <2>5. ASSUME NEW p \in Procs, NEW s \in Sessions, NEW i \in Invocation, StartRecall(p, s, i)
        PROVE  Owed(a)
    BY <2>5, ReplayedOwed DEF StartRecall, CanRead
  <2>6. \/ answers' = answers
        \/ \E p \in Procs : \/ Redeliver(p) \/ AnswerCommitted(p) \/ ClearOutbox(p) \/ Persist(p)
                           \/ \E s \in Sessions, i \in Invocation : StartRecall(p, s, i)
    <3>1. ASSUME NEW p \in Procs, Step(p)
          PROVE  \/ answers' = answers
                 \/ Redeliver(p) \/ AnswerCommitted(p) \/ ClearOutbox(p) \/ Persist(p)
      BY <3>1 DEF Step, Missing, Reserve, Render, RecordRendered, Deny, Stage, CommitBundle,
                  Obtain, Save, Publish, WriteFeedback
    <3>2. ASSUME NEW p \in Procs, Start(p) \/ Fault(p)
          PROVE  answers' = answers \/ \E s \in Sessions, i \in Invocation : StartRecall(p, s, i)
      BY <3>2 DEF Start, Fault, StartPrepare, StartFeedback, StartConfirm
    <3> QED
      BY <3>1, <3>2 DEF Next, OpenSession, Authorize, ReadEvents, FinishReading, ReaderFault
  <2> QED
    BY <2>1, <2>2, <2>3, <2>4, <2>5, <2>6
<1>2. \A a \in answers : Owed(a)
  BY DEF DeliveryInv, AnswersCharged, Owed
<1>3. ASSUME NEW a, Owed(a)
      PROVE  Owed(a)'
  <2>1. PICK c \in sessions[a.session].charged : c.key = a.key /\ c.by = a.event
    BY <1>3 DEF Owed
  <2> QED
    BY <1>3, <2>1, ChargesStay DEF Owed
<1> QED
  BY <1>1, <1>2, <1>3 DEF AnswersCharged, Owed

LEMMA DeliveryNext == DeliveryInv /\ [Next]_vars => DeliveryInv'
<1>1. ASSUME DeliveryInv, Next
      PROVE  DeliveryInv'
  BY <1>1, TypeNext, HoldersNext, FeedbackNext, CallsKnowNext, ShownNext, ChargedOnceNext,
     BatchesKeptNext, ReadingShownNext, AnswersNext, LifecycleNext DEF DeliveryInv
<1>2. ASSUME DeliveryInv, UNCHANGED vars
      PROVE  DeliveryInv'
  <2> USE <1>2 DEF vars, DeliveryInv
  <2>1. TypeOK' /\ HoldersExclude' /\ CallsTyped' /\ RenderedBundles'
    BY DEF TypeOK, HoldersExclude, CallsTyped, RenderedBundles, Session
  <2>2. CallsKnow'
    BY DEF CallsKnow, File, Session, ChargeOf, Own, SameId, Recalls, Charged
  <2>3. ShownIsCharged' /\ ChargedOnce' /\ BatchesKept' /\ ReadingShown'
    BY DEF ShownIsCharged, ChargedOnce, BatchesKept, ReadingShown, Clash, BatchesOf, Parts
  <2>4. AnswersCharged' /\ FeedbackResolves' /\ LifecycleInOrder'
    BY DEF AnswersCharged, FeedbackResolves, LifecycleInOrder, Charged
  <2> QED
    BY <2>1, <2>2, <2>3, <2>4
<1> QED
  BY <1>1, <1>2

LEMMA DeliveryHolds == Spec => []DeliveryInv
  BY DeliveryInit, DeliveryNext, PTL DEF Spec

----------------------------------------------------------------------------
(* The results.                                                            *)

\* Every variable keeps its type: no budget below nothing, no batch of an
\* unknown charge, nothing shown that is not indexed.
THEOREM DeliveryTypeCorrect == Spec => []TypeOK
  BY DeliveryHolds, PTL DEF DeliveryInv

\* A delivery or a recall that shows in the projection was charged, by the
\* very call that it shows.
THEOREM ShowsOnlyCharged == Spec => []ShownIsCharged
  BY DeliveryHolds, PTL DEF DeliveryInv

\* No recall shows a later event of its life without the earlier ones.
THEOREM LifecyclesInOrder == Spec => []LifecycleInOrder
  BY DeliveryHolds, PTL DEF DeliveryInv

\* Feedback that names an exposure belongs to a session that was charged for it.
THEOREM FeedbackAlwaysResolves == Spec => []FeedbackResolves
  BY DeliveryHolds, PTL DEF DeliveryInv

LEMMA KeptRecoverable == ASSUME DeliveryInv PROVE ChargedIsRecoverable
<1> SUFFICES ASSUME NEW s \in Sessions, sessions[s] # None, NEW c \in sessions[s].charged
             PROVE  /\ BatchesOf(s, c) \subseteq rows \cup Publishable(s)
                    /\ c.kind = "recall" =>
                          [session |-> s, key |-> c.key, by |-> c.by] \in results
  BY DEF ChargedIsRecoverable
<1>1. /\ BatchesOf(s, c) \subseteq rows \/ BatchesOf(s, c) \subseteq sessions[s].pending
      /\ c.kind = "recall" => [session |-> s, key |-> c.key, by |-> c.by] \in results
  BY DEF DeliveryInv, BatchesKept
<1>2. BatchesOf(s, c) \subseteq sessions[s].pending => BatchesOf(s, c) \subseteq Publishable(s)
  BY <1>1 DEF Publishable
<1> QED
  BY <1>1, <1>2

\* What was charged is in the projection or in the outbox from which any
\* reader publishes it, and the result of a recall is durable.
THEOREM NothingChargedIsLost == Spec => []ChargedIsRecoverable
  BY DeliveryHolds, KeptRecoverable, PTL

LEMMA ChargedAgree == ASSUME DeliveryInv PROVE AnswersAgree
<1>1. ASSUME NEW a \in answers
      PROVE  /\ a.session \in Sessions /\ sessions[a.session] # None
             /\ \E c \in sessions[a.session].charged : c.key = a.key /\ c.by = a.event
  BY DEF DeliveryInv, AnswersCharged
<1>2. ASSUME NEW a \in answers, NEW b \in answers, a.session = b.session, a.key = b.key
      PROVE  a.event = b.event
  <2>1. PICK c \in sessions[a.session].charged : c.key = a.key /\ c.by = a.event
    BY <1>1
  <2>2. PICK d \in sessions[a.session].charged : d.key = b.key /\ d.by = b.event
    BY <1>1, <1>2
  <2>3. c \in Charge /\ d \in Charge
    BY <1>1 DEF DeliveryInv, TypeOK, SessionFile
  <2>4. c.kind = d.kind
    BY <1>2, <2>1, <2>2, <2>3, ChargeShape, DeliveryAssumption DEF DeliveryAssumption
  <2>5. Clash(c, d)
    BY <1>2, <2>1, <2>2, <2>4 DEF Clash
  <2> QED
    BY <1>1, <2>1, <2>2, <2>5 DEF DeliveryInv, ChargedOnce
<1> QED
  BY <1>1, <1>2 DEF AnswersAgree

\* All calls that are answered for the same request are answered the same,
\* and with something that was charged.
THEOREM AnswersAlwaysAgree == Spec => []AnswersAgree
  BY DeliveryHolds, ChargedAgree, PTL

LEMMA BookStep ==
    ASSUME DeliveryInv, DeliveryInv', Next
    PROVE  [Budget!Next]_<<Book, Shown>>
<1> USE DEF DeliveryInv
<1>0. \A s \in Sessions : sessions[s] # None => sessions[s] \in SessionFile
  BY DEF TypeOK
<1>1. CASE Book' = Book
  <2>1. ASSUME NEW x \in Shown'
        PROVE  Book[x[1]] # None /\ x[2] \in Book[x[1]].charged
    <3>1. x[1] \in Sessions /\ x[2] \in Charge /\ BatchesOf(x[1], x[2]) \subseteq rows'
      BY DEF Shown, BatchesOf, Parts
    <3>2. PICK b \in BatchesOf(x[1], x[2]) : TRUE
      BY <3>1, BatchesShape
    <3>3. /\ b.session = x[1] /\ b.kind \in {"emitted", "recall"} /\ b \in rows'
          /\ x[2] = [kind |-> b.kind, key |-> b.key, by |-> b.by]
      BY <3>1, BatchesShape, ChargeShape
    <3>4. sessions'[x[1]] # None /\ x[2] \in sessions'[x[1]].charged
      BY <3>3 DEF ShownIsCharged
    <3>5. Book'[x[1]] # None /\ x[2] \in Book'[x[1]].charged
      BY <3>1, <3>4, DeliveryAssumption DEF DeliveryAssumption, Book, TypeOK, SessionFile
    <3> QED
      BY <1>1, <3>5
  <2>2. Shown \subseteq Shown'
    BY RowsComeFrom DEF Shown, BatchesOf, Parts
  <2> QED
    BY <1>1, <2>1, <2>2 DEF Budget!Next, Budget!Show
<1>2. CASE FinishReading \/ \E p \in Procs : Reserve(p) \/ ClearOutbox(p)
  <2>1. \A s \in Sessions : (sessions[s] = None /\ sessions'[s] = None) \/ Kept(s)
    BY <1>2, KeptWrites
  <2> QED
    BY <1>1, <2>1 DEF Book, Kept
<1>3. ASSUME NEW s \in Sessions, OpenSession(s)
      PROVE  Budget!Open(s)
  <2>1. /\ sessions[s] = None /\ UNCHANGED rows
        /\ \/ sessions' = [sessions EXCEPT ![s] = NewSession]
           \/ \E old \in Sessions :
                 Reclaimable(old) /\ sessions' = [sessions EXCEPT ![old] = None, ![s] = NewSession]
    BY <1>3 DEF OpenSession
  <2>2. Shown' = Shown
    BY <2>1 DEF Shown
  <2>3. NewSession # None /\ Budget!Unspent = [remaining |-> NewSession.remaining, charged |-> NewSession.charged]
    <3>1. NewSession \in SessionFile
      BY DeliveryAssumption DEF DeliveryAssumption, NewSession, SessionFile
    <3> QED
      BY <3>1, DeliveryAssumption DEF DeliveryAssumption, Budget!Unspent, NewSession
  <2>4. CASE sessions' = [sessions EXCEPT ![s] = NewSession]
    <3>1. Book' = [Book EXCEPT ![s] = Budget!Unspent]
      BY <2>3, <2>4 DEF Book, TypeOK
    <3> QED
      BY <2>1, <2>2, <3>1 DEF Budget!Open, Book
  <2>5. ASSUME NEW old \in Sessions, Reclaimable(old),
               sessions' = [sessions EXCEPT ![old] = None, ![s] = NewSession]
        PROVE  Budget!Open(s)
    <3>1. old # s /\ sessions[old] = NewSession
      BY <2>1, <2>5 DEF Reclaimable
    <3>2. Book' = [Book EXCEPT ![old] = None, ![s] = Budget!Unspent]
      BY <2>3, <2>5, <3>1 DEF Book, TypeOK
    <3>3. Book[old] = Budget!Unspent /\ Book[s] = None
      BY <2>1, <2>3, <3>1 DEF Book
    <3> QED
      BY <2>2, <3>2, <3>3 DEF Budget!Open
  <2> QED
    BY <2>1, <2>4, <2>5
<1>4. ASSUME NEW p \in Procs, CommitBundle(p) \/ Save(p), sessions' # sessions
      PROVE  \E s \in Sessions, c \in Charge : Budget!Debit(s, c)
  <2>1. PICK s \in Sessions : Debited(s, p)
    BY <1>4, BundleDebited, RecallDebited DEF TypeOK
  <2>2. /\ s = Session(p) /\ sessions[s] # None /\ sessions'[s] = Debit(p, sessions[s])
        /\ UNCHANGED rows /\ ChargeOf(p) \in Charge /\ Price(ChargeOf(p)) <= sessions[s].remaining
        /\ \A c \in sessions[s].charged : ~Clash(ChargeOf(p), c)
    BY <2>1 DEF Debited
  <2>3. \A x \in Sessions : x # s => sessions'[x] = sessions[x]
    BY <1>4, <2>2 DEF CommitBundle, Save, TypeOK
  <2>4. Debit(p, sessions[s]) \in SessionFile
    BY <1>0, <2>2, DebitTyped
  <2>5. sessions'[s] # None
    BY <2>2, <2>4, DeliveryAssumption DEF DeliveryAssumption
  <2>6. /\ sessions'[s].remaining = sessions[s].remaining - Price(ChargeOf(p))
        /\ sessions'[s].charged = sessions[s].charged \cup {ChargeOf(p)}
    BY <1>0, <2>2 DEF Debit, SessionFile
  <2>7. Book[s] = [remaining |-> sessions[s].remaining, charged |-> sessions[s].charged]
    BY <2>2 DEF Book
  <2>8. Book' = [Book EXCEPT ![s] = [remaining |-> sessions[s].remaining - Price(ChargeOf(p)),
                                     charged |-> sessions[s].charged \cup {ChargeOf(p)}]]
    BY <2>3, <2>5, <2>6 DEF Book
  <2>9. Book[s] # None
    BY <1>0, <2>2, <2>7, DeliveryAssumption DEF DeliveryAssumption, SessionFile
  <2>10. Shown' = Shown
    BY <2>2 DEF Shown
  <2>11. Budget!Debit(s, ChargeOf(p))
    BY <2>2, <2>7, <2>8, <2>9, <2>10 DEF Budget!Debit
  <2> QED
    BY <2>2, <2>11
<1>5. CASE sessions' = sessions
  BY <1>1, <1>5 DEF Book
<1> QED
  BY <1>2, <1>3, <1>4, <1>5, SessionsWritten DEF Budget!Next

\* The sessions implement a budget that takes each charge once, never more
\* than what is left, and shows only what it took.
THEOREM SessionsKeepBudget == Spec => BudgetSpec
<1>1. Init => Budget!Init
  <2> SUFFICES ASSUME Init PROVE Budget!Init
    OBVIOUS
  <2>1. Book = [s \in Sessions |-> None]
    BY DEF Init, Book
  <2>2. Shown = {}
    BY BatchesShape DEF Init, Shown
  <2> QED
    BY <2>1, <2>2 DEF Budget!Init
<1>2. DeliveryInv /\ DeliveryInv' /\ [Next]_vars => [Budget!Next]_<<Book, Shown>>
  <2>1. ASSUME UNCHANGED vars
        PROVE  UNCHANGED <<Book, Shown>>
    BY <2>1 DEF vars, Book, Shown
  <2> QED
    BY <2>1, BookStep
<1> QED
  BY <1>1, <1>2, DeliveryHolds, PTL DEF Spec, BudgetSpec, Budget!Spec

----------------------------------------------------------------------------
(* What was charged, added up.                                             *)

Prices == [c \in Charge |-> Price(c)]

LEMMA PricesTyped == Prices \in [Charge -> Nat]
<1>1. ASSUME NEW c \in Charge PROVE Price(c) \in Nat
  BY ChargeShape, DeliveryAssumption DEF DeliveryAssumption, Price, Bundle
<1> QED
  BY <1>1 DEF Prices

\* The sum that BudgetAddsUp names is the sum of a function.
LEMMA SpentIsSum ==
    ASSUME NEW S \in SUBSET Charge
    PROVE  MapThenSumSet(Price, S) = SumOf(Prices, S)
<1> DEFINE F(h) == [s \in SUBSET S |-> IF s = {} THEN 0 ELSE Price(Pick(s)) + h[s \ {Pick(s)}]]
           G(h) == [s \in SUBSET S |-> IF s = {} THEN 0 ELSE Prices[Pick(s)] + h[s \ {Pick(s)}]]
<1>1. MapThenSumSet(Price, S) = (CHOOSE h : h = F(h))[S]
  BY DEF MapThenSumSet, MapThenFoldSet, Pick
<1>2. SumOf(Prices, S) = (CHOOSE h : h = G(h))[S]
  BY SumIsFold DEF IsFold
<1>3. ASSUME NEW s \in SUBSET S, s # {} PROVE Prices[Pick(s)] = Price(Pick(s))
  BY <1>3, PickIsMember DEF Prices
<1>4. ASSUME NEW h PROVE F(h) = G(h)
  BY <1>3
<1> HIDE DEF F, G
<1>5. \A h : (h = F(h)) <=> (h = G(h))
  BY <1>4
<1>6. (CHOOSE h : h = F(h)) = (CHOOSE h : h = G(h))
  BY <1>5
<1> QED
  BY <1>1, <1>2, <1>6

BudgetKept ==
    \A s \in Sessions : sessions[s] # None =>
        /\ IsFiniteSet(sessions[s].charged)
        /\ sessions[s].remaining + SumOf(Prices, sessions[s].charged) = Total

LEMMA BudgetNext == ASSUME DeliveryInv, BudgetKept, Next PROVE BudgetKept'
<1> SUFFICES ASSUME NEW s \in Sessions, sessions'[s] # None
             PROVE  /\ IsFiniteSet(sessions'[s].charged)
                    /\ sessions'[s].remaining + SumOf(Prices, sessions'[s].charged) = Total
  BY DEF BudgetKept, Prices
<1>1. CASE Kept(s)
  BY <1>1 DEF Kept, BudgetKept
<1>2. CASE Opened(s)
  BY <1>2, PricesTyped, SumOfNothing, FS_EmptySet, DeliveryAssumption
     DEF Opened, NewSession, DeliveryAssumption
<1>3. ASSUME NEW p \in Procs, Debited(s, p)
      PROVE  /\ IsFiniteSet(sessions'[s].charged)
             /\ sessions'[s].remaining + SumOf(Prices, sessions'[s].charged) = Total
  <2> DEFINE c == ChargeOf(p)
             spent == sessions[s].charged
  <2>1. sessions[s] # None /\ sessions[s] \in SessionFile /\ c \in Charge
        /\ sessions'[s] = Debit(p, sessions[s])
    BY <1>3 DEF Debited, DeliveryInv, TypeOK
  <2>2. /\ sessions'[s].remaining = sessions[s].remaining - Price(c)
        /\ sessions'[s].charged = spent \cup {c}
    BY <2>1 DEF Debit, SessionFile
  <2>3. c \notin spent
    BY <1>3 DEF Debited, Clash
  <2>4. /\ IsFiniteSet(spent) /\ spent \in SUBSET Charge
        /\ sessions[s].remaining + SumOf(Prices, spent) = Total
        /\ sessions[s].remaining \in Nat
    BY <2>1, DeliveryAssumption DEF BudgetKept, SessionFile, DeliveryAssumption
  <2>5. Price(c) = Prices[c] /\ Price(c) \in Nat
    BY <2>1, PricesTyped DEF Prices
  <2> HIDE DEF c, spent
  <2>6. SumOf(Prices, spent \cup {c}) = Prices[c] + SumOf(Prices, spent) /\ SumOf(Prices, spent) \in Nat
    BY <2>1, <2>3, <2>4, PricesTyped, SumAddsElement
  <2>7. IsFiniteSet(spent \cup {c})
    BY <2>4, FS_AddElement
  <2>8. (sessions[s].remaining - Price(c)) + (Price(c) + SumOf(Prices, spent)) = Total
    BY <2>4, <2>5, <2>6
  <2> QED
    BY <2>2, <2>5, <2>6, <2>7, <2>8
<1> QED
  BY <1>1, <1>2, <1>3, FileStep DEF Evicted

\* debitContextBudget and the budget of a new session: what is left and what
\* the charges cost is the budget, whoever raced and whatever was cut short.
THEOREM BudgetsAddUp == Spec => []BudgetAddsUp
<1>1. Init => BudgetKept
  BY DEF Init, BudgetKept
<1>2. DeliveryInv /\ BudgetKept /\ [Next]_vars => BudgetKept'
  <2>1. ASSUME BudgetKept, UNCHANGED vars PROVE BudgetKept'
    BY <2>1 DEF vars, BudgetKept, Prices
  <2> QED
    BY <2>1, BudgetNext
<1>3. DeliveryInv /\ BudgetKept => BudgetAddsUp
  <2> SUFFICES ASSUME DeliveryInv, BudgetKept, NEW s \in Sessions, sessions[s] # None
               PROVE  /\ sessions[s].remaining >= 0
                      /\ sessions[s].remaining + MapThenSumSet(Price, sessions[s].charged) = Total
    BY DEF BudgetAddsUp
  <2>1. sessions[s].remaining \in 0 .. Total /\ sessions[s].charged \in SUBSET Charge
    BY DEF DeliveryInv, TypeOK, SessionFile
  <2> QED
    BY <2>1, SpentIsSum DEF BudgetKept
<1> QED
  BY <1>1, <1>2, <1>3, DeliveryHolds, PTL DEF Spec

----------------------------------------------------------------------------
(* The gate of a delivery.                                                 *)

\* Whoever has staged a delivery holds off every change of the gate.
GateHeld == \A p \in Procs : pc[p] = "staged" => task[p].key.gate = gate

LEMMA GateStays ==
    ASSUME DeliveryInv, Next, NEW p \in Procs, pc[p] = "staged"
    PROVE  gate' = gate
<1>1. custody # None
  BY DeliveryAssumption DEF DeliveryInv, HoldersExclude, Holding, DeliveryAssumption
<1>2. ASSUME NEW q \in Procs, Step(q) PROVE gate' = gate
  BY <1>2 DEF Step, Missing, Reserve, Render, RecordRendered, Deny, Redeliver, Stage,
              CommitBundle, AnswerCommitted, Obtain, Persist, Save, Publish, ClearOutbox,
              WriteFeedback
<1>3. ASSUME NEW q \in Procs, Start(q) \/ Fault(q) PROVE gate' = gate
  BY <1>3 DEF Start, Fault, StartPrepare, StartRecall, StartFeedback, StartConfirm
<1> QED
  BY <1>1, <1>2, <1>3 DEF Next, OpenSession, Authorize, ReadEvents, FinishReading, ReaderFault

LEMMA GateNext == ASSUME DeliveryInv, GateHeld, Next PROVE GateHeld'
<1> SUFFICES ASSUME NEW q \in Procs, pc'[q] = "staged" PROVE task'[q].key.gate = gate'
  BY DEF GateHeld
<1>1. CASE pc'[q] = pc[q] /\ task'[q] = task[q]
  BY <1>1, GateStays DEF GateHeld
<1>2. CASE ~(pc'[q] = pc[q] /\ task'[q] = task[q])
  <2>1. Stage(q) \/ CommitBundle(q)
    BY <1>2, CallComesTo
  <2> QED
    BY <2>1 DEF Stage, CommitBundle, Return, Go, DeliveryInv, TypeOK
<1> QED
  BY <1>1, <1>2

\* finalizeDelivery: a bundle is charged under the release gate that it was
\* prepared for, which does not change with the charge either.
THEOREM ChargesPassTheirGate == Spec => ChargedUnderItsGate
<1> DEFINE Gated == \A s \in Sessions : sessions[s] # None /\ sessions'[s] # None =>
                       \A c \in sessions'[s].charged \ sessions[s].charged :
                           c.kind = "emitted" => c.key.gate = gate /\ gate' = gate
<1>1. Init => GateHeld
  BY DEF Init, GateHeld
<1>2. DeliveryInv /\ GateHeld /\ [Next]_vars => GateHeld'
  <2>1. ASSUME GateHeld, UNCHANGED vars PROVE GateHeld'
    BY <2>1 DEF vars, GateHeld
  <2> QED
    BY <2>1, GateNext
<1>3. DeliveryInv /\ GateHeld /\ Next => Gated
  <2> SUFFICES ASSUME DeliveryInv, GateHeld, Next, NEW s \in Sessions, sessions'[s] # None,
                      NEW c \in sessions'[s].charged, sessions[s] # None,
                      c \notin sessions[s].charged, c.kind = "emitted"
               PROVE  c.key.gate = gate /\ gate' = gate
    OBVIOUS
  <2>1. PICK p \in Procs : Debited(s, p) /\ c = ChargeOf(p)
    BY ChargesComeFrom
  <2>2. pc[p] = "staged" /\ c.key = task[p].key
    <3>1. pc[p] # "persisted"
      BY <2>1, ChargeOfTyped DEF DeliveryInv
    <3> QED
      BY <2>1, <3>1 DEF Debited, ChargeOf
  <2> QED
    BY <2>2, GateStays DEF GateHeld
<1>4. DeliveryInv /\ GateHeld /\ [Next]_vars => [Gated]_vars
  BY <1>3
<1> QED
  BY <1>1, <1>2, <1>4, DeliveryHolds, PTL DEF Spec, ChargedUnderItsGate

----------------------------------------------------------------------------
(* The limits that parseStoredSession checks.                              *)

\* What is charged or under way was attempted, and is so in the file; whoever
\* has persisted a recall still has the room that it looked at.
AttemptsKept ==
    /\ \A p \in Procs :
          /\ pc[p] \in {"rendering", "proposed", "validated", "staged", "answering"} =>
                File(p) # None /\ task[p].key \in File(p).attempted
          /\ pc[p] = "persisted" =>
                /\ Cardinality(Recalls(File(p))) < MaxRecalls
                /\ Cardinality(File(p).pending) + Lifecycle <= MaxPending
    /\ \A r \in rows : r.kind = "rendered" =>
          /\ r.key \in Bundle /\ r.key.session = r.session
          /\ sessions[r.session] # None /\ r.key \in sessions[r.session].attempted

Bounded(file) ==
    /\ IsFiniteSet(file.charged) /\ IsFiniteSet(file.attempted) /\ IsFiniteSet(file.pending)
    /\ Readable(file)
    /\ \A c \in file.charged : c.kind = "emitted" => c.key \in file.attempted

LimitsKept == AttemptsKept /\ \A s \in Sessions : sessions[s] # None => Bounded(sessions[s])

\* The ways in which a step writes a session file.
LEMMA FileWritten ==
    ASSUME DeliveryInv, Next, NEW s \in Sessions, sessions'[s] # None
    PROVE  \/ sessions'[s] = sessions[s]
           \/ sessions[s] = None /\ sessions'[s] = NewSession
           \/ /\ sessions[s] # None
              /\ \E cleared : sessions'[s] = [sessions[s] EXCEPT !.pending = @ \ cleared]
           \/ \E p \in Procs :
                 /\ Reserve(p) /\ s = Session(p) /\ sessions[s] # None
                 /\ HasRoom(sessions[s], task[p].key)
                 /\ sessions'[s] = [sessions[s] EXCEPT !.attempted = @ \cup {task[p].key}]
           \/ \E p \in Procs : (CommitBundle(p) \/ Save(p)) /\ Debited(s, p)
<1> USE DEF DeliveryInv, TypeOK
<1>1. ASSUME NEW x \in Sessions, OpenSession(x), sessions'[s] # sessions[s]
      PROVE  sessions[s] = None /\ sessions'[s] = NewSession
  BY <1>1 DEF OpenSession
<1>2. ASSUME FinishReading
      PROVE  sessions[s] # None /\ sessions'[s] = [sessions[s] EXCEPT !.pending = @ \ reading]
  BY <1>2 DEF FinishReading
<1>3. ASSUME NEW p \in Procs, ClearOutbox(p), sessions'[s] # sessions[s]
      PROVE  sessions[s] # None /\ sessions'[s] = [sessions[s] EXCEPT !.pending = @ \ Own(p)]
  <2>1. s = Session(p)
    BY <1>3 DEF ClearOutbox
  <2>2. sessions[s] # None
    BY <1>3, <2>1 DEF ClearOutbox, CallsKnow, File
  <2> QED
    BY <1>3, <2>1, <2>2 DEF ClearOutbox
<1>4. ASSUME NEW p \in Procs, Reserve(p), sessions'[s] # sessions[s]
      PROVE  /\ s = Session(p) /\ sessions[s] # None /\ HasRoom(sessions[s], task[p].key)
             /\ sessions'[s] = [sessions[s] EXCEPT !.attempted = @ \cup {task[p].key}]
  BY <1>4 DEF Reserve, File
<1> QED
  BY <1>1, <1>2, <1>3, <1>4, SessionsWritten, BundleDebited, RecallDebited

\* What was attempted stays in its file, which is not reclaimed any more.
LEMMA AttemptsStay ==
    ASSUME DeliveryInv, Next, NEW s \in Sessions, sessions[s] # None,
           NEW k \in sessions[s].attempted
    PROVE  sessions'[s] # None /\ k \in sessions'[s].attempted
<1>1. sessions[s] \in SessionFile
  BY DEF DeliveryInv, TypeOK
<1>2. ASSUME NEW p \in Procs, Debited(s, p)
      PROVE  sessions'[s] # None /\ k \in sessions'[s].attempted
  <2>1. sessions'[s] = Debit(p, sessions[s]) /\ Debit(p, sessions[s]) \in SessionFile
    BY <1>1, <1>2, DebitTyped DEF Debited, DeliveryInv
  <2> QED
    BY <1>1, <2>1, DeliveryAssumption DEF DeliveryAssumption, Debit, SessionFile
<1>3. sessions'[s] # None
  BY <1>2, FileStep DEF Kept, Evicted, Reclaimable, NewSession, Opened
<1>4. ASSUME NEW cleared, sessions'[s] = [sessions[s] EXCEPT !.pending = @ \ cleared]
      PROVE  k \in sessions'[s].attempted
  BY <1>1, <1>4 DEF SessionFile
<1>5. ASSUME NEW p \in Procs, sessions'[s] = [sessions[s] EXCEPT !.attempted = @ \cup {task[p].key}]
      PROVE  k \in sessions'[s].attempted
  BY <1>1, <1>5 DEF SessionFile
<1> QED
  BY <1>2, <1>3, <1>4, <1>5, FileWritten

LEMMA AttemptsNext == ASSUME DeliveryInv, LimitsKept, Next PROVE AttemptsKept'
<1> USE DEF DeliveryInv
<1>1. ASSUME NEW q \in Procs,
             pc'[q] \in {"rendering", "proposed", "validated", "staged", "answering"}
      PROVE  File(q)' # None /\ task'[q].key \in File(q)'.attempted
  <2>1. ASSUME pc[q] \in {"rendering", "proposed", "validated", "staged", "answering"},
               task'[q] = task[q]
        PROVE  File(q)' # None /\ task'[q].key \in File(q)'.attempted
    <3>1. /\ Session(q) \in Sessions /\ File(q) # None /\ task[q].key \in File(q).attempted
      BY <2>1 DEF LimitsKept, AttemptsKept, CallsTyped
    <3> QED
      BY <2>1, <3>1, AttemptsStay DEF File, Session
  <2>2. ASSUME NEW s \in Sessions, sessions[s] # None, NEW b \in sessions[s].attempted,
               task'[q].session = s, task'[q].key = b
        PROVE  File(q)' # None /\ task'[q].key \in File(q)'.attempted
    BY <2>2, AttemptsStay DEF File, Session
  <2>3. ASSUME Reserve(q), pc'[q] # "idle"
        PROVE  File(q)' # None /\ task'[q].key \in File(q)'.attempted
    <3>1. /\ task' = task /\ File(q) # None /\ Session(q) \in Sessions /\ task[q].key \in Bundle
          /\ sessions' = [sessions EXCEPT ![Session(q)].attempted = @ \cup {task[q].key}]
      BY <2>3 DEF Reserve, Return, Go, TypeOK, CallsTyped
    <3>2. sessions[Session(q)] \in SessionFile
      BY <3>1 DEF TypeOK, File
    <3>3. sessions'[Session(q)] = [sessions[Session(q)] EXCEPT !.attempted = @ \cup {task[q].key}]
      BY <3>1 DEF TypeOK
    <3>4. sessions'[Session(q)] \in SessionFile /\ task[q].key \in sessions'[Session(q)].attempted
      BY <3>1, <3>2, <3>3 DEF SessionFile
    <3>5. sessions'[Session(q)] # None
      BY <3>4, DeliveryAssumption DEF DeliveryAssumption
    <3> QED
      BY <3>1, <3>4, <3>5 DEF File, Session
  <2>4. ASSUME NEW b \in Prepared, StartConfirm(q, b)
        PROVE  File(q)' # None /\ task'[q].key \in File(q)'.attempted
    <3>1. PICK r \in rows : r.kind = "rendered" /\ r.key = b
      BY <2>4 DEF Prepared
    <3>2. /\ r.session \in Sessions /\ b.session = r.session
          /\ sessions[b.session] # None /\ b \in sessions[b.session].attempted
      BY <3>1, RowsTyped DEF LimitsKept, AttemptsKept
    <3>3. task'[q].session = b.session /\ task'[q].key = b
      BY <2>4 DEF StartConfirm, Begin, Call, TypeOK
    <3> QED
      BY <2>2, <3>2, <3>3
  <2>5. \/ pc[q] \in {"rendering", "proposed", "validated", "staged", "answering"} /\ task'[q] = task[q]
        \/ Reserve(q) /\ pc'[q] # "idle"
        \/ \E b \in Prepared : StartConfirm(q, b)
    <3>1. CASE pc'[q] = pc[q] /\ task'[q] = task[q]
      BY <1>1, <3>1
    <3>2. CASE Step(q)
      BY <1>1, <3>2 DEF Step, Missing, Reserve, Render, RecordRendered, Deny, Redeliver, Stage,
                  CommitBundle, AnswerCommitted, Obtain, Persist, Save, Publish, ClearOutbox,
                  WriteFeedback, Return, Go, TypeOK
    <3>3. CASE Start(q) \/ Fault(q)
      BY <1>1, <3>3 DEF Start, Fault, StartPrepare, StartRecall, StartFeedback, Begin,
                        Return, Go, TypeOK
    <3> QED
      BY <3>1, <3>2, <3>3, CallStep
  <2> QED
    BY <2>1, <2>3, <2>4, <2>5
<1>2. ASSUME NEW q \in Procs, pc'[q] = "persisted"
      PROVE  /\ Cardinality(Recalls(File(q)))' < MaxRecalls
             /\ Cardinality(File(q).pending)' + Lifecycle <= MaxPending
  <2>1. CASE pc'[q] = pc[q] /\ task'[q] = task[q]
    <3>1. sessions' = sessions
      BY <1>2, <2>1, PersistedAlone
    <3>2. File(q)' = File(q)
      BY <2>1, <3>1 DEF File, Session
    <3> QED
      BY <1>2, <2>1, <3>2 DEF LimitsKept, AttemptsKept, Recalls
  <2>2. CASE ~(pc'[q] = pc[q] /\ task'[q] = task[q])
    <3>1. Persist(q)
      BY <1>2, <2>2, CallComesTo
    <3>2. RecallFits(q) /\ sessions' = sessions /\ task' = task
      BY <1>2, <3>1 DEF Persist, Return, Go, TypeOK
    <3> QED
      BY <3>2 DEF RecallFits, File, Session, Recalls
  <2> QED
    BY <2>1, <2>2
<1>3. ASSUME NEW r \in rows', r.kind = "rendered"
      PROVE  /\ r.key \in Bundle /\ r.key.session = r.session
             /\ sessions'[r.session] # None /\ r.key \in sessions'[r.session].attempted
  <2>1. /\ r.key \in Bundle /\ r.key.session = r.session /\ r.session \in Sessions
        /\ sessions[r.session] # None /\ r.key \in sessions[r.session].attempted
    <3>1. CASE r \in rows
      BY <1>3, <3>1, RowsTyped DEF LimitsKept, AttemptsKept
    <3>2. CASE r \notin rows
      <4>1. Recorded(r)
        BY <1>3, <3>2, RowsComeFrom, PublishedShape
      <4>2. PICK p \in Procs : pc[p] = "proposed" /\ r = Record(p, "rendered")
        BY <1>3, <4>1, RecordedShape
      <4>3. /\ r.key = task[p].key /\ r.session = Session(p)
            /\ Session(p) \in Sessions /\ task[p].key \in Bundle /\ task[p].key.session = Session(p)
        BY <4>2 DEF Record, CallsTyped
      <4> QED
        BY <4>2, <4>3 DEF LimitsKept, AttemptsKept, File
    <3> QED
      BY <3>1, <3>2
  <2> QED
    BY <2>1, AttemptsStay
<1> QED
  BY <1>1, <1>2, <1>3 DEF AttemptsKept

\* A publication is one batch, and that of a recall as many as its life has parts.
LEMMA BatchesCounted ==
    ASSUME NEW s \in Sessions, NEW c \in Charge
    PROVE  /\ IsFiniteSet(BatchesOf(s, c))
           /\ Cardinality(BatchesOf(s, c)) <= IF c.kind = "recall" THEN Lifecycle ELSE 1
<1> DEFINE f == [b \in BatchesOf(s, c) |-> b.part]
           n == IF c.kind = "recall" THEN Lifecycle ELSE 1
<1>1. n \in Nat /\ Parts(c.kind) = 1 .. n
  <2>1. {1} = 1 .. 1
    OBVIOUS
  <2> QED
    BY <2>1, DeliveryAssumption DEF Parts, DeliveryAssumption
<1>2. IsFiniteSet(1 .. n) /\ Cardinality(1 .. n) = n
  BY <1>1, FS_Interval
<1>3. f \in Injection(BatchesOf(s, c), 1 .. n)
  <2>1. \A b \in BatchesOf(s, c) : b.part \in 1 .. n
    BY <1>1, BatchesShape
  <2>2. \A a, b \in BatchesOf(s, c) : a.part = b.part => a = b
    BY DEF BatchesOf
  <2> QED
    BY <2>1, <2>2 DEF Injection, IsInjective
<1> HIDE DEF f, n
<1>4. IsFiniteSet(BatchesOf(s, c)) /\ Cardinality(BatchesOf(s, c)) <= n
  BY <1>2, <1>3, FS_Injection
<1> QED
  BY <1>4 DEF n

LEMMA BoundedNext ==
    ASSUME DeliveryInv, LimitsKept, Next, NEW s \in Sessions, sessions'[s] # None
    PROVE  Bounded(sessions'[s])
<1> USE DEF DeliveryInv
<1>0. ASSUME sessions[s] # None
      PROVE  /\ sessions[s] \in SessionFile /\ Bounded(sessions[s])
             /\ MaxBundles \in Nat /\ MaxRecalls \in Nat /\ MaxPending \in Nat
  BY <1>0, DeliveryAssumption DEF LimitsKept, TypeOK, DeliveryAssumption
<1>1. CASE sessions'[s] = sessions[s]
  BY <1>0, <1>1
<1>2. CASE sessions'[s] = NewSession
  <2>1. Recalls(NewSession) = {} /\ NewSession.charged \ Recalls(NewSession) = {}
    BY DEF Recalls, NewSession
  <2>2. Readable(NewSession)
    BY <2>1, FS_EmptySet, DeliveryAssumption DEF Readable, NewSession, DeliveryAssumption
  <2> QED
    BY <1>2, <2>2, FS_EmptySet DEF Bounded, NewSession
<1>3. ASSUME sessions[s] # None, NEW cleared,
             sessions'[s] = [sessions[s] EXCEPT !.pending = @ \ cleared]
      PROVE  Bounded(sessions'[s])
  <2> DEFINE file == sessions[s]
             rest == file.pending \ cleared
  <2>1. sessions'[s].pending = rest /\ sessions'[s].charged = file.charged
        /\ sessions'[s].attempted = file.attempted
    BY <1>0, <1>3 DEF SessionFile
  <2>2. IsFiniteSet(file.pending) /\ Cardinality(file.pending) <= MaxPending
    BY <1>0, <1>3 DEF Bounded, Readable
  <2>3. IsFiniteSet(rest) /\ Cardinality(rest) <= Cardinality(file.pending)
    BY <2>2, FS_Subset
  <2>4. Cardinality(rest) \in Nat /\ Cardinality(file.pending) \in Nat
    BY <2>2, <2>3, FS_CardinalityType
  <2>5. Cardinality(rest) <= MaxPending
    BY <1>0, <1>3, <2>2, <2>3, <2>4
  <2> QED
    BY <1>0, <1>3, <2>1, <2>3, <2>5 DEF Bounded, Readable, Recalls
<1>4. ASSUME NEW p \in Procs, sessions[s] # None, HasRoom(sessions[s], task[p].key),
             sessions'[s] = [sessions[s] EXCEPT !.attempted = @ \cup {task[p].key}]
      PROVE  Bounded(sessions'[s])
  <2> DEFINE file == sessions[s]
             more == file.attempted \cup {task[p].key}
  <2>1. sessions'[s].attempted = more /\ sessions'[s].charged = file.charged
        /\ sessions'[s].pending = file.pending
    BY <1>0, <1>4 DEF SessionFile
  <2>2. IsFiniteSet(file.attempted) /\ Cardinality(file.attempted) <= MaxBundles
    BY <1>0, <1>4 DEF Bounded, Readable
  <2>3. /\ IsFiniteSet(more)
        /\ Cardinality(more) = IF task[p].key \in file.attempted THEN Cardinality(file.attempted)
                               ELSE Cardinality(file.attempted) + 1
    BY <2>2, FS_AddElement
  <2>4. Cardinality(file.attempted) \in Nat
    BY <2>2, FS_CardinalityType
  <2>5. Cardinality(more) <= MaxBundles
    BY <1>0, <1>4, <2>2, <2>3, <2>4 DEF HasRoom
  <2> QED
    BY <1>0, <1>4, <2>1, <2>3, <2>5 DEF Bounded, Readable, Recalls
<1>5. ASSUME NEW p \in Procs, CommitBundle(p) \/ Save(p), Debited(s, p)
      PROVE  Bounded(sessions'[s])
  <2> DEFINE file == sessions[s]
             c == ChargeOf(p)
             more == file.charged \cup {c}
             batches == BatchesOf(s, c)
             outbox == file.pending \cup batches
             limit == IF c.kind = "recall" THEN Lifecycle ELSE 1
  <2>1. /\ file # None /\ file \in SessionFile /\ Bounded(file) /\ c \in Charge
        /\ sessions'[s] = Debit(p, file) /\ s = Session(p)
        /\ \A d \in file.charged : ~Clash(d, c)
        /\ MaxBundles \in Nat /\ MaxRecalls \in Nat /\ MaxPending \in Nat
    BY <1>0, <1>5 DEF Debited
  <2>2. /\ sessions'[s].charged = more /\ sessions'[s].pending = outbox
        /\ sessions'[s].attempted = file.attempted
    BY <2>1 DEF Debit, SessionFile
  <2>3. \/ /\ pc[p] = "staged" /\ c.kind = "emitted" /\ c.key = task[p].key
           /\ c.key \in file.attempted /\ Cardinality(file.pending) < MaxPending
        \/ /\ pc[p] = "persisted" /\ c.kind = "recall"
           /\ Cardinality(Recalls(file)) < MaxRecalls
           /\ Cardinality(file.pending) + Lifecycle <= MaxPending
    <3>1. CASE CommitBundle(p)
      <4>1. /\ pc[p] = "staged" /\ c.kind = "emitted" /\ c.key = task[p].key
            /\ c.key \in file.attempted
        BY <2>1, <3>1, ChargeOfTyped DEF CommitBundle, ChargeOf, LimitsKept, AttemptsKept, File
      <4>2. sessions' # sessions
        <5>1. c \in sessions'[s].charged /\ c \notin file.charged
          BY <2>1, <2>2 DEF Clash
        <5> QED
          BY <5>1
      <4>3. BundleFits(p)
        BY <3>1, <4>2 DEF CommitBundle
      <4> QED
        BY <2>1, <4>1, <4>3 DEF BundleFits, File
    <3>2. CASE Save(p)
      BY <2>1, <3>2, ChargeOfTyped DEF Save, LimitsKept, AttemptsKept, File
    <3> QED
      BY <1>5, <3>1, <3>2
  <2>4. /\ IsFiniteSet(file.charged) /\ IsFiniteSet(file.attempted) /\ IsFiniteSet(file.pending)
        /\ Cardinality(file.attempted) <= MaxBundles /\ Cardinality(Recalls(file)) <= MaxRecalls
        /\ \A d \in file.charged : d.kind = "emitted" => d.key \in file.attempted
    BY <2>1 DEF Bounded, Readable
  <2>5. IsFiniteSet(more)
    BY <2>4, FS_AddElement
  <2>6. \A d \in more : d.kind = "emitted" => d.key \in file.attempted
    BY <2>3, <2>4
  <2>7. IsFiniteSet(outbox) /\ Cardinality(outbox) <= MaxPending
    <3>1. IsFiniteSet(batches) /\ Cardinality(batches) <= limit
      BY <2>1, BatchesCounted
    <3>2. /\ IsFiniteSet(outbox) /\ IsFiniteSet(file.pending \cap batches)
          /\ Cardinality(outbox) = Cardinality(file.pending) + Cardinality(batches)
                                       - Cardinality(file.pending \cap batches)
      BY <2>4, <3>1, FS_Union, FS_Intersection
    <3>3. /\ Cardinality(outbox) \in Nat /\ Cardinality(file.pending) \in Nat
          /\ Cardinality(batches) \in Nat /\ Cardinality(file.pending \cap batches) \in Nat
      BY <2>4, <3>1, <3>2, FS_CardinalityType
    <3>4. Lifecycle \in Nat
      BY DeliveryAssumption DEF DeliveryAssumption
    <3> HIDE DEF file, batches, outbox
    <3>5. Cardinality(file.pending) + limit <= MaxPending
      BY <2>1, <2>3, <3>3 DEF file
    <3> QED
      BY <2>1, <3>1, <3>2, <3>3, <3>4, <3>5
  <2>8. Cardinality(more \ Recalls(sessions'[s])) <= MaxBundles
    <3> DEFINE bundles == {d \in more : d.kind # "recall"}
               f == [d \in bundles |-> d.key]
    <3>1. more \ Recalls(sessions'[s]) = bundles
      BY <2>2 DEF Recalls
    <3>2. \A d \in bundles : d.key \in file.attempted
      <4>1. \A d \in more : d \in Charge
        BY <2>1 DEF SessionFile
      <4> QED
        BY <2>6, <4>1, ChargeShape
    <3>3. \A d, e \in bundles : d.key = e.key => d = e
      <4>1. \A d \in bundles : d \in Charge /\ d.kind = "emitted"
        <5>1. \A d \in more : d \in Charge
          BY <2>1 DEF SessionFile
        <5> QED
          BY <5>1, ChargeShape
      <4>2. \A d, e \in file.charged : Clash(d, e) => d = e
        BY <2>1 DEF ChargedOnce
      <4> QED
        BY <2>1, <4>1, <4>2 DEF Clash
    <3>4. f \in Injection(bundles, file.attempted)
      BY <3>2, <3>3 DEF Injection, IsInjective
    <3> HIDE DEF bundles, f
    <3>5. IsFiniteSet(bundles) /\ Cardinality(bundles) <= Cardinality(file.attempted)
      BY <2>4, <3>4, FS_Injection
    <3>6. Cardinality(bundles) \in Nat /\ Cardinality(file.attempted) \in Nat
      BY <2>4, <3>5, FS_CardinalityType
    <3> QED
      BY <2>1, <2>4, <3>1, <3>5, <3>6
  <2>9. Cardinality(Recalls(sessions'[s])) <= MaxRecalls
    <3>1. IsFiniteSet(Recalls(file))
      BY <2>4, FS_Subset DEF Recalls
    <3>2. Cardinality(Recalls(file)) \in Nat
      BY <3>1, FS_CardinalityType
    <3>3. CASE c.kind = "recall"
      <4>1. Recalls(sessions'[s]) = Recalls(file) \cup {c}
        BY <2>2, <3>3 DEF Recalls
      <4>2. Cardinality(Recalls(file) \cup {c}) <= Cardinality(Recalls(file)) + 1
        <5>1. Cardinality(Recalls(file) \cup {c}) =
                  IF c \in Recalls(file) THEN Cardinality(Recalls(file))
                  ELSE Cardinality(Recalls(file)) + 1
          BY <3>1, FS_AddElement
        <5> QED
          BY <3>2, <5>1
      <4>3. Cardinality(Recalls(file) \cup {c}) \in Nat
        BY <3>1, FS_AddElement, FS_CardinalityType
      <4> QED
        BY <2>1, <2>3, <3>2, <3>3, <4>1, <4>2, <4>3
    <3>4. CASE c.kind # "recall"
      <4>1. Recalls(sessions'[s]) = Recalls(file)
        BY <2>2, <3>4 DEF Recalls
      <4> QED
        BY <2>4, <4>1
    <3> QED
      BY <3>3, <3>4
  <2> HIDE DEF file, more, outbox
  <2> QED
    BY <2>2, <2>4, <2>5, <2>6, <2>7, <2>8, <2>9 DEF Bounded, Readable
<1> QED
  BY <1>1, <1>2, <1>3, <1>4, <1>5, FileWritten

\* parseStoredSession: no sequence of calls, races and faults takes a session
\* past a limit for which its next read would reject it.
THEOREM SessionsStayReadable == Spec => []SessionsReadable
<1>1. Init => LimitsKept
  BY DEF Init, LimitsKept, AttemptsKept
<1>2. DeliveryInv /\ LimitsKept /\ [Next]_vars => LimitsKept'
  <2>1. ASSUME LimitsKept, UNCHANGED vars PROVE LimitsKept'
    BY <2>1 DEF vars, LimitsKept, AttemptsKept, Bounded, Readable, Recalls, File, Session
  <2>2. ASSUME DeliveryInv, LimitsKept, Next PROVE LimitsKept'
    <3>1. AttemptsKept'
      BY <2>2, AttemptsNext
    <3>2. \A s \in Sessions : sessions'[s] # None => Bounded(sessions'[s])
      BY <2>2, BoundedNext
    <3> QED
      BY <3>1, <3>2 DEF LimitsKept, Bounded, Readable, Recalls
  <2> QED
    BY <2>1, <2>2
<1>3. LimitsKept => SessionsReadable
  BY DEF LimitsKept, SessionsReadable, Bounded
<1> QED
  BY <1>1, <1>2, <1>3, DeliveryHolds, PTL DEF Spec

=============================================================================
