------------------------ MODULE InsightLedgerProofs ------------------------
(***************************************************************************)
(* Proofs about InsightLedger, for every set of writers, insights and      *)
(* keys, whatever the commands are and whichever writers die.  Until the   *)
(* lock was passed by, by a waiter that removed the lock of a live writer  *)
(* or by a migration, writers exclude each other, the published history is *)
(* linear, nothing that was answered with success is lost and publications *)
(* are whole.  In any case a ledger has a command once, a key names one    *)
(* command, and every saved ledger passes its validation: of Current that  *)
(* needs only that it reads the commands of its ledger.                    *)
(***************************************************************************)
EXTENDS InsightLedger, WellFoundedInduction, TLAPS

LEMMA ToSetOfAppend ==
    ASSUME NEW S, NEW s \in Seq(S), NEW x
    PROVE  ToSet(Append(s, x)) = ToSet(s) \cup {x}
<1>1. \A i \in 1 .. Len(s) : Append(s, x)[i] = s[i]
  OBVIOUS
<1>2. DOMAIN Append(s, x) = DOMAIN s \cup {Len(s) + 1} /\ Append(s, x)[Len(s) + 1] = x
  OBVIOUS
<1> QED
  BY <1>1, <1>2 DEF ToSet

LEMMA PublishedIsLedger == TypeOK => <<>> \in Ledgers /\ Published \in Ledgers
<1> SUFFICES ASSUME TypeOK PROVE <<>> \in Ledgers /\ Published \in Ledgers
  OBVIOUS
<1>1. <<>> \in Ledgers
  BY DEF Ledgers
<1>2. pointer # None => pointer.ledger \in Ledgers
  BY DEF TypeOK, Pointers
<1> QED
  BY <1>1, <1>2 DEF Published

LEMMA CompilationIsPointer ==
    ASSUME TypeOK, NEW l \in Ledgers
    PROVE  Compilation(l) \in Pointers /\ Compilation(l).ledger = l
  BY DEF TypeOK, Compilation, Pointers, Output, Active

LEMMA InitInsight == Init => LedgerInv
<1> SUFFICES ASSUME Init PROVE LedgerInv
  OBVIOUS
<1> USE InsightAssumption DEF Init, InsightAssumption
<1>1. TypeOK
  <2>1. <<>> \in Ledgers /\ <<>> \in Seq(Inputs) /\ 0 \in Contexts
    BY DEF Ledgers, Contexts
  <2>2. draft \in Seq(Inputs) /\ Len(draft) <= MaxDrafts /\ acked \subseteq 1 .. Len(draft)
    BY <2>1
  <2>3. /\ ledgers \subseteq Ledgers /\ rows \in Ledgers /\ context \in Contexts
        /\ next \in [Writers -> Ledgers] /\ pc \in [Writers -> Steps]
    BY <2>1 DEF Steps
  <2>4. /\ artifact \in [SUBSET Insights -> Pointers \cup {None}]
        /\ task \in [Writers -> (0 .. Len(draft)) \cup {None}]
        /\ read \in [Writers -> Pointers \cup {None}]
        /\ compiled \in [Writers -> Pointers \cup {None}]
    OBVIOUS
  <2> QED
    BY <2>2, <2>3, <2>4 DEF TypeOK
<1>2. HasTask /\ MigratesLegacy /\ HolderHasLock /\ PreparesNext
  BY DEF HasTask, MigratesLegacy, HolderHasLock, PreparesNext, WaitSteps, HoldSteps, LockedSteps
<1>3. Kept
  BY DEF Kept
<1> QED
  BY <1>1, <1>2, <1>3 DEF LedgerInv

LEMMA ReturnTypes ==
    ASSUME TypeOK, NEW w \in Writers, Return(w)
    PROVE  /\ pc' \in [Writers -> Steps]
           /\ task' \in [Writers -> (0 .. Len(draft)) \cup {None}]
           /\ next' \in [Writers -> Ledgers]
           /\ read' \in [Writers -> Pointers \cup {None}]
           /\ compiled' \in [Writers -> Pointers \cup {None}]
<1>1. <<>> \in Ledgers
  BY PublishedIsLedger
<1>2. "idle" \in Steps
  BY DEF Steps
<1> QED
  BY <1>1, <1>2 DEF Return, Forget, Goto, Set, TypeOK

LEMMA ReadTypes ==
    ASSUME TypeOK, NEW w \in Writers, Read(w)
    PROVE  /\ pc' \in [Writers -> Steps]
           /\ read' \in [Writers -> Pointers \cup {None}]
           /\ UNCHANGED <<files, lock, task, next, compiled, world, strays>>
<1>1. {"check", "finish"} \subseteq Steps
  BY DEF Steps, HoldSteps, LockedSteps
<1>2. /\ pc \in [Writers -> Steps] /\ read \in [Writers -> Pointers \cup {None}]
      /\ pointer \in Pointers \cup {None}
  BY DEF TypeOK
<1>3. /\ \/ pc' = [pc EXCEPT ![w] = "check"]
         \/ pc' = [pc EXCEPT ![w] = "finish"]
      /\ \/ read' = [read EXCEPT ![w] = pointer]
         \/ read' = read
      /\ UNCHANGED <<files, lock, task, next, compiled, world, strays>>
  BY DEF Read, Goto, Set
<1>4. pc' \in [Writers -> Steps]
  BY <1>1, <1>2, <1>3
<1>5. read' \in [Writers -> Pointers \cup {None}]
  BY <1>2, <1>3
<1> QED
  BY <1>3, <1>4, <1>5

LEMMA CheckTypes ==
    ASSUME TypeOK, HasTask, NEW w \in Writers, Check(w)
    PROVE  /\ pc' \in [Writers -> Steps]
           /\ next' \in [Writers -> Ledgers]
           /\ UNCHANGED <<files, lock, task, read, compiled, world, strays>>
<1>1. {"save", "compile", "finish"} \subseteq Steps
  BY DEF Steps, HoldSteps, LockedSteps
<1>2. pc \in [Writers -> Steps] /\ next \in [Writers -> Ledgers]
  BY DEF TypeOK
<1>3. ReadLedger(w) \in Ledgers
  <2>1. read[w] \in Pointers \cup {None}
    BY DEF TypeOK
  <2> QED
    BY <2>1, PublishedIsLedger DEF ReadLedger, Pointers
<1>4. UNCHANGED <<files, lock, task, read, compiled, world, strays>>
  BY DEF Check
<1>5. \E step \in {"save", "compile", "finish"} : pc' = [pc EXCEPT ![w] = step]
  BY DEF Check, CheckRecompile, CheckCommand, Goto
<1>6. next' = next \/ \E ledger \in Ledgers : next' = [next EXCEPT ![w] = ledger]
  <2>1. CASE task[w] = Recompile
    BY <1>3, <2>1 DEF Check, CheckRecompile, Set
  <2>2. CASE task[w] # Recompile
    <3>1. task[w] \in Drafts
      BY <2>2, InsightAssumption
         DEF Check, At, HasTask, LockedSteps, Recompile, Drafts, InsightAssumption, TypeOK
    <3>2. Append(ReadLedger(w), task[w]) \in Ledgers
      BY <1>3, <3>1 DEF Ledgers
    <3> QED
      BY <1>3, <2>2, <3>2 DEF Check, CheckCommand, Set
  <2> QED
    BY <2>1, <2>2
<1>7. pc' \in [Writers -> Steps]
  BY <1>1, <1>2, <1>5
<1>8. next' \in [Writers -> Ledgers]
  BY <1>2, <1>6
<1> QED
  BY <1>4, <1>7, <1>8

------------------------------------------------------------------------------
(* Types, action by action.                                                  *)

LEMMA TypeNext == TypeOK /\ HasTask /\ [Next]_vars => TypeOK'
<1> SUFFICES ASSUME TypeOK, HasTask, [Next]_vars PROVE TypeOK'
  OBVIOUS
<1> USE DEF TypeOK, At, Goto, Set, Steps, WaitSteps, HoldSteps, LockedSteps, MigrateSteps, Strays,
            files, locals, world
<1>0. <<>> \in Ledgers /\ Published \in Ledgers
  BY PublishedIsLedger
<1>1. ASSUME NEW command \in Commands, NEW i \in Insights, NEW target \in Insights,
             NEW key \in Keys \cup {None}, Draft(command, i, target, key)
      PROVE TypeOK'
  <2> DEFINE c == [command |-> command, insight |-> i, target |-> target, key |-> key,
                   base |-> Published]
  <2>1. /\ Len(draft) < MaxDrafts /\ draft' = Append(draft, c)
        /\ UNCHANGED <<files, lock, pc, locals, context, incarnation, calls, clock, strays>>
    BY <1>1 DEF Draft
  <2>2. c \in Inputs
    BY <1>0 DEF Inputs
  <2>3. draft' \in Seq(Inputs) /\ Len(draft') = Len(draft) + 1 /\ Len(draft) \in Nat
    BY <2>1, <2>2
  <2>4. Len(draft') <= MaxDrafts /\ 0 .. Len(draft) \subseteq 0 .. Len(draft')
        /\ 1 .. Len(draft) \subseteq 1 .. Len(draft')
    BY <2>1, <2>3, InsightAssumption DEF InsightAssumption
  <2> QED
    BY <2>1, <2>3, <2>4
<1>2. CASE Ingest
  BY <1>2 DEF Ingest
<1>3. ASSUME NEW w \in Writers, Start(w) \/ StartMigration(w) PROVE TypeOK'
  <2>1. PICK t \in (0 .. Len(draft)) \cup {None}, step \in {"open", "migrate"} : Call(w, t, step)
    BY <1>3 DEF Start, StartMigration
  <2> QED
    BY <2>1 DEF Call
<1>4. ASSUME NEW w \in Writers, Locking(w) PROVE TypeOK'
  <2>1. CASE Create(w)
    BY <2>1 DEF Create, Run, Runs, Locks
  <2>2. CASE Write(w)
    <3>1. CASE lock = None
      BY <2>2, <3>1, ReturnTypes DEF Write
    <3>2. CASE lock # None
      BY <2>2, <3>2 DEF Write, Run, Runs, Locks
    <3> QED
      BY <3>1, <3>2
  <2>3. CASE Exists(w) \/ Examine(w)
    <3>1. CASE Return(w)
      BY <2>3, <3>1, ReturnTypes DEF Exists, Examine
    <3>2. CASE ~Return(w)
      BY <2>3, <3>2 DEF Exists, Examine
    <3> QED
      BY <3>1, <3>2
  <2>4. CASE Unlink(w) \/ Finish(w) \/ Release(w)
    <3>1. CASE Return(w)
      BY <2>4, <3>1, ReturnTypes DEF Unlink, Finish, Release
    <3>2. CASE ~Return(w)
      BY <2>4, <3>2 DEF Unlink, Finish, Release
    <3> QED
      BY <3>1, <3>2
  <2> QED
    BY <1>4, <2>1, <2>2, <2>3, <2>4 DEF Locking
<1>5. ASSUME NEW w \in Writers, Locked(w) PROVE TypeOK'
  <2>1. CASE Read(w)
    BY <2>1, ReadTypes
  <2>2. CASE Check(w)
    BY <2>2, CheckTypes
  <2>3. CASE Save(w) \/ Rebuild(w) \/ RebuildFails(w)
    <3>1. CASE Save(w)
      BY <3>1 DEF Save
    <3>2. CASE Rebuild(w)
      BY <3>2 DEF Rebuild
    <3>3. CASE RebuildFails(w)
      BY <3>3 DEF RebuildFails
    <3> QED
      BY <2>3, <3>1, <3>2, <3>3
  <2>4. CASE Compile(w)
    <3>1. Compilation(next[w]) \in Pointers
      BY CompilationIsPointer
    <3>2. CASE task[w] = Recompile \/ InContext(w)
      <4>1. /\ pc' = [pc EXCEPT ![w] = "artifact"] /\ clock' = clock + 1
            /\ compiled' = [compiled EXCEPT ![w] = Compilation(next[w])]
            /\ UNCHANGED <<files, lock, task, read, next, draft, context, incarnation, calls, strays>>
        BY <2>4, <3>2 DEF Compile
      <4>2. clock' \in Nat /\ compiled' \in [Writers -> Pointers \cup {None}]
        BY <3>1, <4>1
      <4> QED
        BY <4>1, <4>2
    <3>3. CASE ~(task[w] = Recompile \/ InContext(w))
      BY <2>4, <3>3 DEF Compile
    <3> QED
      BY <3>2, <3>3
  <2>5. CASE WriteArtifact(w)
    BY <2>5 DEF WriteArtifact
  <2>6. CASE Point(w)
    <3>1. task[w] \in 0 .. Len(draft)
      BY <2>6 DEF Point, HasTask
    <3>2. acked' \subseteq 1 .. Len(draft)
      <4>1. acked' = acked \cup ({task[w]} \ {0}) /\ Len(draft) \in Nat
        BY <2>6 DEF Point, Recompile
      <4>2. task[w] = 0 \/ task[w] \in 1 .. Len(draft)
        BY <3>1, <4>1
      <4>3. acked \subseteq 1 .. Len(draft)
        OBVIOUS
      <4> HIDE DEF TypeOK
      <4> QED
        BY <4>1, <4>2, <4>3
    <3> QED
      BY <2>6, <3>2 DEF Point
  <2> QED
    BY <1>5, <2>1, <2>2, <2>3, <2>4, <2>5, <2>6 DEF Locked
<1>6. ASSUME NEW w \in Writers, Migrate(w) PROVE TypeOK'
  <2>1. LegacyLedger \in Ledgers
    BY DEF LegacyLedger, Ledgers
  <2> QED
    BY <1>6, <2>1, CompilationIsPointer DEF Migrate
<1>7. ASSUME NEW w \in Writers, MigratePoint(w) \/ MigrateArtifact(w) PROVE TypeOK'
  <2>1. CASE MigratePoint(w)
    BY <2>1 DEF MigratePoint
  <2>2. CASE MigrateArtifact(w)
    BY <2>2, ReturnTypes DEF MigrateArtifact
  <2> QED
    BY <1>7, <2>1, <2>2
<1>8. ASSUME NEW w \in Writers, Die(w) PROVE TypeOK'
  BY <1>8, ReturnTypes DEF Die
<1>9. CASE UNCHANGED vars
  BY <1>9 DEF vars
<1> QED
  BY <1>1, <1>2, <1>3, <1>4, <1>5, <1>6, <1>7, <1>8, <1>9 DEF Next, Migrating

------------------------------------------------------------------------------
(* The rest of the invariant, by groups of actions.                          *)

\* A caller that does not hold the lock, or an input, changes its own place
\* outside of the protected steps only.
Others(w) == \A v \in Writers : v # w =>
                 /\ pc'[v] = pc[v] /\ task'[v] = task[v] /\ read'[v] = read[v]
                 /\ next'[v] = next[v] /\ compiled'[v] = compiled[v]

LEMMA ReturnChanges ==
    ASSUME TypeOK, NEW w \in Writers, Return(w)
    PROVE  Others(w) /\ pc'[w] = "idle"
BY DEF TypeOK, Others, Return, Forget, Goto, Set

LEMMA HasTaskNext == TypeOK /\ HasTask /\ [Next]_vars => HasTask'
<1> SUFFICES ASSUME TypeOK, HasTask, [Next]_vars PROVE HasTask'
  OBVIOUS
<1> USE DEF At, Goto, Set, HasTask, WaitSteps, LockedSteps, files, locals, world
<1>1. ASSUME NEW command \in Commands, NEW i \in Insights, NEW target \in Insights,
             NEW key \in Keys \cup {None}, Draft(command, i, target, key)
      PROVE HasTask'
  BY <1>1 DEF Draft
<1>2. CASE Ingest
  BY <1>2 DEF Ingest
<1>3. ASSUME NEW w \in Writers, Start(w) PROVE HasTask'
  <2>1. PICK t \in 0 .. Len(draft) : Call(w, t, "open")
    BY <1>3 DEF Start
  <2>2. t # None
    BY InsightAssumption DEF TypeOK, InsightAssumption
  <2> QED
    BY <2>1, <2>2 DEF Call, TypeOK
<1>4. ASSUME NEW w \in Writers, Locking(w) \/ Die(w) PROVE HasTask'
  <2>1. CASE Return(w)
    <3>1. Others(w) /\ pc'[w] = "idle"
      BY <2>1, ReturnChanges
    <3> QED
      BY <3>1 DEF Others
  <2>2. CASE ~Return(w)
    BY <1>4, <2>2 DEF Locking, Create, Exists, Write, Examine, Unlink, Finish, Release, Die, TypeOK
  <2> QED
    BY <2>1, <2>2
<1>5. ASSUME NEW w \in Writers, Locked(w) PROVE HasTask'
  BY <1>5 DEF Locked, Read, Check, CheckCommand, CheckRecompile, Save, Compile, WriteArtifact,
     Rebuild, RebuildFails, Point, TypeOK
<1>6. ASSUME NEW w \in Writers, Migrating(w) PROVE HasTask'
  <2>1. CASE Return(w)
    <3>1. Others(w) /\ pc'[w] = "idle"
      BY <2>1, ReturnChanges
    <3> QED
      BY <3>1 DEF Others
  <2>2. CASE ~Return(w)
    BY <1>6, <2>2 DEF Migrating, StartMigration, Call, Migrate, MigratePoint, MigrateArtifact, TypeOK
  <2> QED
    BY <2>1, <2>2
<1>7. CASE UNCHANGED vars
  BY <1>7 DEF vars
<1> QED
  BY <1>1, <1>2, <1>3, <1>4, <1>5, <1>6, <1>7 DEF Next

\* A migration carries the migrated ledger, whoever else is at work.
LEMMA MigratesNext == TypeOK /\ MigratesLegacy /\ [Next]_vars => MigratesLegacy'
<1> SUFFICES ASSUME TypeOK, MigratesLegacy, [Next]_vars PROVE MigratesLegacy'
  OBVIOUS
<1> USE DEF At, Goto, Set, files, locals, world
<1>1. ASSUME NEW w \in Writers, Others(w), pc'[w] \notin {"migrate-point", "migrate-artifact"}
      PROVE  MigratesLegacy'
  BY <1>1 DEF MigratesLegacy, Others
<1>2. ASSUME NEW w \in Writers, Start(w) \/ StartMigration(w) PROVE MigratesLegacy'
  BY <1>1, <1>2 DEF Start, StartMigration, Call, TypeOK, Others
<1>3. ASSUME NEW w \in Writers, Locking(w) \/ Die(w) \/ MigrateArtifact(w) PROVE MigratesLegacy'
  BY <1>1, <1>3, ReturnChanges DEF Locking, Create, Exists, Write, Examine, Unlink, Finish, Release,
     Die, MigrateArtifact, TypeOK, Others
<1>4. ASSUME NEW w \in Writers, Locked(w) PROVE MigratesLegacy'
  BY <1>1, <1>4 DEF Locked, Read, Check, CheckCommand, CheckRecompile, Save, Compile, WriteArtifact,
     Rebuild, RebuildFails, Point, TypeOK, Others
<1>5. ASSUME NEW w \in Writers, Migrate(w) PROVE MigratesLegacy'
  <2>1. LegacyLedger \in Ledgers
    BY DEF LegacyLedger, Ledgers
  <2>2. Compilation(LegacyLedger) # None /\ Compilation(LegacyLedger).ledger = LegacyLedger
    BY <2>1, CompilationIsPointer, RecordAssumption
  <2> QED
    BY <1>5, <2>2 DEF Migrate, MigratesLegacy, TypeOK
<1>6. ASSUME NEW w \in Writers, MigratePoint(w) PROVE MigratesLegacy'
  BY <1>6 DEF MigratePoint, MigratesLegacy, TypeOK
<1>7. UNCHANGED <<pc, compiled>> => MigratesLegacy'
  BY DEF MigratesLegacy
<1> QED
  BY <1>2, <1>3, <1>4, <1>5, <1>6, <1>7 DEF Next, Migrating, Draft, Ingest, vars

LEMMA StraysStay == ASSUME [Next]_vars PROVE strays \subseteq strays'
BY DEF Next, vars, Draft, Ingest, Start, Call, Locking, Create, Exists, Write, Examine, Unlink, Finish,
       Release, Locked, Read, Check, Save, Compile, WriteArtifact, Rebuild, RebuildFails, Point,
       Migrating, StartMigration, Migrate, MigratePoint, MigrateArtifact, Die

\* The invariant while nobody passed by the lock, and what of it a step has to
\* keep.
OrderInv == TypeOK /\ HasTask /\ MigratesLegacy /\ HolderHasLock /\ PreparesNext /\ Kept
Ordered == HolderHasLock /\ PreparesNext /\ Kept

\* Only one writer is past the creation of the lock, which is its own.
LEMMA OneHolder ==
    ASSUME TypeOK, HolderHasLock, NEW w \in Writers, pc[w] \in HoldSteps
    PROVE  /\ lock # None /\ lock.run = Run(w) /\ ~Dead(lock.run)
           /\ \A v \in Writers : pc[v] \in HoldSteps => v = w
BY DEF HolderHasLock, Run, Dead

\* Steps of the protected part that leave the lock and the pointer alone.
LEMMA LockedStep ==
    ASSUME OrderInv, TypeOK', NEW w \in Writers,
           Read(w) \/ Check(w) \/ Save(w) \/ Compile(w) \/ WriteArtifact(w) \/ Rebuild(w)
               \/ RebuildFails(w)
    PROVE  Ordered'
<1> USE DEF OrderInv, At, Goto, Set, files, world
<1>1. /\ pc[w] \in LockedSteps \ {"point"} /\ pc'[w] \in LockedSteps \cup {"finish"}
      /\ UNCHANGED <<lock, pointer, acked, draft, incarnation, task>> /\ Others(w)
  BY DEF Read, Check, CheckCommand, CheckRecompile, Save, Compile, WriteArtifact, Rebuild,
         RebuildFails, TypeOK, LockedSteps, Others, locals
<1>2. pc[w] \in HoldSteps /\ pc'[w] \in HoldSteps
  BY <1>1 DEF HoldSteps
<1>3. HolderHasLock'
  BY <1>1, <1>2 DEF HolderHasLock, HoldSteps, LockedSteps, Run, Others
<1>4. Kept' /\ Published' = Published
  BY <1>1 DEF Kept, Published
<1>5. PreparesNext'
  <2>1. \A v \in Writers : v # w => pc'[v] \notin LockedSteps
    BY <1>1, <1>2, OneHolder DEF Others, HoldSteps
  <2>2. Published' = Published
    BY <1>4
  <2>3. CASE Read(w)
    BY <1>1, <2>1, <2>2, <2>3 DEF Read, PreparesNext, LockedSteps, TypeOK
  <2>4. CASE Check(w)
    <3>1. /\ pc[w] = "check" /\ read[w] = pointer /\ read' = read
          /\ ReadLedger(w) = Published
      BY <2>4 DEF Check, PreparesNext, LockedSteps, ReadLedger, Published
    <3>2. CASE task[w] = Recompile
      BY <1>1, <2>1, <2>2, <2>4, <3>1, <3>2 DEF Check, CheckRecompile, PreparesNext, LockedSteps, TypeOK
    <3>3. CASE task[w] # Recompile
      <4>1. CASE pc'[w] = "finish"
        BY <1>1, <2>1, <4>1 DEF PreparesNext, LockedSteps, Others
      <4>2. CASE pc'[w] # "finish"
        <5>1. /\ pc'[w] = "save"
              /\ \/ next'[w] = Published /\ task[w] \in ToSet(Published)
                 \/ next'[w] = Append(Published, task[w]) /\ Command(task[w]).base = Published
          BY <2>4, <3>1, <3>3, <4>2 DEF Check, CheckCommand, Repeats, Appends, TypeOK
        <5>2. Command(task[w]) = draft[task[w]]
          BY <3>3 DEF Command, Recompile, Legacy
        <5> QED
          BY <1>1, <2>1, <2>2, <3>1, <3>3, <5>1, <5>2 DEF PreparesNext, LockedSteps, Others
      <4> QED
        BY <4>1, <4>2
    <3> QED
      BY <3>2, <3>3
  <2>5. CASE Compile(w)
    <3>1. Compilation(next[w]) # None /\ Compilation(next[w]).ledger = next[w]
      BY CompilationIsPointer, RecordAssumption DEF TypeOK
    <3> QED
      BY <1>1, <2>1, <2>2, <2>5, <3>1 DEF Compile, PreparesNext, LockedSteps, TypeOK
  <2>6. CASE Save(w) \/ WriteArtifact(w) \/ Rebuild(w) \/ RebuildFails(w)
    BY <1>1, <2>1, <2>2, <2>6 DEF Save, WriteArtifact, Rebuild, RebuildFails, PreparesNext,
       LockedSteps, TypeOK, locals
  <2> QED
    BY <2>3, <2>4, <2>5, <2>6
<1> QED
  BY <1>3, <1>4, <1>5 DEF Ordered

\* The pointer is moved to what the holder prepared from it.
LEMMA PointStep ==
    ASSUME OrderInv, TypeOK', NEW w \in Writers, Point(w)
    PROVE  Ordered' /\ Linear
<1> USE DEF OrderInv, At, Goto
<1>1. /\ pc[w] = "point" /\ pc'[w] = "finish" /\ pointer' = compiled[w]
      /\ acked' = acked \cup ({task[w]} \ {Recompile})
      /\ UNCHANGED <<lock, draft, incarnation, task, next>> /\ Others(w)
  BY DEF Point, TypeOK, Others, locals, world
<1>2. pc[w] \in HoldSteps
  BY <1>1 DEF HoldSteps, LockedSteps
<1>3. /\ compiled[w] # None /\ compiled[w].ledger = next[w]
      /\ IF task[w] = Recompile THEN next[w] = Published
         ELSE \/ next[w] = Published /\ task[w] \in ToSet(Published)
              \/ next[w] = Append(Published, task[w]) /\ draft[task[w]].base = Published
  BY <1>1 DEF PreparesNext
<1>4. Published' = next[w]
  BY <1>1, <1>3 DEF Published
<1>5. HolderHasLock'
  BY <1>1, <1>2 DEF HolderHasLock, HoldSteps, LockedSteps, Run, Others
<1>6. PreparesNext'
  BY <1>1, <1>2, OneHolder DEF PreparesNext, Others, HoldSteps, LockedSteps
<1>7. Kept'
  <2>1. Published \in Seq(Drafts \cup {Legacy})
    BY PublishedIsLedger DEF Ledgers
  <2>2. ToSet(Append(Published, task[w])) = ToSet(Published) \cup {task[w]}
    BY <2>1, ToSetOfAppend
  <2> QED
    BY <1>1, <1>3, <1>4, <2>2 DEF Kept
<1>8. task[w] # Recompile => task[w] \in 1 .. Len(draft)
  <2>1. task[w] \in 0 .. Len(draft) /\ Len(draft) \in Nat
    BY <1>1 DEF HasTask, LockedSteps, TypeOK
  <2> QED
    BY <2>1 DEF Recompile
<1> QED
  BY <1>3, <1>4, <1>5, <1>6, <1>7, <1>8 DEF Ordered, Linear

\* A step of the lock that removes no lock of a live writer: what is published
\* and what is prepared stay.
LEMMA LockingStep ==
    ASSUME OrderInv, TypeOK', strays' = {}, NEW w \in Writers, Locking(w)
    PROVE  Ordered' /\ Published' = Published
<1> USE DEF OrderInv, At, Goto, Set
<1>0. /\ UNCHANGED <<pointer, acked, draft, incarnation>> /\ Others(w)
      /\ pc[w] \notin LockedSteps
      /\ pc'[w] \in LockedSteps => pc'[w] = "read" /\ pc[w] = "write" /\ task' = task
  BY ReturnChanges DEF Locking, Create, Exists, Write, Examine, Unlink, Finish, Release, TypeOK, Others,
     files, locals, world, LockedSteps
<1>1. Kept' /\ Published' = Published
  BY <1>0 DEF Kept, Published
<1>2. HolderHasLock'
  <2>1. CASE Create(w)
    <3>1. lock = None /\ lock' = [run |-> Run(w), written |-> FALSE] /\ pc'[w] = "write"
      BY <2>1 DEF Create, TypeOK
    <3>2. lock' # None
      <4>1. Run(w) \in Runs
        BY DEF Run, Runs, TypeOK
      <4>2. lock' \in Locks
        BY <3>1, <4>1 DEF Locks
      <4> QED
        BY <4>2, RecordAssumption
    <3>3. lock'.run = Run(w) /\ Run(w)' = Run(w)
      BY <1>0, <3>1 DEF Run
    <3> QED
      BY <1>0, <3>1, <3>2, <3>3 DEF HolderHasLock, Others
  <2>2. CASE Write(w)
    <3>1. pc[w] = "write" /\ lock # None /\ lock.run = Run(w)
      BY <2>2 DEF Write, HolderHasLock, HoldSteps
    <3>2. lock' = [lock EXCEPT !.written = TRUE] /\ pc'[w] = "read"
      BY <2>2, <3>1 DEF Write, TypeOK
    <3>3. lock' # None /\ lock'.run = lock.run
      BY <3>1, <3>2, RecordAssumption DEF Locks, TypeOK
    <3> QED
      BY <1>0, <3>1, <3>2, <3>3 DEF HolderHasLock, Others, HoldSteps, Run
  <2>3. CASE Unlink(w)
    <3>1. /\ pc'[w] \in {"idle", "reopen"}
          /\ lock # None => Dead(lock.run)
      BY <2>3, ReturnChanges DEF Unlink, TypeOK
    <3>2. \A v \in Writers : pc[v] \notin HoldSteps
      BY <3>1, OneHolder
    <3> QED
      BY <1>0, <3>1, <3>2 DEF HolderHasLock, Others, HoldSteps, LockedSteps
  <2>4. CASE Release(w)
    <3>1. pc[w] \in HoldSteps /\ pc'[w] = "idle"
      BY <2>4, ReturnChanges DEF Release, HoldSteps
    <3>2. \A v \in Writers : v # w => pc[v] \notin HoldSteps
      BY <3>1, OneHolder
    <3> QED
      BY <1>0, <3>1, <3>2 DEF HolderHasLock, Others, HoldSteps, LockedSteps
  <2>5. CASE Exists(w) \/ Examine(w)
    <3>1. lock' = lock /\ pc'[w] \notin HoldSteps
      BY <2>5, ReturnChanges DEF Exists, Examine, HoldSteps, LockedSteps, TypeOK
    <3> QED
      BY <1>0, <3>1 DEF HolderHasLock, Others, Run
  <2>6. CASE Finish(w)
    <3>1. lock' = lock /\ pc[w] \in HoldSteps /\ pc'[w] \in {"idle", "release"}
      BY <2>6, ReturnChanges DEF Finish, HoldSteps, TypeOK
    <3> QED
      BY <1>0, <3>1 DEF HolderHasLock, Others, Run, HoldSteps, LockedSteps
  <2> QED
    BY <2>1, <2>2, <2>3, <2>4, <2>5, <2>6 DEF Locking
<1>3. PreparesNext'
  BY <1>0, <1>1 DEF PreparesNext, Others, LockedSteps
<1> QED
  BY <1>1, <1>2, <1>3 DEF Ordered

\* A migration that publishes the first pointer, past every writer.
LEMMA MigratingStep ==
    ASSUME OrderInv, TypeOK', strays' = {}, NEW w \in Writers, Migrating(w)
    PROVE  Ordered' /\ Linear
<1> USE DEF OrderInv, At, Goto, Set
<1>1. /\ UNCHANGED <<lock, acked, draft, incarnation>> /\ Others(w)
      /\ pc[w] \in {"idle"} \cup MigrateSteps
      /\ pc'[w] \in {"idle"} \cup MigrateSteps
  BY ReturnChanges DEF Migrating, StartMigration, Call, Migrate, MigratePoint, MigrateArtifact,
     TypeOK, Others, files, locals, world, MigrateSteps
<1>2. HolderHasLock'
  BY <1>1 DEF HolderHasLock, HoldSteps, LockedSteps, MigrateSteps, Others, Run
<1>3. CASE ~MigratePoint(w)
  <2>1. pointer' = pointer
    BY <1>3 DEF Migrating, StartMigration, Call, Migrate, MigrateArtifact, files
  <2>2. Kept' /\ Published' = Published
    BY <1>1, <2>1 DEF Kept, Published
  <2>3. PreparesNext'
    BY <1>1, <2>1, <2>2 DEF PreparesNext, Others, LockedSteps, MigrateSteps
  <2> QED
    BY <1>2, <2>2, <2>3 DEF Ordered, Linear
<1>4. CASE MigratePoint(w)
  <2>1. /\ pointer = None /\ pointer' = compiled[w]
        /\ \A v \in Writers : pc[v] \notin LockedSteps \ {"read"}
    BY <1>4 DEF MigratePoint
  <2>2. pointer' # None /\ pointer'.ledger = LegacyLedger
    BY <1>4, <2>1 DEF MigratePoint, MigratesLegacy
  <2>3. acked = {} /\ Published' = LegacyLedger
    BY <2>1, <2>2 DEF Kept, Published, ToSet
  <2>4. Kept'
    BY <1>1, <2>3 DEF Kept
  <2>5. \A v \in Writers : pc'[v] \notin LockedSteps \ {"read"}
    BY <1>1, <2>1 DEF Others, LockedSteps, MigrateSteps
  <2>6. PreparesNext'
    BY <2>5 DEF PreparesNext, LockedSteps
  <2> QED
    BY <1>2, <2>1, <2>3, <2>4, <2>6 DEF Ordered, Linear
<1> QED
  BY <1>3, <1>4

LEMMA DieStep ==
    ASSUME OrderInv, TypeOK', NEW w \in Writers, Die(w)
    PROVE  Ordered' /\ Published' = Published
<1> USE DEF OrderInv
<1>1. /\ UNCHANGED <<pointer, acked, lock, draft>> /\ Others(w) /\ pc'[w] = "idle"
      /\ incarnation' = [incarnation EXCEPT ![w] = @ + 1]
  BY ReturnChanges DEF Die
<1>2. Kept' /\ Published' = Published
  BY <1>1 DEF Kept, Published
<1>3. HolderHasLock'
  <2>1. \A v \in Writers : v # w => Run(v)' = Run(v)
    BY <1>1 DEF Run, TypeOK
  <2> QED
    BY <1>1, <2>1 DEF HolderHasLock, HoldSteps, LockedSteps, Others
<1>4. PreparesNext'
  BY <1>1, <1>2 DEF PreparesNext, LockedSteps, Others
<1> QED
  BY <1>2, <1>3, <1>4 DEF Ordered

\* A draft, an ingest or the start of a call.
LEMMA InputStep ==
    ASSUME OrderInv, TypeOK',
           \/ \E command \in Commands, i, target \in Insights, key \in Keys \cup {None} :
                  Draft(command, i, target, key)
           \/ Ingest
           \/ \E w \in Writers : Start(w)
    PROVE  Ordered' /\ Published' = Published
<1> USE DEF OrderInv
<1>1. /\ UNCHANGED <<pointer, acked, lock, incarnation, read, next, compiled>>
      /\ Published' = Published /\ Kept'
  BY DEF Draft, Ingest, Start, Call, Kept, Published, files, locals
<1>2. CASE \E w \in Writers : Start(w)
  <2>1. PICK w \in Writers, t \in 0 .. Len(draft) : Call(w, t, "open")
    BY <1>2 DEF Start
  <2>2. /\ pc[w] = "idle" /\ pc' = [pc EXCEPT ![w] = "open"] /\ draft' = draft
        /\ task' = [task EXCEPT ![w] = t]
    BY <2>1 DEF Call, At, Goto, Set
  <2>3. HolderHasLock'
    BY <1>1, <2>2 DEF HolderHasLock, HoldSteps, LockedSteps, Run, TypeOK
  <2>4. PreparesNext'
    BY <1>1, <2>2 DEF PreparesNext, LockedSteps, TypeOK
  <2> QED
    BY <1>1, <2>3, <2>4 DEF Ordered
<1>3. CASE ~\E w \in Writers : Start(w)
  <2>1. /\ UNCHANGED <<pc, task>>
        /\ draft' = draft \/ \E d \in Inputs : draft' = Append(draft, d)
    <3>1. Published \in Ledgers
      BY PublishedIsLedger
    <3> QED
      BY <1>3, <3>1 DEF Draft, Ingest, Inputs, locals
  <2>2. HolderHasLock'
    BY <1>1, <2>1 DEF HolderHasLock, Run
  <2>3. \A d \in 1 .. Len(draft) : draft'[d] = draft[d]
    <3> SUFFICES ASSUME NEW d \in 1 .. Len(draft), NEW c \in Inputs, draft' = Append(draft, c)
                 PROVE  draft'[d] = draft[d]
      BY <2>1
    <3> QED
      BY DEF TypeOK
  <2>4. PreparesNext'
    <3> SUFFICES ASSUME NEW w \in Writers,
                        pc[w] \in {"save", "compile", "artifact", "rebuild", "point"},
                        task[w] # Recompile
                 PROVE  draft'[task[w]] = draft[task[w]]
      BY <1>1, <2>1 DEF PreparesNext
    <3>1. task[w] \in 0 .. Len(draft) /\ Len(draft) \in Nat
      BY DEF HasTask, LockedSteps, TypeOK
    <3>2. task[w] \in 1 .. Len(draft)
      BY <3>1 DEF Recompile
    <3> QED
      BY <2>3, <3>2
  <2> QED
    BY <1>1, <2>2, <2>4 DEF Ordered
<1> QED
  BY <1>2, <1>3

\* A step that does not pass by the lock.
LEMMA OrderNext ==
    ASSUME OrderInv, TypeOK', strays' = {}, [Next]_vars
    PROVE  Ordered' /\ Linear
<1>1. ASSUME NEW w \in Writers, Locked(w) PROVE Ordered' /\ Linear
  <2>1. CASE Point(w)
    BY <2>1, PointStep
  <2>2. CASE ~Point(w)
    <3>1. Ordered'
      BY <1>1, <2>2, LockedStep DEF Locked
    <3>2. pointer' = pointer
      BY <1>1, <2>2 DEF Locked, Read, Check, Save, Compile, WriteArtifact, Rebuild, RebuildFails, files
    <3> QED
      BY <3>1, <3>2 DEF Published, Linear
  <2> QED
    BY <2>1, <2>2
<1>2. ASSUME NEW w \in Writers, Locking(w) PROVE Ordered' /\ Linear
  BY <1>2, LockingStep DEF Linear
<1>3. ASSUME NEW w \in Writers, Migrating(w) PROVE Ordered' /\ Linear
  BY <1>3, MigratingStep
<1>4. ASSUME NEW w \in Writers, Die(w) PROVE Ordered' /\ Linear
  BY <1>4, DieStep DEF Linear
<1>5. ASSUME UNCHANGED vars PROVE Ordered' /\ Linear
  <2>1. Ordered' <=> HolderHasLock /\ PreparesNext /\ Kept
    BY <1>5 DEF vars, files, locals, world, Ordered, HolderHasLock, PreparesNext, Kept, Published, Run
  <2> QED
    BY <1>5, <2>1 DEF vars, files, Published, OrderInv, Linear
<1>6. CASE \/ \E command \in Commands, i, target \in Insights, key \in Keys \cup {None} :
                Draft(command, i, target, key)
           \/ Ingest
           \/ \E w \in Writers : Start(w)
  BY <1>6, InputStep DEF Linear
<1> QED
  BY <1>1, <1>2, <1>3, <1>4, <1>5, <1>6 DEF Next

LEMMA LedgerNext ==
    LedgerInv /\ [Next]_vars => LedgerInv' /\ (strays' = {} => Linear /\ OrderInv /\ OrderInv')
<1> SUFFICES ASSUME LedgerInv, [Next]_vars
             PROVE  LedgerInv' /\ (strays' = {} => Linear /\ OrderInv /\ OrderInv')
  OBVIOUS
<1>1. TypeOK' /\ HasTask' /\ MigratesLegacy'
  BY TypeNext, HasTaskNext, MigratesNext DEF LedgerInv
<1>2. strays' = {} => OrderInv
  BY StraysStay DEF LedgerInv, OrderInv
<1>3. strays' = {} => Ordered' /\ Linear
  BY <1>1, <1>2, OrderNext
<1> QED
  BY <1>1, <1>2, <1>3 DEF LedgerInv, OrderInv, Ordered

------------------------------------------------------------------------------
(* What is in the ledgers, whoever passes by the lock.                       *)

LEMMA HasMaximum ==
    ASSUME NEW n \in Nat, NEW S \in SUBSET (1 .. n), S # {}
    PROVE  Max(S) \in S
<1> DEFINE R == OpToRel(<, Nat)
           T == {n - y : y \in S}
<1>1. IsWellFoundedOn(R, Nat)
  BY NatLessThanWellFounded
<1>2. \A x, y \in Nat : x < y => <<x, y>> \in R
  BY DEF OpToRel
<1> HIDE DEF R
<1>3. T \subseteq Nat /\ T # {}
  <2>1. \A y \in S : n - y \in Nat
    OBVIOUS
  <2>2. PICK y \in S : TRUE
    OBVIOUS
  <2>3. n - y \in T
    OBVIOUS
  <2> QED
    BY <2>1, <2>3
<1>4. PICK t \in T : \A u \in T : ~ (<<u, t>> \in R)
  BY <1>1, <1>3, WFMin
<1>5. PICK x \in S : t = n - x
  OBVIOUS
<1>6. \A y \in S : x >= y
  <2> SUFFICES ASSUME NEW y \in S, ~(x >= y) PROVE FALSE
    OBVIOUS
  <2>1. n - y \in T /\ n - y \in Nat /\ t \in Nat /\ n - y < t
    BY <1>3, <1>5
  <2> QED
    BY <1>2, <1>4, <2>1
<1> QED
  BY <1>5, <1>6 DEF Max

\* The projection of a ledger reads the commands of that ledger only: while
\* those stay, whatever is drafted besides, the projection stays.
LEMMA CurrentKept ==
    ASSUME NEW l, NEW n \in Nat, DOMAIN l = 1 .. n,
           \A i \in 1 .. n : Command(l[i])' = Command(l[i])
    PROVE  Current(l)' = Current(l)
<1> DEFINE D == DOMAIN l
           base == [i \in Insights |-> NoRevision]
           F(h) == [s \in SUBSET D |->
                       IF s = {} THEN base ELSE Applied(h[s \ {Max(s)}], l[Max(s)])]
           G(h) == [s \in SUBSET D |->
                       IF s = {} THEN base ELSE Applied(h[s \ {Max(s)}], l[Max(s)])']
<1>1. ASSUME NEW i \in 1 .. n, NEW current PROVE Applied(current, l[i])' = Applied(current, l[i])
  BY Zenon DEF Applied
<1>2. ASSUME NEW h, NEW s \in SUBSET D, s # {}
      PROVE Applied(h[s \ {Max(s)}], l[Max(s)])' = Applied(h[s \ {Max(s)}], l[Max(s)])
  <2>1. Max(s) \in 1 .. n
    BY <1>2, HasMaximum
  <2> QED
    BY <1>1, <2>1
<1>3. ASSUME NEW h PROVE F(h) = G(h)
  BY <1>2
<1>4. Current(l) = (CHOOSE h : h = F(h))[D]
  BY DEF Current, FoldLeft, MapThenFoldSet
<1>5. Current(l)' = (CHOOSE h : h = G(h))[D]
  BY DEF Current, FoldLeft, MapThenFoldSet
<1> HIDE DEF F, G
<1>6. \A h : (h = F(h)) <=> (h = G(h))
  BY <1>3
<1>7. (CHOOSE h : h = F(h)) = (CHOOSE h : h = G(h))
  BY <1>6
<1> QED
  BY <1>4, <1>5, <1>7

\* A ledger in which every command was drafted, is there once and under a key
\* of its own, and follows the revision it was drafted for.
Composed(ledger) ==
    /\ \A n \in 1 .. Len(ledger) : ledger[n] \in 0 .. Len(draft)
    /\ \A m, n \in 1 .. Len(ledger) :
           m # n => TransitionId(ledger[m]) # TransitionId(ledger[n])
    /\ ChainValid(ledger)

\* A command was drafted for a ledger of earlier commands.
BasesEarlier ==
    \A d \in 1 .. Len(draft) : \A n \in 1 .. Len(draft[d].base) :
        draft[d].base[n] \in 0 .. (d - 1)

\* The ledgers in files and in the memory of the writers.
CompiledLedger(w) == IF compiled[w] = None THEN <<>> ELSE compiled[w].ledger
Known == ledgers \cup {Published, <<>>}
             \cup UNION {{next[w], ReadLedger(w), CompiledLedger(w)} : w \in Writers}

ContentInv == TypeOK /\ HasTask /\ BasesEarlier /\ \A ledger \in Known : Composed(ledger)

LEMMA KnownLedgers == TypeOK => Known \subseteq Ledgers
<1> SUFFICES ASSUME TypeOK PROVE Known \subseteq Ledgers
  OBVIOUS
<1>1. <<>> \in Ledgers /\ Published \in Ledgers /\ ledgers \subseteq Ledgers
  BY PublishedIsLedger DEF TypeOK
<1>2. ASSUME NEW w \in Writers
      PROVE next[w] \in Ledgers /\ ReadLedger(w) \in Ledgers /\ CompiledLedger(w) \in Ledgers
  BY <1>1 DEF TypeOK, ReadLedger, CompiledLedger, Pointers
<1> QED
  BY <1>1, <1>2 DEF Known

\* A further draft changes no command that a ledger has.
LEMMA CommandsKept ==
    ASSUME TypeOK, draft' = draft \/ \E c \in Inputs : draft' = Append(draft, c)
    PROVE  \A e \in 0 .. Len(draft) : Command(e)' = Command(e) /\ TransitionId(e)' = TransitionId(e)
<1>1. ASSUME NEW e \in 1 .. Len(draft) PROVE draft'[e] = draft[e]
  <2> SUFFICES ASSUME NEW c \in Inputs, draft' = Append(draft, c) PROVE draft'[e] = draft[e]
    OBVIOUS
  <2> QED
    BY DEF TypeOK
<1>2. ASSUME NEW e \in 0 .. Len(draft) PROVE Command(e)' = Command(e)
  <2>1. CASE e = 0
    BY <2>1 DEF Command, Legacy
  <2>2. CASE e # 0
    <3>1. e \in 1 .. Len(draft)
      BY <2>2 DEF TypeOK
    <3> QED
      BY <1>1, <2>2, <3>1 DEF Command, Legacy
  <2> QED
    BY <2>1, <2>2
<1> QED
  BY <1>2 DEF TransitionId

LEMMA ComposedKept ==
    ASSUME TypeOK, BasesEarlier, draft' = draft \/ \E c \in Inputs : draft' = Append(draft, c)
    PROVE  \A ledger \in Ledgers : Composed(ledger) => Composed(ledger)'
<1>1. \A e \in 0 .. Len(draft) : Command(e)' = Command(e) /\ TransitionId(e)' = TransitionId(e)
  BY CommandsKept
<1>2. Len(draft) \in Nat /\ Len(draft') \in Nat /\ Len(draft) <= Len(draft')
  BY DEF TypeOK
<1>3. ASSUME NEW l \in Ledgers, \A n \in 1 .. Len(l) : l[n] \in 0 .. Len(draft)
      PROVE  Current(l)' = Current(l)
  <2>1. Len(l) \in Nat /\ DOMAIN l = 1 .. Len(l)
    BY DEF Ledgers
  <2> QED
    BY <1>1, <1>3, <2>1, CurrentKept
<1>4. ASSUME NEW e \in 0 .. Len(draft) PROVE Prior(e)' = Prior(e)
  <2>1. Command(e).base \in Ledgers /\ \A n \in 1 .. Len(Command(e).base) :
                                          Command(e).base[n] \in 0 .. Len(draft)
    <3>1. CASE e = 0
      BY <3>1 DEF Command, Legacy, Ledgers
    <3>2. CASE e # 0
      <4>1. e \in 1 .. Len(draft) /\ draft[e] \in Inputs /\ Command(e) = draft[e]
        BY <1>2, <3>2 DEF TypeOK, Command, Legacy
      <4>2. 0 .. (e - 1) \subseteq 0 .. Len(draft)
        BY <1>2
      <4> QED
        BY <4>1, <4>2 DEF BasesEarlier, Inputs
    <3> QED
      BY <3>1, <3>2
  <2>2. PICK b : b = Command(e).base
    OBVIOUS
  <2>3. Current(b)' = Current(b)
    BY <1>3, <2>1, <2>2
  <2>4. Command(e)' = Command(e)
    BY <1>1
  <2>5. Prior(e) = Current(b)[Command(e).insight].revision
    BY <2>2 DEF Prior
  <2>6. Prior(e)' = (Current(b)')[Command(e)'.insight].revision
    BY <2>2, <2>4 DEF Prior
  <2> QED
    BY <2>3, <2>4, <2>5, <2>6
<1> SUFFICES ASSUME NEW ledger \in Ledgers, Composed(ledger) PROVE Composed(ledger)'
  OBVIOUS
<1>5. \A n \in 1 .. Len(ledger) : ledger[n] \in 0 .. Len(draft)
  BY DEF Composed
<1>6. \A n \in 1 .. Len(ledger) : ledger[n] \in 0 .. Len(draft')
  BY <1>2, <1>5
<1>7. \A m, n \in 1 .. Len(ledger) :
          m # n => TransitionId(ledger[m])' # TransitionId(ledger[n])'
  BY <1>1, <1>5 DEF Composed
<1>8. ChainValid(ledger)'
  <2> SUFFICES ASSUME NEW n \in 1 .. Len(ledger)
               PROVE  (Current(SubSeq(ledger, 1, n - 1))[Command(ledger[n]).insight].revision
                          = Prior(ledger[n]))'
    BY DEF ChainValid
  <2>1. PICK l : l = SubSeq(ledger, 1, n - 1)
    OBVIOUS
  <2>2. PICK e \in 0 .. Len(draft) : e = ledger[n]
    BY <1>5
  <2>3. l \in Ledgers /\ \A m \in 1 .. Len(l) : l[m] \in 0 .. Len(draft)
    <3>1. ledger \in Seq(Drafts \cup {Legacy}) /\ Len(ledger) \in Nat /\ n - 1 \in 0 .. Len(ledger)
      BY DEF Ledgers
    <3>2. l \in Ledgers
      BY <2>1, <3>1 DEF Ledgers
    <3>3. Len(l) = n - 1 /\ \A m \in 1 .. (n - 1) : l[m] = ledger[m]
      BY <2>1, <3>1
    <3> QED
      BY <1>5, <3>1, <3>2, <3>3
  <2>4. Current(l)' = Current(l)
    BY <1>3, <2>3
  <2>5. Current(l)[Command(e).insight].revision = Prior(e)
    BY <2>1, <2>2 DEF Composed, ChainValid
  <2>6. Command(e)' = Command(e) /\ Prior(e)' = Prior(e)
    BY <1>1, <1>4
  <2>7. (Current(l)')[Command(e)'.insight].revision = Prior(e)'
    BY <2>4, <2>5, <2>6
  <2> QED
    BY <2>1, <2>2, <2>7
<1> QED
  BY <1>6, <1>7, <1>8 DEF Composed

\* What appendInsightTransition accepts passes validateTransitionChain.
LEMMA ComposedAppend ==
    ASSUME TypeOK, NEW l \in Ledgers, Composed(l), NEW d \in 1 .. Len(draft), Appends(l, d)
    PROVE  Composed(Append(l, d))
<1> DEFINE m == Append(l, d)
<1>1. /\ Len(l) \in Nat /\ Len(m) = Len(l) + 1 /\ m[Len(l) + 1] = d
      /\ \A n \in 1 .. Len(l) : m[n] = l[n]
  BY DEF Ledgers
<1>2. \A n \in 1 .. Len(m) : n # Len(l) + 1 => n \in 1 .. Len(l)
  BY <1>1
<1>3. \A n \in 1 .. Len(m) : m[n] \in 0 .. Len(draft)
  <2>1. d \in 0 .. Len(draft)
    BY DEF TypeOK
  <2> QED
    BY <1>1, <1>2, <2>1 DEF Composed
<1>4. \A n \in 1 .. Len(l) : TransitionId(l[n]) # TransitionId(d)
  BY <1>1 DEF Appends, ToSet, Ledgers
<1>5. \A i, n \in 1 .. Len(m) : i # n => TransitionId(m[i]) # TransitionId(m[n])
  BY <1>1, <1>2, <1>4 DEF Composed
<1>6. ASSUME NEW n \in 1 .. Len(m)
      PROVE  Current(SubSeq(m, 1, n - 1))[Command(m[n]).insight].revision = Prior(m[n])
  <2>1. CASE n = Len(l) + 1
    <3>1. SubSeq(m, 1, n - 1) = l
      BY <1>1, <2>1 DEF Ledgers
    <3> QED
      BY <1>1, <2>1, <3>1 DEF Appends
  <2>2. CASE n # Len(l) + 1
    <3>1. n \in 1 .. Len(l) /\ n - 1 \in 0 .. Len(l)
      BY <1>1, <1>2, <2>2
    <3>2. SubSeq(m, 1, n - 1) = SubSeq(l, 1, n - 1)
      BY <1>1, <3>1 DEF Ledgers
    <3> QED
      BY <1>1, <3>1, <3>2 DEF Composed, ChainValid
  <2> QED
    BY <2>1, <2>2
<1> HIDE DEF m
<1> QED
  BY <1>3, <1>5, <1>6 DEF Composed, ChainValid, m

LEMMA ComposedStarts == Composed(<<>>) /\ (TypeOK => Composed(LegacyLedger))
<1>1. Composed(<<>>)
  BY DEF Composed, ChainValid
<1>2. ASSUME TypeOK PROVE Composed(LegacyLedger)
  <2> DEFINE l == LegacyLedger
  <2>1. Len(l) = 1 /\ 1 .. Len(l) = {1} /\ l[1] = 0 /\ SubSeq(l, 1, 1 - 1) = <<>>
    BY DEF LegacyLedger, Legacy
  <2>2. Command(0).base = <<>>
    BY DEF Command, Legacy
  <2>3. 0 \in 0 .. Len(draft)
    BY <1>2 DEF TypeOK
  <2> HIDE DEF l
  <2>4. ChainValid(l)
    BY <2>1, <2>2 DEF ChainValid, Prior
  <2> QED
    BY <2>1, <2>3, <2>4 DEF Composed, l
<1> QED
  BY <1>1, <1>2

\* Every ledger that a step writes, or takes into memory, was known already,
\* is that of a migration or extends a known one by an accepted command.
Extensions == {Append(p[1], p[2]) : p \in {q \in Known \X (1 .. Len(draft)) : Appends(q[1], q[2])}}
Reach == Known \cup {LegacyLedger} \cup Extensions

LEMMA KnownNext == TypeOK /\ HasTask /\ [Next]_vars => Known' \subseteq Reach
<1> SUFFICES ASSUME TypeOK, HasTask, [Next]_vars PROVE Known' \subseteq Reach
  OBVIOUS
<1> DEFINE InReach(w) == next'[w] \in Reach /\ ReadLedger(w)' \in Reach /\ CompiledLedger(w)' \in Reach
           Goal == ledgers' \subseteq Reach /\ Published' \in Reach /\ \A w \in Writers : InReach(w)
<1>1. Known' \subseteq Reach <=> Goal
  BY DEF Known, Reach
<1>2. /\ ledgers \subseteq Reach /\ Published \in Reach /\ <<>> \in Reach /\ LegacyLedger \in Reach
      /\ \A w \in Writers :
             next[w] \in Reach /\ ReadLedger(w) \in Reach /\ CompiledLedger(w) \in Reach
  BY DEF Known, Reach
<1>3. pointer # None => pointer.ledger = Published
  BY DEF Published
<1> USE DEF files, locals, world
<1> HIDE DEF Reach
<1>4. ASSUME NEW w \in Writers, UNCHANGED <<next, read, compiled>> PROVE InReach(w)
  BY <1>2, <1>4 DEF ReadLedger, CompiledLedger
<1>5. ASSUME NEW w \in Writers, Return(w), UNCHANGED <<ledgers, pointer>> PROVE Goal
  <2>1. ASSUME NEW v \in Writers PROVE InReach(v)
    BY <1>2, <1>5, <2>1 DEF Return, Forget, Set, TypeOK, ReadLedger, CompiledLedger
  <2> QED
    BY <1>2, <1>5, <2>1 DEF Published
<1>6. ASSUME UNCHANGED <<ledgers, pointer, next, read, compiled>> PROVE Goal
  BY <1>2, <1>4, <1>6 DEF Published
<1> HIDE DEF Goal
<1>7. ASSUME NEW w \in Writers, Locking(w) \/ Die(w) \/ Start(w) PROVE Goal
  BY <1>5, <1>6, <1>7 DEF Locking, Create, Exists, Write, Examine, Unlink, Finish, Release, Die,
     Start, Call
<1>8. ASSUME NEW w \in Writers, Locked(w) PROVE Goal
  <2>1. CASE Read(w)
    <3>1. UNCHANGED <<ledgers, pointer, next, compiled>>
          /\ (read' = read \/ read' = [read EXCEPT ![w] = pointer])
      BY <2>1 DEF Read, Set
    <3>2. ASSUME NEW v \in Writers PROVE ReadLedger(v)' \in Reach
      BY <1>2, <1>3, <3>1 DEF ReadLedger, TypeOK
    <3> QED
      BY <1>2, <3>1, <3>2 DEF Goal, Published, CompiledLedger
  <2>2. CASE Check(w)
    <3>1. UNCHANGED <<ledgers, pointer, read, compiled>>
      BY <2>2 DEF Check
    <3>2. next' = next \/ \E l \in Reach : next' = [next EXCEPT ![w] = l]
      <4>1. CASE task[w] = Recompile
        BY <1>2, <2>2, <4>1 DEF Check, CheckRecompile, Set
      <4>2. CASE task[w] # Recompile /\ Repeats(ReadLedger(w), task[w])
        BY <1>2, <2>2, <4>2 DEF Check, CheckCommand, Set
      <4>3. CASE task[w] # Recompile /\ ~Repeats(ReadLedger(w), task[w])
        <5>1. task[w] \in 1 .. Len(draft)
          BY <2>2, <4>3 DEF Check, At, HasTask, LockedSteps, TypeOK, Recompile
        <5>2. ReadLedger(w) \in Known
          BY DEF Known
        <5>3. ASSUME NEW l \in Known, NEW d \in 1 .. Len(draft), Appends(l, d)
              PROVE Append(l, d) \in Extensions
          <6> DEFINE p == <<l, d>>
          <6>1. p \in Known \X (1 .. Len(draft)) /\ p[1] = l /\ p[2] = d
            OBVIOUS
          <6>2. p \in {q \in Known \X (1 .. Len(draft)) : Appends(q[1], q[2])}
            BY <5>3, <6>1
          <6> HIDE DEF p
          <6> QED
            BY <6>1, <6>2 DEF Extensions
        <5>4. Appends(ReadLedger(w), task[w]) => Append(ReadLedger(w), task[w]) \in Reach
          BY <5>1, <5>2, <5>3 DEF Reach
        <5> QED
          BY <2>2, <4>3, <5>4 DEF Check, CheckCommand, Set
      <4> QED
        BY <4>1, <4>2, <4>3
    <3>3. ASSUME NEW v \in Writers PROVE next'[v] \in Reach
      BY <1>2, <3>2 DEF TypeOK
    <3> QED
      BY <1>2, <3>1, <3>3 DEF Goal, Published, CompiledLedger, ReadLedger
  <2>3. CASE Save(w)
    BY <1>2, <1>4, <2>3 DEF Goal, Save, Published
  <2>4. CASE Compile(w)
    <3>1. /\ UNCHANGED <<ledgers, pointer, read, next>>
          /\ compiled' = compiled \/ compiled' = [compiled EXCEPT ![w] = Compilation(next[w])]
      BY <2>4 DEF Compile, Set
    <3>2. Compilation(next[w]).ledger = next[w]
      BY DEF Compilation
    <3>3. ASSUME NEW v \in Writers PROVE CompiledLedger(v)' \in Reach
      BY <1>2, <3>1, <3>2 DEF CompiledLedger, TypeOK
    <3> QED
      BY <1>2, <3>1, <3>3 DEF Goal, Published, ReadLedger
  <2>5. CASE WriteArtifact(w) \/ Rebuild(w) \/ RebuildFails(w)
    BY <1>6, <2>5 DEF WriteArtifact, Rebuild, RebuildFails
  <2>6. CASE Point(w)
    BY <1>2, <1>4, <2>6 DEF Goal, Point, Published, CompiledLedger
  <2> QED
    BY <1>8, <2>1, <2>2, <2>3, <2>4, <2>5, <2>6 DEF Locked
<1>9. ASSUME NEW w \in Writers, Migrating(w) PROVE Goal
  <2>1. CASE StartMigration(w)
    BY <1>6, <2>1 DEF StartMigration, Call
  <2>2. CASE Migrate(w)
    <3>1. /\ UNCHANGED <<pointer, read, next>> /\ ledgers' = ledgers \cup {LegacyLedger}
          /\ compiled' = [compiled EXCEPT ![w] = Compilation(LegacyLedger)]
      BY <2>2 DEF Migrate, Set
    <3>2. Compilation(LegacyLedger).ledger = LegacyLedger
      BY DEF Compilation
    <3>3. ASSUME NEW v \in Writers PROVE CompiledLedger(v)' \in Reach
      BY <1>2, <3>1, <3>2 DEF CompiledLedger, TypeOK
    <3> QED
      BY <1>2, <3>1, <3>3 DEF Goal, Published, ReadLedger
  <2>3. CASE MigratePoint(w)
    BY <1>2, <1>4, <2>3 DEF Goal, MigratePoint, Published, CompiledLedger
  <2>4. CASE MigrateArtifact(w)
    BY <1>5, <2>4 DEF MigrateArtifact
  <2> QED
    BY <1>9, <2>1, <2>2, <2>3, <2>4 DEF Migrating
<1>10. ASSUME NEW command \in Commands, NEW i \in Insights, NEW target \in Insights,
              NEW key \in Keys \cup {None}, Draft(command, i, target, key) \/ Ingest
       PROVE Goal
  BY <1>6, <1>10 DEF Draft, Ingest
<1>11. ASSUME Ingest \/ UNCHANGED vars PROVE Goal
  BY <1>6, <1>11 DEF Ingest, vars
<1>12. Goal
  BY <1>7, <1>8, <1>9, <1>10, <1>11, Zenon DEF Next
<1> QED
  BY <1>1, <1>12

\* A step drafts one command at most, for the published ledger.
LEMMA DraftStep ==
    ASSUME TypeOK, [Next]_vars
    PROVE  \/ draft' = draft
           \/ \E c \in Inputs : draft' = Append(draft, c) /\ c.base = Published
<1> USE DEF files, locals, world
<1>1. ASSUME NEW command \in Commands, NEW i \in Insights, NEW target \in Insights,
             NEW key \in Keys \cup {None}, Draft(command, i, target, key)
      PROVE \E c \in Inputs : draft' = Append(draft, c) /\ c.base = Published
  <2> DEFINE c == [command |-> command, insight |-> i, target |-> target, key |-> key,
                   base |-> Published]
  <2>1. c \in Inputs
    BY PublishedIsLedger DEF Inputs
  <2> QED
    BY <1>1, <2>1 DEF Draft
<1>2. ASSUME NEW w \in Writers, Start(w) \/ Locking(w) \/ Locked(w) \/ Migrating(w) \/ Die(w)
      PROVE draft' = draft
  <2>1. CASE Locking(w)
    BY <2>1 DEF Locking, Create, Exists, Write, Examine, Unlink, Finish, Release
  <2>2. CASE Locked(w)
    BY <2>2 DEF Locked, Read, Check, Save, Compile, WriteArtifact, Rebuild, RebuildFails, Point
  <2>3. CASE Migrating(w)
    BY <2>3 DEF Migrating, StartMigration, Call, Migrate, MigratePoint, MigrateArtifact
  <2>4. CASE Start(w) \/ Die(w)
    BY <2>4 DEF Start, Call, Die
  <2> QED
    BY <1>2, <2>1, <2>2, <2>3, <2>4
<1>3. CASE Ingest \/ UNCHANGED vars
  BY <1>3 DEF Ingest, vars
<1> QED
  BY <1>1, <1>2, <1>3, Zenon DEF Next

LEMMA ContentNext == ContentInv /\ [Next]_vars => ContentInv'
<1> SUFFICES ASSUME ContentInv, [Next]_vars PROVE ContentInv'
  OBVIOUS
<1>1. TypeOK /\ HasTask /\ BasesEarlier /\ \A ledger \in Known : Composed(ledger)
  BY DEF ContentInv
<1>2. TypeOK' /\ HasTask'
  BY <1>1, TypeNext, HasTaskNext
<1>3. draft' = draft \/ \E c \in Inputs : draft' = Append(draft, c) /\ c.base = Published
  BY <1>1, DraftStep
<1>4. Published \in Known /\ Known \subseteq Ledgers
  BY <1>1, KnownLedgers DEF Known
<1>5. BasesEarlier'
  <2>1. CASE draft' = draft
    BY <1>1, <2>1 DEF BasesEarlier
  <2>2. ASSUME NEW c \in Inputs, draft' = Append(draft, c), c.base = Published PROVE BasesEarlier'
    <3>1. /\ Len(draft) \in Nat /\ Len(draft') = Len(draft) + 1 /\ draft'[Len(draft) + 1] = c
          /\ \A d \in 1 .. Len(draft) : draft'[d] = draft[d]
      BY <1>1, <2>2 DEF TypeOK
    <3>2. \A n \in 1 .. Len(Published) : Published[n] \in 0 .. Len(draft)
      BY <1>1, <1>4 DEF Composed
    <3>3. (Len(draft) + 1) - 1 = Len(draft)
      BY <3>1
    <3>4. \A d \in 1 .. Len(draft') : d \in 1 .. Len(draft) \/ d = Len(draft) + 1
      BY <3>1
    <3> QED
      BY <1>1, <2>2, <3>1, <3>2, <3>3, <3>4 DEF BasesEarlier
  <2> QED
    BY <1>3, <2>1, <2>2
<1>6. ASSUME NEW l \in Reach PROVE l \in Ledgers /\ Composed(l)
  <2>1. CASE l \in Known
    BY <1>1, <1>4, <2>1
  <2>2. CASE l = LegacyLedger
    BY <1>1, <2>2, ComposedStarts DEF LegacyLedger, Ledgers
  <2>3. CASE l \in Extensions
    <3>1. PICK k \in Known, d \in 1 .. Len(draft) : Appends(k, d) /\ l = Append(k, d)
      BY <2>3 DEF Extensions
    <3>2. d \in Drafts
      BY <1>1, InsightAssumption DEF TypeOK, Drafts, InsightAssumption
    <3>3. k \in Ledgers /\ Composed(k)
      BY <1>1, <1>4
    <3> QED
      BY <1>1, <3>1, <3>2, <3>3, ComposedAppend DEF Ledgers
  <2> QED
    BY <2>1, <2>2, <2>3 DEF Reach
<1>7. \A l \in Reach : Composed(l)'
  BY <1>1, <1>3, <1>6, ComposedKept
<1>8. Known' \subseteq Reach
  BY <1>1, KnownNext
<1>9. PICK K : K = Known'
  OBVIOUS
<1>10. \A l \in K : Composed(l)'
  BY <1>7, <1>8, <1>9
<1>11. (\A ledger \in Known : Composed(ledger))'
  BY <1>9, <1>10
<1> QED
  BY <1>2, <1>5, <1>11 DEF ContentInv

------------------------------------------------------------------------------
(* The files and rows of a publication.                                      *)

\* Within a publication: the snapshot is written before the rows and the rows
\* before the pointer, and the holder wrote both.
Agrees ==
    Quiet /\ ~torn /\ pointer # None =>
        Readable /\ (pointer.ledger # LegacyLedger => rows = pointer.ledger)
PublicationInv ==
    /\ \A w \in Writers :
           /\ pc[w] \in {"rebuild", "point"} => artifact[compiled[w].output] = compiled[w]
           /\ pc[w] = "point" => rows = next[w]
    /\ Agrees

\* A step that enters and leaves no step of a publication and touches no file.
LEMMA QuietStep ==
    ASSUME TypeOK, PublicationInv, NEW w \in Writers, Others(w),
           UNCHANGED <<artifact, rows, pointer>>, torn => torn',
           pc[w] \in PublishSteps => torn', pc'[w] \notin PublishSteps
    PROVE  PublicationInv'
<1> USE DEF PublishSteps, PublicationInv
<1>1. ASSUME NEW v \in Writers
      PROVE  /\ pc'[v] \in {"rebuild", "point"} => artifact'[compiled'[v].output] = compiled'[v]
             /\ pc'[v] = "point" => rows' = next'[v]
  BY DEF Others
<1>2. Agrees'
  <2> SUFFICES ASSUME Quiet', ~torn' PROVE ~torn /\ Quiet
    BY DEF Agrees, Readable, LegacyLedger
  <2>1. ~torn /\ pc[w] \notin PublishSteps
    OBVIOUS
  <2> QED
    BY <2>1 DEF Quiet, Others
<1> QED
  BY <1>1, <1>2, Zenon DEF LegacyLedger

LEMMA PublicationNext ==
    ASSUME OrderInv, OrderInv', PublicationInv, strays' = {}, [Next]_vars
    PROVE  PublicationInv'
<1>0. TypeOK /\ TypeOK' /\ MigratesLegacy /\ HolderHasLock /\ PreparesNext
  BY DEF OrderInv
<1> USE DEF At, Goto, Set, files, locals, world
<1>1. ASSUME UNCHANGED <<artifact, rows, pointer, torn, pc, next, compiled>> PROVE PublicationInv'
  BY <1>1 DEF PublicationInv, Agrees, Quiet, Readable, LegacyLedger, PublishSteps
<1>2. ASSUME NEW w \in Writers, Start(w) \/ StartMigration(w) \/ Locking(w) PROVE PublicationInv'
  <2>1. /\ UNCHANGED <<artifact, rows, pointer, torn>> /\ Others(w)
        /\ pc[w] \notin PublishSteps /\ pc'[w] \notin PublishSteps
    BY <1>0, <1>2, ReturnChanges DEF Start, StartMigration, Call, Locking, Create, Exists, Write,
       Examine, Unlink, Finish, Release, TypeOK, Others, PublishSteps
  <2> QED
    BY <1>0, <2>1, QuietStep
<1>3. ASSUME NEW w \in Writers, Die(w) PROVE PublicationInv'
  <2>1. /\ UNCHANGED <<artifact, rows, pointer>> /\ Others(w) /\ pc'[w] = "idle"
        /\ torn' = (torn \/ pc[w] \in PublishSteps)
    BY <1>0, <1>3, ReturnChanges DEF Die
  <2>2. (pc[w] \in PublishSteps => torn') /\ (torn => torn')
    BY <1>0, <2>1 DEF TypeOK
  <2> QED
    BY <1>0, <2>1, <2>2, QuietStep DEF PublishSteps
<1>4. ASSUME NEW w \in Writers, Read(w) \/ Check(w) \/ Save(w) \/ Compile(w) \/ RebuildFails(w)
             \/ Migrate(w)
      PROVE PublicationInv'
  <2>1. /\ UNCHANGED <<artifact, rows, pointer>> /\ Others(w) /\ pc'[w] \notin PublishSteps
        /\ torn => torn'
        /\ pc[w] \in PublishSteps => torn'
    BY <1>0, <1>4 DEF Read, Check, CheckCommand, CheckRecompile, Save, Compile, RebuildFails, Migrate,
       TypeOK, Others, PublishSteps
  <2> QED
    BY <1>0, <2>1, QuietStep
<1>5. ASSUME NEW w \in Writers, pc[w] \in LockedSteps, NEW v \in Writers, v # w
      PROVE  pc[v] \notin {"rebuild", "point"}
  BY <1>0, <1>5, OneHolder DEF HoldSteps, LockedSteps
<1>6. ASSUME NEW w \in Writers, WriteArtifact(w) PROVE PublicationInv'
  <2>1. /\ pc[w] = "artifact" /\ pc'[w] = "rebuild" /\ Others(w) /\ compiled'[w] = compiled[w]
        /\ artifact' = [artifact EXCEPT ![compiled[w].output] = compiled[w]]
    BY <1>0, <1>6 DEF WriteArtifact, TypeOK, Others
  <2>2. compiled[w] \in Pointers
    BY <1>0, <2>1 DEF PreparesNext, TypeOK
  <2>3. artifact'[compiled[w].output] = compiled[w]
    BY <1>0, <2>1, <2>2 DEF TypeOK, Pointers
  <2>4. ~Quiet'
    BY <2>1 DEF Quiet, PublishSteps
  <2> QED
    BY <1>5, <2>1, <2>3, <2>4 DEF PublicationInv, Agrees, Others, LockedSteps
<1>7. ASSUME NEW w \in Writers, Rebuild(w) PROVE PublicationInv'
  <2>1. /\ pc[w] = "rebuild" /\ pc'[w] = "point" /\ Others(w) /\ compiled'[w] = compiled[w]
        /\ artifact' = artifact /\ rows' = next[w] /\ next'[w] = next[w]
    BY <1>0, <1>7 DEF Rebuild, TypeOK, Others
  <2>2. ~Quiet'
    BY <2>1 DEF Quiet, PublishSteps
  <2> QED
    BY <1>5, <2>1, <2>2 DEF PublicationInv, Agrees, Others, LockedSteps
<1>8. ASSUME NEW w \in Writers, Point(w) PROVE PublicationInv'
  <2>1. /\ pc[w] = "point" /\ pc'[w] = "finish" /\ Others(w)
        /\ UNCHANGED <<artifact, rows>> /\ pointer' = compiled[w]
    BY <1>0, <1>8 DEF Point, TypeOK, Others
  <2>2. compiled[w].ledger = next[w]
    BY <1>0, <2>1 DEF PreparesNext
  <2>3. Readable' /\ (pointer' # None => rows' = pointer'.ledger)
    BY <2>1, <2>2 DEF PublicationInv, Readable
  <2> QED
    BY <1>5, <2>1, <2>3 DEF PublicationInv, Agrees, Others, LockedSteps
<1>9. ASSUME NEW w \in Writers, MigratePoint(w) PROVE PublicationInv'
  <2>1. /\ pc'[w] = "migrate-artifact" /\ Others(w) /\ UNCHANGED <<artifact, rows>>
    BY <1>0, <1>9 DEF MigratePoint, TypeOK, Others
  <2>2. ~Quiet'
    BY <2>1 DEF Quiet, PublishSteps
  <2> QED
    BY <2>1, <2>2 DEF PublicationInv, Agrees, Others
<1>10. ASSUME NEW w \in Writers, MigrateArtifact(w) PROVE PublicationInv'
  <2>1. /\ pc[w] = "migrate-artifact" /\ pc'[w] = "idle" /\ Others(w) /\ pointer' = pointer
        /\ artifact' = [artifact EXCEPT ![compiled[w].output] = compiled[w]]
    BY <1>0, <1>10, ReturnChanges DEF MigrateArtifact
  <2>2. /\ \A v \in Writers : pc[v] \notin {"rebuild", "point"}
        /\ pointer = compiled[w] /\ pointer # None /\ pointer.ledger = LegacyLedger
    BY <1>0, <1>10, <2>1 DEF MigrateArtifact, MigratesLegacy
  <2>3. pointer \in Pointers
    BY <1>0, <2>2 DEF TypeOK
  <2>4. Readable' /\ pointer'.ledger = LegacyLedger
    BY <1>0, <2>1, <2>2, <2>3 DEF Readable, TypeOK, Pointers
  <2>5. \A v \in Writers : pc'[v] \notin {"rebuild", "point"}
    BY <2>1, <2>2 DEF Others
  <2> QED
    BY <2>4, <2>5 DEF PublicationInv, Agrees, LegacyLedger
<1>11. ASSUME NEW command \in Commands, NEW i \in Insights, NEW target \in Insights,
              NEW key \in Keys \cup {None}, Draft(command, i, target, key)
       PROVE PublicationInv'
  BY <1>1, <1>11 DEF Draft
<1>12. ASSUME Ingest \/ UNCHANGED vars PROVE PublicationInv'
  BY <1>1, <1>12 DEF Ingest, vars
<1> QED
  BY <1>2, <1>3, <1>4, <1>6, <1>7, <1>8, <1>9, <1>10, <1>11, <1>12, Zenon DEF Next, Locked, Migrating

------------------------------------------------------------------------------

\* The invariant of withLedgerLock, applyInsightCommand and
\* recompileCurrentInsightLedger: until a waiter removed the lock of a live
\* writer or a migration passed by the lock, the holder has the lock, and what it
\* prepares follows from what is published now.
THEOREM LedgerInvariant == Spec => []LedgerInv
<1>1. LedgerInv /\ [Next]_vars => LedgerInv'
  BY LedgerNext
<1> QED
  BY InitInsight, <1>1, PTL DEF Spec

\* Only such a step can make a command that applyInsightCommand answered with
\* success leave the published ledger.
THEOREM AcknowledgedKept == Spec => []AckKept
<1>1. LedgerInv => AckKept
  BY DEF LedgerInv, AckKept
<1> QED
  BY LedgerInvariant, <1>1, PTL

\* appendInsightTransition and the publication: until then every change of the
\* pointer keeps the ledger, extends it by one command that was made for it, or
\* is the first migration.
THEOREM HistoryIsLinear == Spec => LinearHistory
<1>1. LedgerInv /\ [Next]_vars => [strays' = {} => Linear]_vars
  BY LedgerNext
<1> QED
  BY LedgerInvariant, <1>1, PTL DEF Spec, LinearHistory

\* The ledgers in files and in memory are built of drafted commands, each once,
\* whoever passes by the lock.
THEOREM ContentInvariant == Spec => []ContentInv
<1>1. Init => ContentInv
  <2> SUFFICES ASSUME Init PROVE ContentInv
    OBVIOUS
  <2>1. TypeOK /\ HasTask
    BY InitInsight DEF LedgerInv
  <2>2. BasesEarlier
    BY DEF Init, BasesEarlier
  <2>3. Known = {<<>>}
    BY DEF Init, Known, Published, ReadLedger, CompiledLedger
  <2> QED
    BY <2>1, <2>2, <2>3, ComposedStarts DEF ContentInv
<1> QED
  BY <1>1, ContentNext, PTL DEF Spec

\* appendInsightTransition: no ledger has a command twice, and no two of its
\* commands share an idempotency key, though calls pass by the lock, die and
\* are repeated.
THEOREM CommandsAreUnique == Spec => []OncePerKey
<1>1. ContentInv => OncePerKey
  BY DEF ContentInv, OncePerKey, Known, Composed
<1> QED
  BY ContentInvariant, <1>1, PTL

\* validateTransitionChain accepts every ledger that was ever saved.
THEOREM SavedLedgersLoad == Spec => []LedgersValid
<1>1. ContentInv => LedgersValid
  BY DEF ContentInv, LedgersValid, Known, Composed
<1> QED
  BY ContentInvariant, <1>1, PTL

\* writeInsightPublication: until the lock was passed by, between publications
\* and unless one was cut short since the last, a reader of the pointer finds its
\* snapshot, and the rows show its ledger.
THEOREM PublicationIsWhole == Spec => []PublicationAgrees
<1> DEFINE Inv == strays = {} => PublicationInv
<1>1. Init => Inv
  BY DEF Init, PublicationInv, Agrees
<1>2. LedgerInv /\ Inv /\ [Next]_vars => Inv'
  <2> SUFFICES ASSUME LedgerInv, Inv, [Next]_vars, strays' = {} PROVE PublicationInv'
    OBVIOUS
  <2>1. OrderInv /\ OrderInv' /\ PublicationInv
    BY LedgerNext, StraysStay
  <2> QED
    BY <2>1, PublicationNext
<1>3. Inv => PublicationAgrees
  BY DEF PublicationInv, Agrees, PublicationAgrees
<1> QED
  BY LedgerInvariant, <1>1, <1>2, <1>3, PTL DEF Spec

=============================================================================
