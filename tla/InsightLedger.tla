--------------------------- MODULE InsightLedger ---------------------------
(***************************************************************************)
(* The ledger of insight transitions (src/insight-ledger.ts, insights.ts,  *)
(* insight-compiler.ts, insight-projection.ts) and its publication: an     *)
(* immutable ledger per state, a compiled startup snapshot, the rows in    *)
(* SQLite and insight-current.json, the pointer that names the others.     *)
(*                                                                         *)
(* A writer is a process that applies commands, recompiles or migrates,    *)
(* one call at a time; each file operation is one action, and a writer may *)
(* die before any of them.  A command is a draft: it was made against a    *)
(* ledger, may be submitted again and names its revision by its own        *)
(* number.  A ledger is the sequence of its drafts, which stands for its   *)
(* hash; validTime, conflicts, duplicates and risk classes are left out,   *)
(* all revisions of an insight have the same text, and idempotency keys    *)
(* are in the normal form of transitionId.  The pids of dead processes are *)
(* not given to others.                                                    *)
(***************************************************************************)
EXTENDS Naturals, Sequences, SequencesExt

CONSTANTS
    Writers, Insights, Keys, None,
    Commands,       \* the commands that are drafted
    Available,      \* state of the source projection -> the insights whose
                    \* evidence is active in it
    MaxContext,     \* bound: its states are numbered from 0
    MaxDrafts, MaxCalls, MaxDeaths     \* bounds, over all writers

Contexts == 0 .. MaxContext
Recompile == 0               \* the number of the call that is not a command
Lifecycle == {"accept", "accept-with-correction", "reject", "dispute", "resolve-dispute",
              "supersede", "expire", "retire"}

ASSUME InsightAssumption ==
    /\ Commands \subseteq Lifecycle
    /\ None \notin Writers \cup Insights \cup Keys \cup Nat
    /\ MaxContext \in Nat /\ Available \in [Contexts -> SUBSET Insights]
    /\ MaxDrafts \in Nat /\ MaxCalls \in Nat /\ MaxDeaths \in Nat

VARIABLES
    draft,          \* the commands drafted so far, in order
    context,        \* the source projection in SQLite
    ledgers,        \* the ledgers that were saved
    artifact,       \* startup text -> the compiled snapshot in its file
    rows,           \* the ledger that the SQLite tables show
    pointer,        \* insight-current.json
    lock,           \* memory/insight-ledgers/.lock: its creator, whether written
    pc, task,       \* writer -> its next step, and the call it serves
    read,           \* writer -> the pointer it read
    next,           \* writer -> the ledger it publishes
    compiled,       \* writer -> the pointer it prepared
    incarnation,    \* writer -> how often it died
    calls,          \* how many calls were made
    clock,          \* the next time of compilation
    acked,          \* history: the drafts that were answered with success
    torn,           \* history: a publication was cut short since the last one
    strays          \* history: the ways in which the lock was passed by

files == <<ledgers, artifact, rows, pointer, acked, torn>>
locals == <<task, read, next, compiled>>
world == <<draft, context, incarnation, calls, clock>>
vars == <<files, lock, pc, locals, world, strays>>

------------------------------------------------------------------------------
(* Ledgers.                                                                  *)

Drafts == 1 .. MaxDrafts
Legacy == 0                  \* the migrated entry, accepted, of one insight
LegacyInsight == CHOOSE i \in Insights : TRUE
Command(d) == IF d = Legacy
              THEN [command |-> "accept", insight |-> LegacyInsight, target |-> LegacyInsight,
                    key |-> None, base |-> <<>>]
              ELSE draft[d]

NoRevision == [revision |-> None, status |-> "none"]

\* revisionStatus.
StatusAfter(command) ==
    CASE command \in {"accept", "accept-with-correction"} -> "active"
      [] command \in {"resolve-dispute", "supersede"} -> "active"
      [] command = "reject" -> "rejected"
      [] command = "dispute" -> "disputed"
      [] command = "expire" -> "expired"
      [] command = "retire" -> "retired"

\* projectInsightState: the current revision and status of each insight.
Applied(current, d) ==
    LET c == Command(d)
        old == IF c.command = "supersede" /\ current[c.insight] # NoRevision
               THEN [current EXCEPT ![c.insight].status = "superseded"] ELSE current
    IN  [old EXCEPT ![c.target] = [revision |-> d, status |-> StatusAfter(c.command)]]
Current(ledger) == FoldLeft(Applied, [i \in Insights |-> NoRevision], ledger)

\* priorRevisionId, which the draft takes from the ledger it was made for.
Prior(d) == Current(Command(d).base)[Command(d).insight].revision

\* validateTransitionChain.
ChainValid(ledger) ==
    \A n \in 1 .. Len(ledger) :
        Current(SubSeq(ledger, 1, n - 1))[Command(ledger[n]).insight].revision = Prior(ledger[n])

\* commandAllowed, for a human with a human authority and with evidence.
Allowed(c, status) ==
    /\ c.command = "supersede" <=> c.target # c.insight
    /\ CASE c.command \in {"accept", "reject"} -> status \in {"none", "candidate"}
         [] c.command = "accept-with-correction" -> status \in {"none", "candidate", "disputed"}
         [] c.command = "dispute" -> status = "active"
         [] c.command = "resolve-dispute" -> status = "disputed"
         [] c.command = "supersede" -> status \in {"active", "disputed"}
         [] c.command = "expire" -> status \in {"none", "active", "candidate"}
         [] c.command = "retire" -> status \in {"active", "disputed", "expired"}

TransitionId(d) == IF Command(d).key = None THEN d ELSE Command(d).key

\* Mutants: the hash of the prior ledger is not compared; neither is the prior
\* revision; a key may be used for another command.
MutantStale(ledger, d) ==
    LET prior == Current(ledger)[Command(d).insight]
    IN  /\ \A e \in ToSet(ledger) : TransitionId(e) # TransitionId(d)
        /\ prior.revision = Prior(d) /\ Allowed(Command(d), prior.status)
MutantUnchained(ledger, d) ==
    /\ \A e \in ToSet(ledger) : TransitionId(e) # TransitionId(d)
    /\ Allowed(Command(d), Current(ledger)[Command(d).insight].status)
MutantKey(ledger, d) ==
    LET prior == Current(ledger)[Command(d).insight]
    IN  /\ Command(d).base = ledger
        /\ prior.revision = Prior(d) /\ Allowed(Command(d), prior.status)

\* appendInsightTransition: a command that is in the ledger already is
\* answered without a change if its key names it, or it is current; any other
\* must have been drafted against this very ledger.
Repeats(ledger, d) ==
    /\ d \in ToSet(ledger)
    /\ Command(d).key # None \/ Command(d).base = ledger
Appends(ledger, d) ==
    LET c == Command(d)
        prior == Current(ledger)[c.insight]
    IN  /\ c.base = ledger
        /\ \A e \in ToSet(ledger) : TransitionId(e) # TransitionId(d)
        /\ prior.revision = Prior(d)
        /\ Allowed(c, prior.status)

\* compileInsightProjection: the startup text shows the active insights whose
\* evidence is available, and nothing of the ledger or the time.
Active(ledger) == {i \in Insights : Current(ledger)[i].status = "active"}
Output(ledger, ctx) == Active(ledger) \cap Available[ctx]

Published == IF pointer = None THEN <<>> ELSE pointer.ledger
Compilation(ledger) ==
    [ledger |-> ledger, context |-> context, output |-> Output(ledger, context), at |-> clock]

------------------------------------------------------------------------------
(* Writers.                                                                  *)

Run(w) == <<w, incarnation[w]>>
Runs == Writers \X Nat
Dead(run) == incarnation[run[1]] # run[2]

\* A waiter looks at the lock at most once, then tries once more.
WaitSteps == {"open", "examine", "unlink", "reopen"}
LockedSteps == {"read", "check", "save", "compile", "artifact", "rebuild", "point"}
HoldSteps == LockedSteps \cup {"write", "finish", "release"}
MigrateSteps == {"migrate", "migrate-point", "migrate-artifact"}
Steps == {"idle"} \cup WaitSteps \cup HoldSteps \cup MigrateSteps

\* A waiter removed the lock of a live writer; a migration, which takes no lock,
\* replaced a pointer or met a writer that had read one.
Strays == {"lock", "migration"}

\* Steps that leave the snapshot of the pointer and the pointer apart.
PublishSteps == {"rebuild", "point", "migrate-artifact"}

Init ==
    /\ draft = <<>> /\ context = 0 /\ ledgers = {} /\ rows = <<>> /\ pointer = None
    /\ artifact = [o \in SUBSET Insights |-> None]
    /\ lock = None
    /\ pc = [w \in Writers |-> "idle"] /\ task = [w \in Writers |-> None]
    /\ read = [w \in Writers |-> None] /\ next = [w \in Writers |-> <<>>]
    /\ compiled = [w \in Writers |-> None]
    /\ incarnation = [w \in Writers |-> 0] /\ calls = 0 /\ clock = 0
    /\ acked = {} /\ torn = FALSE /\ strays = {}

At(w, step) == pc[w] = step
Goto(w, step) == pc' = [pc EXCEPT ![w] = step]
Set(f, w, value) == [f EXCEPT ![w] = value]

\* The call is over, or its process is dead: nothing of it is left in memory.
Forget(w) ==
    /\ task' = Set(task, w, None) /\ read' = Set(read, w, None)
    /\ next' = Set(next, w, <<>>) /\ compiled' = Set(compiled, w, None)
Return(w) == Goto(w, "idle") /\ Forget(w)

\* A command is made for what is published; the preview accepts it.
Draft(command, i, target, key) ==
    LET c == [command |-> command, insight |-> i, target |-> target, key |-> key,
              base |-> Published]
    IN  /\ Len(draft) < MaxDrafts /\ Allowed(c, Current(Published)[i].status)
        /\ draft' = Append(draft, c)
        /\ UNCHANGED <<files, lock, pc, locals, context, incarnation, calls, clock, strays>>

\* An ingest or a new source authority.
Ingest ==
    /\ context + 1 \in Contexts /\ context' = context + 1
    /\ UNCHANGED <<files, lock, pc, locals, draft, incarnation, calls, clock, strays>>

Call(w, t, step) ==
    /\ At(w, "idle") /\ calls < MaxCalls
    /\ Goto(w, step) /\ task' = Set(task, w, t) /\ calls' = calls + 1
    /\ UNCHANGED <<files, lock, read, next, compiled, draft, context, incarnation, clock, strays>>

\* applyInsightCommand and recompileCurrentInsightLedger.
Start(w) == \E t \in 0 .. Len(draft) : Call(w, t, "open")

------------------------------------------------------------------------------
(* withLedgerLock.                                                           *)

\* Mutant: open without O_EXCL.
MutantCreate(w) ==
    /\ pc[w] \in {"open", "reopen"}
    /\ lock' = [run |-> Run(w), written |-> FALSE]
    /\ Goto(w, "write")
    /\ UNCHANGED <<files, locals, world, strays>>

\* open with O_EXCL creates the lock, empty for now; on the second try an
\* existing one is an error.
Create(w) ==
    /\ pc[w] \in {"open", "reopen"} /\ lock = None
    /\ lock' = [run |-> Run(w), written |-> FALSE]
    /\ Goto(w, "write")
    /\ UNCHANGED <<files, locals, world, strays>>

Exists(w) ==
    /\ pc[w] \in {"open", "reopen"} /\ lock # None
    /\ IF At(w, "open") THEN Goto(w, "examine") /\ UNCHANGED locals ELSE Return(w)
    /\ UNCHANGED <<files, lock, world, strays>>

\* The record is written to the file that was opened and the name gets its
\* mode; without the name that fails.
Write(w) ==
    /\ At(w, "write")
    /\ IF lock = None THEN Return(w) ELSE Goto(w, "read") /\ UNCHANGED locals
    /\ lock' = IF lock # None /\ lock.run = Run(w) THEN [lock EXCEPT !.written = TRUE] ELSE lock
    /\ UNCHANGED <<files, world, strays>>

\* Stale is the lock of a dead process, an empty one once it is six hours old,
\* which no live process lets it become, and also one that is gone by now.
Examine(w) ==
    /\ At(w, "examine")
    /\ \/ (lock # None => Dead(lock.run)) /\ Goto(w, "unlink") /\ UNCHANGED locals
       \/ lock # None /\ (Dead(lock.run) => ~lock.written) /\ Return(w)
    /\ UNCHANGED <<files, lock, world, strays>>

\* unlink goes by the name, whatever it names by now, also the lock of a live
\* writer that came after the look; a missing one is an error.
Unlink(w) ==
    /\ At(w, "unlink")
    /\ IF lock = None THEN Return(w) ELSE Goto(w, "reopen") /\ UNCHANGED locals
    /\ lock' = None
    /\ strays' = strays \cup {l \in {"lock"} : lock # None /\ ~Dead(lock.run)}
    /\ UNCHANGED <<files, world>>

\* finally: the lock is read and, if it is this call's, removed.
Finish(w) ==
    /\ At(w, "finish")
    /\ IF lock # None /\ lock.run = Run(w) /\ lock.written
       THEN Goto(w, "release") /\ UNCHANGED locals ELSE Return(w)
    /\ UNCHANGED <<files, lock, world, strays>>

Release(w) ==
    /\ At(w, "release")
    /\ lock' = None
    /\ Return(w)
    /\ UNCHANGED <<files, world, strays>>

------------------------------------------------------------------------------
(* applyInsightCommand, recompileCurrentInsightLedger and                    *)
(* writeInsightPublication, under the lock.                                  *)

\* The pointer and the ledger it names, which must be whole; without a pointer
\* a command starts from the empty ledger and there is nothing to recompile.
Read(w) ==
    /\ At(w, "read")
    /\ IF IF pointer = None THEN task[w] # Recompile
          ELSE pointer.ledger \in ledgers /\ ChainValid(pointer.ledger)
       THEN Goto(w, "check") /\ read' = Set(read, w, pointer)
       ELSE Goto(w, "finish") /\ UNCHANGED read
    /\ UNCHANGED <<files, lock, task, next, compiled, world, strays>>

ReadLedger(w) == IF read[w] = None THEN <<>> ELSE read[w].ledger
InContext(w) == read[w] = None \/ read[w].context = context

\* The command is appended, or answered as a repetition, in the context of the
\* pointer only; a recompilation takes any context that has the evidence of all
\* active insights.
CheckCommand(w) ==
    LET d == task[w]
    IN  IF InContext(w) /\ (Repeats(ReadLedger(w), d) \/ Appends(ReadLedger(w), d))
        THEN /\ Goto(w, "save")
             /\ next' = Set(next, w, IF Repeats(ReadLedger(w), d) THEN ReadLedger(w)
                                     ELSE Append(ReadLedger(w), d))
        ELSE Goto(w, "finish") /\ UNCHANGED next

CheckRecompile(w) ==
    IF Active(ReadLedger(w)) \subseteq Available[context]
    THEN Goto(w, "compile") /\ next' = Set(next, w, ReadLedger(w))
    ELSE Goto(w, "finish") /\ UNCHANGED next

Check(w) ==
    /\ At(w, "check")
    /\ IF task[w] = Recompile THEN CheckRecompile(w) ELSE CheckCommand(w)
    /\ UNCHANGED <<files, lock, task, read, compiled, world, strays>>

Save(w) ==
    /\ At(w, "save")
    /\ ledgers' = ledgers \cup {next[w]}
    /\ Goto(w, "compile")
    /\ UNCHANGED <<artifact, rows, pointer, acked, torn, lock, locals, world, strays>>

\* The context is read anew, and for a command checked again.
Compile(w) ==
    /\ At(w, "compile")
    /\ IF task[w] = Recompile \/ InContext(w)
       THEN /\ Goto(w, "artifact") /\ clock' = clock + 1
            /\ compiled' = Set(compiled, w, Compilation(next[w]))
       ELSE Goto(w, "finish") /\ UNCHANGED <<clock, compiled>>
    /\ UNCHANGED <<files, lock, task, read, next, draft, context, incarnation, calls, strays>>

\* Mutant: a snapshot file that is there already is kept.
MutantWriteArtifact(w) ==
    /\ At(w, "artifact")
    /\ artifact' = [artifact EXCEPT ![compiled[w].output] =
                        IF @ = None THEN compiled[w] ELSE @]
    /\ Goto(w, "rebuild")
    /\ UNCHANGED <<ledgers, rows, pointer, acked, torn, lock, locals, world, strays>>

\* The file of the snapshot is named by its text: one with the same text and
\* another time is replaced.
WriteArtifact(w) ==
    /\ At(w, "artifact")
    /\ artifact' = [artifact EXCEPT ![compiled[w].output] = compiled[w]]
    /\ Goto(w, "rebuild")
    /\ UNCHANGED <<ledgers, rows, pointer, acked, torn, lock, locals, world, strays>>

\* rebuildInsightProjection replaces all rows in one transaction.
Rebuild(w) ==
    /\ At(w, "rebuild")
    /\ rows' = next[w]
    /\ Goto(w, "point")
    /\ UNCHANGED <<ledgers, artifact, pointer, acked, torn, lock, locals, world, strays>>

\* The database is busy or a revision has a used number: storage-error.
RebuildFails(w) ==
    /\ At(w, "rebuild")
    /\ torn' = TRUE
    /\ Goto(w, "finish")
    /\ UNCHANGED <<ledgers, artifact, rows, pointer, acked, lock, locals, world, strays>>

\* The call succeeds with this write; its answer follows the release.
Point(w) ==
    /\ At(w, "point")
    /\ pointer' = compiled[w] /\ torn' = FALSE
    /\ acked' = acked \cup ({task[w]} \ {Recompile})
    /\ Goto(w, "finish")
    /\ UNCHANGED <<ledgers, artifact, rows, lock, locals, world, strays>>

------------------------------------------------------------------------------
(* migrateInsightLedger, which takes no lock.                                *)

LegacyLedger == <<Legacy>>

StartMigration(w) == Call(w, None, "migrate")

Migrate(w) ==
    /\ At(w, "migrate")
    /\ ledgers' = ledgers \cup {LegacyLedger}
    /\ compiled' = Set(compiled, w, Compilation(LegacyLedger)) /\ clock' = clock + 1
    /\ Goto(w, "migrate-point")
    /\ UNCHANGED <<artifact, rows, pointer, acked, torn, lock, task, read, next,
                   draft, context, incarnation, calls, strays>>

\* Here the pointer comes first, whatever is published by now, and the rows are
\* not rebuilt.
MigratePoint(w) ==
    /\ At(w, "migrate-point")
    /\ pointer' = compiled[w]
    /\ strays' = strays \cup {l \in {"migration"} :
           pointer # None \/ \E v \in Writers : pc[v] \in LockedSteps \ {"read"}}
    /\ Goto(w, "migrate-artifact")
    /\ UNCHANGED <<ledgers, artifact, rows, acked, torn, lock, locals, world>>

MigrateArtifact(w) ==
    /\ At(w, "migrate-artifact")
    /\ artifact' = [artifact EXCEPT ![compiled[w].output] = compiled[w]]
    /\ strays' = strays \cup {l \in {"migration"} :
           pointer # compiled[w] \/ \E v \in Writers : pc[v] \in {"rebuild", "point"}}
    /\ Return(w)
    /\ UNCHANGED <<ledgers, rows, pointer, acked, torn, lock, world>>

------------------------------------------------------------------------------

\* The process dies during a call (without one it leaves nothing behind); the
\* next process of the writer has another pid.
Die(w) ==
    /\ ~At(w, "idle")
    /\ SumFunction(incarnation) < MaxDeaths
    /\ incarnation' = [incarnation EXCEPT ![w] = @ + 1]
    /\ torn' = (torn \/ pc[w] \in PublishSteps)
    /\ Return(w)
    /\ UNCHANGED <<ledgers, artifact, rows, pointer, acked, lock, draft, context, calls, clock,
                   strays>>

Locked(w) == Read(w) \/ Check(w) \/ Save(w) \/ Compile(w) \/ WriteArtifact(w)
                 \/ Rebuild(w) \/ RebuildFails(w) \/ Point(w)
Locking(w) == Create(w) \/ Exists(w) \/ Write(w) \/ Examine(w) \/ Unlink(w)
                 \/ Finish(w) \/ Release(w)
Migrating(w) == StartMigration(w) \/ Migrate(w) \/ MigratePoint(w) \/ MigrateArtifact(w)

Next ==
    \/ \E command \in Commands, i, target \in Insights, key \in Keys \cup {None} :
           Draft(command, i, target, key)
    \/ Ingest
    \/ \E w \in Writers : Start(w) \/ Locking(w) \/ Locked(w) \/ Migrating(w) \/ Die(w)

Spec == Init /\ [][Next]_vars

------------------------------------------------------------------------------
(* Properties.                                                               *)

Ledgers == Seq(Drafts \cup {Legacy})
Pointers == [ledger : Ledgers, context : Contexts, output : SUBSET Insights, at : Nat]
Locks == [run : Runs, written : BOOLEAN]
ASSUME RecordAssumption == None \notin Pointers /\ None \notin Locks
Inputs == [command : Commands, insight : Insights, target : Insights, key : Keys \cup {None},
           base : Ledgers]

TypeOK ==
    /\ draft \in Seq(Inputs) /\ Len(draft) <= MaxDrafts
    /\ context \in Contexts /\ clock \in Nat /\ calls \in Nat
    /\ ledgers \subseteq Ledgers /\ rows \in Ledgers /\ pointer \in Pointers \cup {None}
    /\ artifact \in [SUBSET Insights -> Pointers \cup {None}]
    /\ lock \in Locks \cup {None}
    /\ pc \in [Writers -> Steps] /\ task \in [Writers -> (0 .. Len(draft)) \cup {None}]
    /\ next \in [Writers -> Ledgers] /\ incarnation \in [Writers -> Nat]
    /\ read \in [Writers -> Pointers \cup {None}] /\ compiled \in [Writers -> Pointers \cup {None}]
    /\ acked \subseteq 1 .. Len(draft) /\ torn \in BOOLEAN /\ strays \subseteq Strays

\* What was answered with success is in the published ledger, whoever dies and
\* waits, until the lock was passed by.
Kept == acked \subseteq ToSet(Published)
AckKept == strays = {} => Kept

\* Until then the published history is linear, too: a step extends it by one
\* command at most, and that command was made for exactly the ledger it extends
\* ("a stale prior ledger hash is rejected").
Linear ==
    \/ Published' = Published
    \/ \E d \in 1 .. Len(draft) :
           Published' = Append(Published, d) /\ draft[d].base = Published
    \/ pointer = None /\ Published' = LegacyLedger
LinearHistory == [][strays' = {} => Linear]_vars

\* "Writes are serialized by memory/insight-ledgers/.lock" (design-specs/
\* experience-memory.md): two writers never apply commands side by side.
\* They do once the lock was passed by.
WritesSerialized ==
    \A v, w \in Writers : pc[v] \in LockedSteps /\ pc[w] \in LockedSteps => v = w

\* A command is in a ledger once, however often it is submitted, and no two
\* commands of a ledger share their idempotency key.
OncePerKey ==
    \A ledger \in ledgers : \A m, n \in 1 .. Len(ledger) :
        m # n => TransitionId(ledger[m]) # TransitionId(ledger[n])

\* What the append accepts the validation of the next reader accepts: no
\* sequence of commands produces a ledger that cannot be loaded again.
LedgersValid == \A ledger \in ledgers : ChainValid(ledger)

\* readCurrentInsightLedger: the compiled snapshot is that of the pointer.
Readable == pointer # None => artifact[pointer.output] = pointer

\* Until then, between publications and unless one was cut short since the last,
\* readers find the snapshot of the pointer, and the rows show its ledger (those of a
\* migration are not built): every publication repairs what an interrupted one
\* left, a repeated command's too.
Quiet == \A w \in Writers : pc[w] \notin PublishSteps
PublicationAgrees ==
    strays = {} /\ Quiet /\ ~torn /\ pointer # None =>
        Readable /\ (pointer.ledger # LegacyLedger => rows = pointer.ledger)

(* The inductive invariant behind them.                                      *)

\* A call under the lock, or on its way there, has its command: only a
\* migration has none.
HasTask == \A w \in Writers : pc[w] \in WaitSteps \cup LockedSteps \cup {"write"} => task[w] # None

\* A migration publishes the migrated ledger.
MigratesLegacy ==
    \A w \in Writers : pc[w] \in {"migrate-point", "migrate-artifact"} =>
        compiled[w] # None /\ compiled[w].ledger = LegacyLedger

\* The lock is that of the one writer past its creation.
HolderHasLock == \A w \in Writers : pc[w] \in HoldSteps => lock # None /\ lock.run = Run(w)

\* What a writer prepares follows from what is published now.
PreparesNext ==
    \A w \in Writers :
        /\ pc[w] \in LockedSteps \ {"read"} => read[w] = pointer
        /\ pc[w] \in {"save", "compile", "artifact", "rebuild", "point"} =>
               IF task[w] = Recompile THEN next[w] = Published
               ELSE \/ next[w] = Published /\ task[w] \in ToSet(Published)
                    \/ next[w] = Append(Published, task[w]) /\ draft[task[w]].base = Published
        /\ pc[w] \in {"artifact", "rebuild", "point"} =>
               compiled[w] # None /\ compiled[w].ledger = next[w]

LedgerInv ==
    /\ TypeOK /\ HasTask /\ MigratesLegacy
    /\ strays = {} => HolderHasLock /\ PreparesNext /\ Kept

=============================================================================
