--------------------------- MODULE FileLockProofs ---------------------------
(***************************************************************************)
(* Proofs about FileLock: until one of the limits was too short for a live *)
(* process, the work of two callers never overlaps and a live caller keeps *)
(* its lock, for every set of callers, processes and inodes and whatever   *)
(* dies.  What a lapse leads to is shown by the runs.                      *)
(***************************************************************************)
EXTENDS FileLock, TLAPS

\* The record of a caller whose process runs is not that of a dead owner.
LEMMA RunIsAlive ==
    ASSUME NEW c \in Clients, running[PidOf[c]]
    PROVE  ~OwnerDead(Run(c))
BY DEF OwnerDead, Run

LEMMA RunIsRun ==
    ASSUME TypeOK, NEW c \in Clients
    PROVE  Run(c) \in Runs /\ Run(c) # None
BY LockAssumption, RunsAssumption DEF Run, Runs, TypeOK, LockAssumption, RunsAssumption

LEMMA InitLock == Init => LockInv
<1> SUFFICES ASSUME Init PROVE LockInv
  OBVIOUS
<1> USE DEF Init
<1>1. TypeOK
  BY LockAssumption DEF TypeOK, LockAssumption, Steps
<1>2. OwnerHasLock /\ ReclaimerHasClaim /\ RecordsInPast
  BY DEF OwnerHasLock, ReclaimerHasClaim, RecordsInPast, OwnSteps, ReclaimSteps
<1> QED
  BY <1>1, <1>2 DEF LockInv

\* Types, action by action: what a caller's step may change.
LEMMA TypeNext == TypeOK /\ [Next]_vars => TypeOK'
<1> SUFFICES ASSUME TypeOK, [Next]_vars PROVE TypeOK'
  OBVIOUS
<1> USE LockAssumption DEF LockAssumption, TypeOK, Goto, Steps, OwnSteps, ReclaimSteps, Lapses
<1>1. ASSUME NEW c \in Clients, Step(c) \/ WriteFails(c) PROVE TypeOK'
  <2>1. CASE Create(c)
    BY <2>1 DEF Create, Free, At, processes
  <2>2. CASE Exists(c) \/ WriteFails(c) \/ Expire(c) \/ Compare(c) \/ Finish(c)
    BY <2>2 DEF Exists, WriteFails, Expire, Compare, Finish, Return, files, processes
  <2>3. CASE Write(c)
    <3>1. Run(c) \in Runs /\ file[c] \in Inodes
      BY <2>3, RunIsRun DEF Write, At
    <3> QED
      BY <2>3, <3>1 DEF Write, Touch, processes
  <2>4. CASE Chmod(c) \/ UnlinkLock(c) \/ Release(c)
    BY <2>4 DEF Chmod, UnlinkLock, Release, Touch, Return, processes
  <2>5. CASE Observe(c) \/ ObserveClaim(c)
    BY <2>5 DEF Observe, ObserveClaim, ReadRecord, files, processes
  <2>6. CASE Judge(c) \/ JudgeClaim(c)
    BY <2>6 DEF Judge, JudgeClaim, Forget, files, processes
  <2>7. CASE Link(c)
    BY <2>7 DEF Link, processes
  <2>8. CASE DropClaim(c)
    BY <2>8 DEF DropClaim, processes
  <2> QED
    BY <1>1, <2>1, <2>2, <2>3, <2>4, <2>5, <2>6, <2>7, <2>8 DEF Step, Acquire, Reclaim
<1>2. ASSUME NEW p \in Pids, Die(p) \/ Restart(p) PROVE TypeOK'
  <2>1. CASE Die(p)
    BY <2>1 DEF Die, files
  <2>2. CASE Restart(p)
    BY <2>2 DEF Restart, files, clients
  <2> QED
    BY <1>2, <2>1, <2>2
<1>3. ASSUME NEW i \in Inodes, Age(i) PROVE TypeOK'
  BY <1>3 DEF Age, clients, processes
<1>4. CASE AgeClaim
  BY <1>4 DEF AgeClaim, clients, processes
<1>5. CASE UNCHANGED vars
  BY <1>5 DEF vars, files, clients, processes
<1> QED
  BY <1>1, <1>2, <1>3, <1>4, <1>5 DEF Next

\* A record names a run that has been, whatever limit was too short.
LEMMA PastNext == TypeOK /\ RecordsInPast /\ [Next]_vars => RecordsInPast'
<1> SUFFICES ASSUME TypeOK, RecordsInPast, [Next]_vars PROVE RecordsInPast'
  OBVIOUS
<1> USE DEF TypeOK
<1>1. ASSUME NEW c \in Clients, Write(c) PROVE RecordsInPast'
  <2>1. /\ file[c] \in Inodes /\ record' = [record EXCEPT ![file[c]] = Run(c)]
        /\ UNCHANGED <<running, incarnation>>
    BY <1>1 DEF Write, At, processes
  <2>2. Run(c)[1] = c /\ Run(c)[2] = incarnation[PidOf[c]] /\ incarnation[PidOf[c]] \in Nat
    BY LockAssumption DEF Run, LockAssumption
  <2> QED
    BY <2>1, <2>2 DEF RecordsInPast
<1>2. ASSUME NEW c \in Clients, Create(c) PROVE RecordsInPast'
  <2>1. PICK i \in Free : record' = [record EXCEPT ![i] = None]
    BY <1>2 DEF Create
  <2> QED
    BY <1>2, <2>1 DEF Create, RecordsInPast, Free, processes
<1>3. ASSUME NEW c \in Clients, Step(c) \/ WriteFails(c), ~Write(c), ~Create(c)
      PROVE  UNCHANGED <<record, processes>>
  BY <1>3 DEF Step, Acquire, Reclaim, Exists, WriteFails, Chmod, Observe, Judge, Link, Expire,
              ObserveClaim, JudgeClaim, Compare, UnlinkLock, DropClaim, Finish, Release, files
<1>4. ASSUME NEW p \in Pids, Restart(p) PROVE RecordsInPast'
  <2> SUFFICES ASSUME NEW i \in Inodes, record[i] # None
               PROVE  record[i][2] <= incarnation'[PidOf[record[i][1]]]
    BY <1>4 DEF RecordsInPast, Restart, files
  <2>1. /\ record[i] \in Runs /\ record[i][1] \in Clients /\ record[i][2] \in Nat
        /\ record[i][2] <= incarnation[PidOf[record[i][1]]]
    BY DEF RecordsInPast, Runs
  <2> QED
    BY <1>4, <2>1, LockAssumption DEF Restart, LockAssumption
<1>5. ASSUME NEW p \in Pids, Die(p) PROVE UNCHANGED <<record, incarnation>>
  BY <1>5 DEF Die, files
<1>6. (\E i \in Inodes : Age(i)) \/ AgeClaim \/ UNCHANGED vars => UNCHANGED <<record, incarnation>>
  BY DEF Age, AgeClaim, vars, files, processes
<1>7. UNCHANGED <<record, incarnation>> => RecordsInPast'
  BY DEF RecordsInPast
<1> QED
  BY <1>1, <1>2, <1>3, <1>4, <1>5, <1>6, <1>7 DEF Next, processes

\* What was too short stays so.
LEMMA LapsesStay == ASSUME [Next]_vars PROVE lapses \subseteq lapses'
BY DEF Next, vars, Step, Acquire, Reclaim, Create, Exists, Write, WriteFails, Chmod, Observe, Judge,
       Link, Expire, ObserveClaim, JudgeClaim, Compare, UnlinkLock, DropClaim, Finish, Release,
       Die, Restart, Age, AgeClaim, files, processes, clients

\* The part of the invariant that holds while every limit was long enough.
InTimeInv == OwnerHasLock /\ ReclaimerHasClaim

\* A caller's step leaves the files alone and moves it between steps in which
\* it owns nothing, claims nothing.
LEMMA QuietStep ==
    ASSUME TypeOK, InTimeInv, NEW c \in Clients, UNCHANGED <<files, processes>>,
           pc[c] \notin OwnSteps \cup ReclaimSteps, pc'[c] \notin OwnSteps \cup ReclaimSteps,
           \A d \in Clients : d # c => pc'[d] = pc[d] /\ saw'[d] = saw[d] /\ file'[d] = file[d]
    PROVE  InTimeInv'
<1> USE DEF InTimeInv, files, processes, OwnSteps, ReclaimSteps
<1>1. OwnerHasLock'
  BY DEF OwnerHasLock, Run
<1>2. ReclaimerHasClaim'
  BY DEF ReclaimerHasClaim, Stale, OwnerDead
<1> QED
  BY <1>1, <1>2

LEMMA CreateStep ==
    ASSUME TypeOK, InTimeInv, TypeOK', NEW c \in Clients, Create(c)
    PROVE  InTimeInv'
<1> USE DEF InTimeInv, TypeOK, Goto, OwnSteps, ReclaimSteps, processes
<1>1. PICK i \in Free : /\ lock' = i /\ file' = [file EXCEPT ![c] = i]
                        /\ record' = [record EXCEPT ![i] = None]
                        /\ aged' = [aged EXCEPT ![i] = FALSE]
  BY DEF Create
<1>2. /\ lock = None /\ running[PidOf[c]] /\ i \in Inodes /\ i # claim /\ i # None
      /\ pc' = [pc EXCEPT ![c] = "write"] /\ pc[c] = "open"
      /\ UNCHANGED <<claim, claimAged, claimant, saw, running, incarnation>>
  BY <1>1, LockAssumption DEF Create, Free, At, Alive, LockAssumption
<1>3. \A d \in Clients : pc[d] \notin OwnSteps
  BY <1>2 DEF OwnerHasLock
<1>4. OwnerHasLock'
  BY <1>1, <1>2, <1>3 DEF OwnerHasLock
<1>5. ReclaimerHasClaim'
  <2>1. \A d \in Clients : pc'[d] \in ReclaimSteps => pc[d] = pc'[d] /\ claim # None
    BY <1>2 DEF ReclaimerHasClaim
  <2>2. claim # None => record'[claim] = record[claim] /\ aged'[claim] = aged[claim]
    BY <1>1, <1>2
  <2>3. Stale(claim) /\ claim # None => Stale(claim)'
    BY <1>1, <1>2, <2>2 DEF Stale, OwnerDead
  <2> QED
    BY <1>2, <2>1, <2>2, <2>3 DEF ReclaimerHasClaim
<1> QED
  BY <1>4, <1>5

LEMMA WriteStep ==
    ASSUME TypeOK, InTimeInv, TypeOK', NEW c \in Clients, Write(c)
    PROVE  InTimeInv'
<1> USE DEF InTimeInv, TypeOK, Goto, OwnSteps, ReclaimSteps, processes
<1>1. /\ lock = file[c] /\ lock # None /\ lock \in Inodes /\ record[lock] = None /\ ~aged[lock]
      /\ running[PidOf[c]] /\ \A d \in Clients : pc[d] \in OwnSteps => c = d
      /\ record' = [record EXCEPT ![lock] = Run(c)]
      /\ aged' = [aged EXCEPT ![lock] = FALSE]
      /\ pc[c] = "write" /\ pc' = [pc EXCEPT ![c] = "chmod"]
      /\ claimAged' = (claimAged /\ claim # lock)
      /\ UNCHANGED <<lock, claim, claimant, file, saw, running, incarnation>>
  BY DEF Write, OwnerHasLock, At, Touch
<1>2. Run(c) # None /\ Run(c)' = Run(c)
  BY <1>1, RunIsRun DEF Run
<1>3. OwnerHasLock'
  BY <1>1, <1>2 DEF OwnerHasLock, Run
<1>4. ReclaimerHasClaim'
  <2>1. CASE claim = lock
    BY <1>1, <1>2, <2>1 DEF ReclaimerHasClaim, Stale
  <2>2. CASE claim # lock
    <3>1. claim \in Inodes => record'[claim] = record[claim] /\ aged'[claim] = aged[claim]
      BY <1>1, <2>2
    <3>2. Stale(claim) /\ claim \in Inodes => Stale(claim)'
      BY <1>1, <2>2, <3>1 DEF Stale, OwnerDead
    <3> QED
      BY <1>1, <2>2, <3>1, <3>2 DEF ReclaimerHasClaim
  <2> QED
    BY <2>1, <2>2
<1> QED
  BY <1>3, <1>4

\* Steps of a caller that owns the lock before or after it, and that leave
\* the inodes and the claim alone: chmod, the check of the release, the release
\* itself, and a write that fails.
LEMMA OwnerStep ==
    ASSUME TypeOK, InTimeInv, TypeOK', NEW c \in Clients,
           WriteFails(c) \/ Chmod(c) \/ Finish(c) \/ Release(c)
    PROVE  InTimeInv'
<1> USE DEF InTimeInv, TypeOK, Goto, OwnSteps, ReclaimSteps, processes, files, At, Return
<1>1. /\ pc[c] \in OwnSteps
      /\ UNCHANGED <<claim, record, aged, claimant, saw, running, incarnation>>
      /\ \A d \in Clients : d # c => pc'[d] = pc[d] /\ file'[d] = file[d]
  BY DEF WriteFails, Chmod, Finish, Release
<1>2. \A d \in Clients : d # c => pc'[d] \notin OwnSteps
  BY <1>1 DEF OwnerHasLock
<1>3. \/ pc'[c] = "open"
      \/ /\ pc'[c] \in {"hold", "release"} /\ pc[c] # "write"
         /\ lock' = lock /\ file'[c] = file[c]
  BY DEF WriteFails, Chmod, Finish, Release
<1>4. OwnerHasLock'
  BY <1>1, <1>2, <1>3 DEF OwnerHasLock, Run
<1>5. \A d \in Clients : pc[d] # "unlink-lock"
  <2> SUFFICES ASSUME NEW d \in Clients, pc[d] = "unlink-lock" PROVE FALSE
    OBVIOUS
  <2>1. lock = claim /\ Stale(lock)
    BY DEF ReclaimerHasClaim
  <2>2. /\ running[PidOf[c]] /\ lock = file[c]
        /\ record[lock] = IF pc[c] = "write" THEN None ELSE Run(c)
    BY <1>1 DEF OwnerHasLock
  <2>3. CASE pc[c] = "write"
    BY <2>1, <2>2, <2>3 DEF Stale
  <2>4. CASE pc[c] # "write"
    BY <2>1, <2>2, <2>4, RunIsAlive, RunIsRun DEF Stale
  <2> QED
    BY <2>3, <2>4
<1>6. ReclaimerHasClaim'
  <2>1. Stale(claim) => Stale(claim)'
    BY <1>1, <1>3 DEF Stale, OwnerDead
  <2> QED
    BY <1>1, <1>3, <1>5, <2>1 DEF ReclaimerHasClaim
<1> QED
  BY <1>4, <1>6

\* Steps of reclaimStaleLock that leave the lock alone.
LEMMA ClaimStep ==
    ASSUME TypeOK, InTimeInv, TypeOK', NEW c \in Clients,
           \/ Link(c) \/ Expire(c) \/ ObserveClaim(c) \/ JudgeClaim(c) \/ Compare(c)
           \/ DropClaim(c) /\ lapses' = {}
    PROVE  InTimeInv'
<1> USE DEF InTimeInv, TypeOK, Goto, OwnSteps, ReclaimSteps, processes, files, At
<1>1. /\ UNCHANGED <<lock, record, aged, file, running, incarnation>>
      /\ pc[c] \notin OwnSteps /\ pc'[c] \notin OwnSteps
      /\ running[PidOf[c]]
      /\ \A d \in Clients : d # c => pc'[d] = pc[d] /\ saw'[d] = saw[d]
  BY DEF Link, Expire, ObserveClaim, JudgeClaim, Compare, DropClaim, ReadRecord, Forget, Alive
<1>2. OwnerHasLock'
  BY <1>1 DEF OwnerHasLock, Run
<1>4. \A i : Stale(i) => Stale(i)'
  BY <1>1 DEF Stale, OwnerDead
<1>5. ReclaimerHasClaim'
  <2>1. CASE Link(c)
    BY <1>1, <1>4, <2>1 DEF Link, ReclaimerHasClaim
  <2>2. CASE Expire(c)
    BY <1>1, <1>4, <2>2 DEF Expire, ReclaimerHasClaim
  <2>3. CASE ObserveClaim(c)
    BY <1>1, <1>4, <2>3 DEF ObserveClaim, ReadRecord, ReclaimerHasClaim
  <2>4. CASE JudgeClaim(c)
    <3>1. /\ UNCHANGED <<claim, claimAged, claimant>> /\ pc[c] = "judge-claim"
          /\ pc'[c] = IF Judged(c, claim) THEN "compare" ELSE "drop-claim"
      BY <2>4 DEF JudgeClaim
    <3>2. Judged(c, claim) => Stale(claim)
      <4> SUFFICES ASSUME Judged(c, claim) PROVE Stale(claim)
        OBVIOUS
      <4>1. claim \in Inodes
        BY <3>1 DEF ReclaimerHasClaim
      <4>2. IF record[claim] = None THEN aged[claim] ELSE OwnerDead(record[claim])
        BY <3>1, <4>1 DEF Judged, ReclaimerHasClaim
      <4>3. \A d \in Clients : ~(pc[d] = "write" /\ file[d] = claim)
        BY <4>2 DEF OwnerHasLock
      <4> QED
        BY <4>2, <4>3 DEF Stale
    <3> QED
      BY <1>1, <1>4, <3>1, <3>2 DEF ReclaimerHasClaim
  <2>5. CASE Compare(c)
    BY <1>1, <1>4, <2>5 DEF Compare, ReclaimerHasClaim
  <2>6. CASE DropClaim(c) /\ lapses' = {}
    <3>1. /\ claim # None /\ claimant # c => pc[claimant] \notin ReclaimSteps
          /\ pc[c] \in {"drop-claim", "drop-old"} /\ pc'[c] = "open"
      BY <2>6 DEF DropClaim
    <3>2. \A d \in Clients : pc'[d] \notin ReclaimSteps
      BY <1>1, <3>1 DEF ReclaimerHasClaim
    <3> QED
      BY <3>2 DEF ReclaimerHasClaim
  <2> QED
    BY <2>1, <2>2, <2>3, <2>4, <2>5, <2>6
<1> QED
  BY <1>2, <1>5

\* The step that removes a stale lock finds nobody who owns it.
LEMMA UnlinkStep ==
    ASSUME TypeOK, InTimeInv, TypeOK', NEW c \in Clients, UnlinkLock(c)
    PROVE  InTimeInv'
<1> USE DEF InTimeInv, TypeOK, Goto, OwnSteps, ReclaimSteps, processes, At
<1>1. /\ lock = claim /\ Stale(lock) /\ claimant = c
      /\ UNCHANGED <<claim, record, aged, claimant, file, saw, running, incarnation>>
      /\ pc' = [pc EXCEPT ![c] = "drop-claim"]
      /\ pc[c] = "unlink-lock"
  BY DEF UnlinkLock, ReclaimerHasClaim
<1>2. ASSUME NEW d \in Clients, pc[d] \in OwnSteps PROVE FALSE
  <2>1. /\ running[PidOf[d]] /\ lock = file[d]
        /\ record[lock] = IF pc[d] = "write" THEN None ELSE Run(d)
    BY <1>2 DEF OwnerHasLock
  <2>2. CASE pc[d] = "write"
    BY <1>1, <2>1, <2>2 DEF Stale
  <2>3. CASE pc[d] # "write"
    BY <1>1, <2>1, <2>3, RunIsAlive, RunIsRun DEF Stale
  <2> QED
    BY <2>2, <2>3
<1>3. OwnerHasLock'
  BY <1>1, <1>2 DEF OwnerHasLock
<1>4. ReclaimerHasClaim'
  BY <1>1 DEF ReclaimerHasClaim, Stale, OwnerDead
<1> QED
  BY <1>3, <1>4

\* A death takes its callers out of the protocol and only makes owners dead.
LEMMA DieStep ==
    ASSUME TypeOK, InTimeInv, TypeOK', NEW p \in Pids, Die(p)
    PROVE  InTimeInv'
<1> USE LockAssumption DEF InTimeInv, LockAssumption, TypeOK, OwnSteps, ReclaimSteps, files, Die
<1>1. \A c \in Clients :
          /\ PidOf[c] = p => pc'[c] = "open"
          /\ PidOf[c] # p => /\ pc'[c] = pc[c] /\ file'[c] = file[c] /\ saw'[c] = saw[c]
                             /\ running'[PidOf[c]] = running[PidOf[c]]
  OBVIOUS
<1>2. OwnerHasLock'
  BY <1>1 DEF OwnerHasLock, Run
<1>3. Stale(claim) /\ claim \in Inodes => Stale(claim)'
  <2>1. \A r \in Runs : OwnerDead(r) => OwnerDead(r)'
    BY DEF OwnerDead, Runs
  <2> QED
    BY <1>1, <2>1 DEF Stale
<1>4. ReclaimerHasClaim'
  BY <1>1, <1>3 DEF ReclaimerHasClaim
<1> QED
  BY <1>2, <1>4

\* The next process with a pid is none of the owners that a record names.
LEMMA RestartStep ==
    ASSUME TypeOK, RecordsInPast, InTimeInv, TypeOK', NEW p \in Pids, Restart(p)
    PROVE  InTimeInv'
<1> USE LockAssumption DEF InTimeInv, LockAssumption, TypeOK, OwnSteps, ReclaimSteps, files, clients
<1>1. /\ ~running[p] /\ running' = [running EXCEPT ![p] = TRUE]
      /\ incarnation' = [incarnation EXCEPT ![p] = @ + 1]
      /\ UNCHANGED <<lock, claim, record, aged, claimAged, claimant, pc, file, saw>>
  BY DEF Restart
<1>2. \A c \in Clients : running[PidOf[c]] => running'[PidOf[c]] /\ Run(c)' = Run(c)
  BY <1>1 DEF Run
<1>3. OwnerHasLock'
  BY <1>1, <1>2 DEF OwnerHasLock
<1>4. \A i \in Inodes : Stale(i) => Stale(i)'
  <2> SUFFICES ASSUME NEW i \in Inodes, record[i] # None, OwnerDead(record[i])
               PROVE  OwnerDead(record[i])'
    BY <1>1 DEF Stale
  <2>1. /\ record[i] \in Runs /\ record[i][1] \in Clients /\ record[i][2] \in Nat
        /\ record[i][2] <= incarnation[PidOf[record[i][1]]]
    BY DEF RecordsInPast, Runs
  <2> QED
    BY <1>1, <2>1 DEF OwnerDead
<1>5. ReclaimerHasClaim'
  BY <1>1, <1>2, <1>4 DEF ReclaimerHasClaim
<1> QED
  BY <1>3, <1>5

\* Time makes an inode old only where no live caller is about to write it or
\* to judge an empty record of it.
LEMMA AgeStep ==
    ASSUME TypeOK, InTimeInv, TypeOK', lapses' = {}, NEW i \in Inodes, Age(i)
    PROVE  InTimeInv'
<1> USE DEF InTimeInv, TypeOK, OwnSteps, ReclaimSteps, clients, processes
<1>1. /\ ~aged[i] /\ aged' = [aged EXCEPT ![i] = TRUE]
      /\ \A c \in Clients : ~(pc[c] = "write" /\ file[c] = i)
      /\ i = claim /\ record[i] # None =>
             \A c \in Clients : ~(pc[c] = "judge-claim" /\ saw[c] = None)
      /\ UNCHANGED <<lock, claim, record, claimAged, claimant, pc, file, saw,
                     running, incarnation>>
  BY DEF Age
<1>2. OwnerHasLock'
  BY <1>1 DEF OwnerHasLock, Run
<1>3. Stale(claim) /\ claim \in Inodes => Stale(claim)'
  BY <1>1 DEF Stale, OwnerDead
<1>4. ReclaimerHasClaim'
  BY <1>1, <1>3 DEF ReclaimerHasClaim
<1> QED
  BY <1>2, <1>4

\* A step in which no limit was too short, and none was before.
LEMMA InTimeNext ==
    ASSUME TypeOK, RecordsInPast, InTimeInv, [Next]_vars, TypeOK', lapses' = {}
    PROVE  InTimeInv'
<1>0. TypeOK'
  OBVIOUS
<1>1. ASSUME NEW c \in Clients, Step(c) \/ WriteFails(c) PROVE InTimeInv'
  <2>1. CASE Create(c)
    BY <2>1, <1>0, CreateStep
  <2>2. CASE Write(c)
    BY <2>2, <1>0, WriteStep
  <2>3. CASE WriteFails(c) \/ Chmod(c) \/ Finish(c) \/ Release(c)
    BY <2>3, <1>0, OwnerStep
  <2>4. CASE \/ Link(c) \/ Expire(c) \/ ObserveClaim(c) \/ JudgeClaim(c) \/ Compare(c)
             \/ DropClaim(c)
    BY <2>4, <1>0, ClaimStep
  <2>5. CASE UnlinkLock(c)
    BY <2>5, <1>0, UnlinkStep
  <2>6. CASE Exists(c) \/ Observe(c) \/ Judge(c)
    <3>1. /\ UNCHANGED <<files, processes>>
          /\ pc[c] \notin OwnSteps \cup ReclaimSteps
          /\ pc'[c] \notin OwnSteps \cup ReclaimSteps
      BY <2>6 DEF Exists, Observe, Judge, At, Goto, TypeOK, OwnSteps, ReclaimSteps
    <3>2. \A d \in Clients : d # c => pc'[d] = pc[d] /\ saw'[d] = saw[d] /\ file'[d] = file[d]
      BY <2>6 DEF Exists, Observe, Judge, At, Goto, ReadRecord, Forget, TypeOK
    <3> QED
      BY <3>1, <3>2, QuietStep
  <2> QED
    BY <1>1, <2>1, <2>2, <2>3, <2>4, <2>5, <2>6 DEF Step, Acquire, Reclaim
<1>2. ASSUME NEW p \in Pids, Die(p) \/ Restart(p) PROVE InTimeInv'
  BY <1>2, <1>0, DieStep, RestartStep
<1>3. ASSUME NEW i \in Inodes, Age(i) PROVE InTimeInv'
  BY <1>3, <1>0, AgeStep
<1>4. ASSUME AgeClaim PROVE InTimeInv'
  BY <1>4 DEF AgeClaim, clients, processes, InTimeInv, OwnerHasLock, ReclaimerHasClaim, Stale,
              OwnerDead, Run
<1>5. ASSUME UNCHANGED vars PROVE InTimeInv'
  <2>1. InTimeInv' <=> InTimeInv
    BY <1>5 DEF vars, files, clients, processes, InTimeInv, OwnerHasLock, ReclaimerHasClaim,
                Stale, OwnerDead, Run
  <2> QED
    BY <2>1
<1> QED
  BY <1>1, <1>2, <1>3, <1>4, <1>5 DEF Next

LEMMA LockNext == LockInv /\ [Next]_vars => LockInv'
<1> SUFFICES ASSUME LockInv, [Next]_vars PROVE LockInv'
  OBVIOUS
<1>1. TypeOK' /\ RecordsInPast'
  BY TypeNext, PastNext DEF LockInv
<1>2. lapses' = {} => lapses = {}
  BY LapsesStay
<1>3. lapses' = {} => InTimeInv'
  BY <1>1, <1>2, InTimeNext DEF LockInv, InTimeInv
<1> QED
  BY <1>1, <1>3 DEF LockInv, InTimeInv

\* The invariant of acquireFileLock, reclaimStaleLock and the release: until a
\* limit was too short for a live process, who owns the lock has its inode and
\* record under the lock's name, and who is past the second look at a claim has
\* one that nobody owns, whoever dies and whichever pid is used again.
THEOREM LockInvariant == Spec => []LockInv
BY LockNext, InitLock, PTL DEF Spec

\* The work of two callers of withFileLock overlaps only after a limit was too
\* short: an owner took over a second to write its record, a reclaimer over a
\* second between two reads, or a live reclaimer lost its claim.
THEOREM CallersExclude == Spec => []MutualExclusion
<1>1. LockInv => MutualExclusion
  BY DEF LockInv, OwnerHasLock, MutualExclusion, OwnSteps
<1> QED
  BY <1>1, LockInvariant, PTL

\* Until then no step of a reclaimer, of a releasing caller or of a newcomer
\* takes the lock from a caller that holds it; nothing but these lapses can make
\* the comment of reclaimStaleLock untrue.
THEOREM LiveLockIsKept == Spec => LiveLockKept
<1>1. LockInv /\ LockInv' /\ [Next]_vars => [lapses' = {} => KeepsLock]_vars
  <2> SUFFICES ASSUME LockInv, LockInv', [Next]_vars, lapses' = {}, NEW c \in Clients,
                      pc[c] \in {"chmod", "hold"}, pc'[c] \in {"chmod", "hold"}
               PROVE  lock' = lock
    BY DEF KeepsLock
  <2>1. lock = file[c] /\ lock' = file'[c]
    BY LapsesStay DEF LockInv, OwnerHasLock, OwnSteps
  <2>2. file'[c] = file[c]
    <3>1. ASSUME NEW d \in Clients, Step(d) \/ WriteFails(d) PROVE file'[c] = file[c]
      <4>1. d # c => file'[c] = file[c]
        BY <3>1 DEF Step, Acquire, Reclaim, Create, Exists, Write, WriteFails, Chmod, Observe,
                    Judge, Link, Expire, ObserveClaim, JudgeClaim, Compare, UnlinkLock,
                    DropClaim, Finish, Release, Return, LockInv, TypeOK, files, processes
      <4>2. d = c => file'[c] = file[c]
        BY <3>1 DEF Step, Acquire, Reclaim, Create, Exists, Write, WriteFails, Chmod, Observe,
                    Judge, Link, Expire, ObserveClaim, JudgeClaim, Compare, UnlinkLock,
                    DropClaim, Finish, Release, Return, At, Goto, LockInv, TypeOK, files,
                    processes
      <4> QED
        BY <4>1, <4>2
    <3>2. ASSUME NEW p \in Pids, Die(p) \/ Restart(p) PROVE file'[c] = file[c]
      BY <3>2 DEF Die, Restart, clients, LockInv, TypeOK
    <3> QED
      BY <3>1, <3>2 DEF Next, Age, AgeClaim, vars, clients
  <2> QED
    BY <2>1, <2>2
<1>2. LockInv /\ [Next]_vars => LockInv'
  BY LockNext
<1>3. Spec => []LockInv
  BY LockInvariant
<1> QED
  BY <1>1, <1>3, PTL DEF Spec, LiveLockKept

=============================================================================
