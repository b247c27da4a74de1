------------------------------ MODULE FileLock ------------------------------
(***************************************************************************)
(* The file lock of src/lock.ts, which serializes the writers of a data    *)
(* root (ingest.lock) and the finalizations of context deliveries          *)
(* (context-finalization.lock).                                            *)
(*                                                                         *)
(* A client is a caller of withFileLock.  The process that hosts it may    *)
(* host others, may die at any step and may be followed by another process *)
(* with its pid.  One system call is one action.  Time is two facts that   *)
(* become true: an inode was last written more than PARTIAL_LOCK_GRACE_MS  *)
(* ago, the claim was linked more than RECLAIM_CLAIM_STALE_MS ago.  A      *)
(* record names its client and the incarnation of the process, which stand *)
(* for runId, pid and processStartIdentity (Linux); a truncated record is  *)
(* an empty one.  A call that gives up at its deadline and one that sleeps *)
(* and tries again both come back to open().  An inode number is used      *)
(* again once nothing refers to the inode.                                 *)
(***************************************************************************)
EXTENDS Naturals

CONSTANTS
    Clients, Pids,
    PidOf,        \* client -> the pid of its process
    Inodes,
    None,         \* no such file, or no record in it
    Returning,    \* the pids whose next process calls withFileLock again (the
                  \* others go to unrelated programs)
    MaxRestarts   \* bound: processes that get the pid of a dead one

ASSUME LockAssumption ==
    /\ PidOf \in [Clients -> Pids]
    /\ None \notin Inodes \cup Clients
    /\ Returning \subseteq Pids
    /\ MaxRestarts \in Nat

VARIABLES
    lock,         \* the inode that <name>.lock names
    claim,        \* the inode that <name>.lock.reclaim names
    record,       \* inode -> the record in it
    aged,         \* inode -> its mtime is older than the grace
    claimAged,    \* the ctime of the claim is older than its limit
    pc,           \* client -> its next system call
    file,         \* client -> the inode that its open() created
    saw,          \* client -> the record it read
    claimant,     \* history: the client that linked the claim
    lapses,       \* history: the limits that were too short for a live process
    running,      \* pid -> whether a process has it
    incarnation   \* pid -> how many processes had it before

files == <<lock, claim, record, aged, claimAged, claimant, lapses>>
clients == <<pc, file, saw>>
processes == <<running, incarnation>>
vars == <<files, clients, processes>>

Run(c) == <<c, incarnation[PidOf[c]]>>
Runs == Clients \X Nat

ASSUME RunsAssumption == None \notin Runs

OwnSteps == {"write", "chmod", "hold", "release"}
ReclaimSteps == {"observe-claim", "judge-claim", "compare", "unlink-lock", "drop-claim"}
Steps == {"open", "observe", "judge", "link", "expire", "drop-old"} \cup OwnSteps \cup ReclaimSteps

\* A lock came of age before its live owner wrote it; a claimed record did,
\* between the read that found it empty and the look at its age; the claim of a
\* live reclaimer was removed by another.
Lapses == {"write", "read", "claim"}

Init ==
    /\ lock = None /\ claim = None /\ claimAged = FALSE /\ claimant = None /\ lapses = {}
    /\ record = [i \in Inodes |-> None] /\ aged = [i \in Inodes |-> FALSE]
    /\ pc = [c \in Clients |-> "open"]
    /\ file = [c \in Clients |-> None] /\ saw = [c \in Clients |-> None]
    /\ running = [p \in Pids |-> TRUE] /\ incarnation = [p \in Pids |-> 0]

------------------------------------------------------------------------------

Alive(c) == /\ running[PidOf[c]]
            /\ incarnation[PidOf[c]] = 0 \/ PidOf[c] \in Returning
At(c, step) == Alive(c) /\ pc[c] = step
Goto(c, step) == pc' = [pc EXCEPT ![c] = step]

\* The call returns or rejects; the record it read is forgotten in any case
\* once it is judged.
Return(c) == Goto(c, "open") /\ file' = [file EXCEPT ![c] = None]
Forget(c) == saw' = [saw EXCEPT ![c] = None]

\* Inodes that no name and no open handle refers to.
Free == Inodes \ ({lock, claim} \cup {file[c] : c \in {d \in Clients : pc[d] = "write"}})

\* The inode's ctime is renewed: its content, mode or link count changes.
Touch(i) == claimAged' = (claimAged /\ claim # i)

\* Mutant: a process that has the pid is taken for the owner.
MutantOwnerDead(r) == ~running[PidOf[r[1]]]

\* ownerIsStale: no process has the pid, or one that started later.
OwnerDead(r) == ~running[PidOf[r[1]]] \/ incarnation[PidOf[r[1]]] # r[2]

\* staleLock, after the record was read: a complete record is judged by its
\* owner, any other by the age of the file that is there by now.
Judged(c, i) == IF saw[c] # None THEN OwnerDead(saw[c]) ELSE i # None /\ aged[i]

ReadRecord(c, i) == saw' = [saw EXCEPT ![c] = IF i = None THEN None ELSE record[i]]

------------------------------------------------------------------------------
(* acquireFileLock.                                                          *)

\* open with O_EXCL creates the lock, empty for now.
Create(c) ==
    /\ At(c, "open") /\ lock = None
    /\ \E i \in Free :
           /\ lock' = i /\ file' = [file EXCEPT ![c] = i]
           /\ record' = [record EXCEPT ![i] = None]
           /\ aged' = [aged EXCEPT ![i] = FALSE]
    /\ Goto(c, "write")
    /\ UNCHANGED <<claim, claimAged, claimant, lapses, saw, processes>>

Exists(c) ==
    /\ At(c, "open") /\ lock # None
    /\ Goto(c, "observe")
    /\ UNCHANGED <<files, file, saw, processes>>

Write(c) ==
    /\ At(c, "write")
    /\ record' = [record EXCEPT ![file[c]] = Run(c)]
    /\ aged' = [aged EXCEPT ![file[c]] = FALSE]
    /\ Touch(file[c])
    /\ Goto(c, "chmod")
    /\ UNCHANGED <<lock, claim, claimant, lapses, file, saw, processes>>

\* The disk is full: the call rejects and leaves an empty lock.
WriteFails(c) ==
    /\ At(c, "write")
    /\ Return(c)
    /\ UNCHANGED <<files, saw, processes>>

\* chmod goes by the name; without it the call rejects.
Chmod(c) ==
    /\ At(c, "chmod")
    /\ Touch(lock)
    /\ IF lock = None THEN Return(c) ELSE Goto(c, "hold") /\ UNCHANGED file
    /\ UNCHANGED <<lock, claim, record, aged, claimant, lapses, saw, processes>>

Observe(c) ==
    /\ At(c, "observe")
    /\ ReadRecord(c, lock)
    /\ Goto(c, "judge")
    /\ UNCHANGED <<files, file, processes>>

Judge(c) ==
    /\ At(c, "judge")
    /\ Goto(c, IF Judged(c, lock) THEN "link" ELSE "open")
    /\ Forget(c)
    /\ UNCHANGED <<files, file, processes>>

------------------------------------------------------------------------------
(* reclaimStaleLock.                                                         *)

\* Mutant: an existing claim is shared.
MutantLink(c) ==
    /\ At(c, "link")
    /\ Goto(c, IF lock = None THEN "open" ELSE "observe-claim")
    /\ IF lock # None
       THEN claim' = lock /\ claimAged' = FALSE /\ claimant' = c
       ELSE UNCHANGED <<claim, claimAged, claimant>>
    /\ UNCHANGED <<lock, record, aged, lapses, file, saw, processes>>

\* link(lock, claim): only one claim can be there.
Link(c) ==
    /\ At(c, "link")
    /\ Goto(c, IF lock = None THEN "open"
               ELSE IF claim # None THEN "expire" ELSE "observe-claim")
    /\ IF lock # None /\ claim = None
       THEN claim' = lock /\ claimAged' = FALSE /\ claimant' = c
       ELSE UNCHANGED <<claim, claimAged, claimant>>
    /\ UNCHANGED <<lock, record, aged, lapses, file, saw, processes>>

\* Another's claim is removed only if it is old, and the caller starts over.
Expire(c) ==
    /\ At(c, "expire")
    /\ Goto(c, IF claim # None /\ claimAged THEN "drop-old" ELSE "open")
    /\ UNCHANGED <<files, file, saw, processes>>

ObserveClaim(c) ==
    /\ At(c, "observe-claim")
    /\ ReadRecord(c, claim)
    /\ Goto(c, "judge-claim")
    /\ UNCHANGED <<files, file, processes>>

\* Mutant: what was seen before the claim was made is not looked at again.
MutantJudgeClaim(c) ==
    /\ At(c, "judge-claim")
    /\ Goto(c, "compare")
    /\ Forget(c)
    /\ UNCHANGED <<files, file, processes>>

JudgeClaim(c) ==
    /\ At(c, "judge-claim")
    /\ Goto(c, IF Judged(c, claim) THEN "compare" ELSE "drop-claim")
    /\ Forget(c)
    /\ UNCHANGED <<files, file, processes>>

\* The two stats run side by side; as the name of the lock never returns to
\* an inode that it left, they answer as at the instant of the first.
Compare(c) ==
    /\ At(c, "compare")
    /\ Goto(c, IF lock # None /\ lock = claim THEN "unlink-lock" ELSE "drop-claim")
    /\ UNCHANGED <<files, file, saw, processes>>

\* unlink goes by the name, too.
UnlinkLock(c) ==
    /\ At(c, "unlink-lock")
    /\ lock' = None /\ Touch(lock)
    /\ Goto(c, "drop-claim")
    /\ UNCHANGED <<claim, record, aged, claimant, lapses, file, saw, processes>>

\* removeReclaimClaim, which goes by the name: whoever linked it by now.
DropClaim(c) ==
    /\ At(c, "drop-claim") \/ At(c, "drop-old")
    /\ claim' = None /\ claimAged' = FALSE /\ claimant' = None
    /\ lapses' = lapses \cup {l \in {"claim"} : claim # None /\ claimant # c
                                                    /\ pc[claimant] \in ReclaimSteps}
    /\ Goto(c, "open")
    /\ UNCHANGED <<lock, record, aged, file, saw, processes>>

------------------------------------------------------------------------------
(* The release of withFileLock.                                              *)

\* The work is done; the lock is read to see whose it is.
Finish(c) ==
    /\ At(c, "hold")
    /\ IF lock # None /\ record[lock] = Run(c)
       THEN Goto(c, "release") /\ UNCHANGED file ELSE Return(c)
    /\ UNCHANGED <<files, saw, processes>>

Release(c) ==
    /\ At(c, "release")
    /\ lock' = None /\ Touch(lock)
    /\ Return(c)
    /\ UNCHANGED <<claim, record, aged, claimant, lapses, saw, processes>>

------------------------------------------------------------------------------
(* The environment.                                                          *)

Die(p) ==
    /\ running[p]
    /\ running' = [running EXCEPT ![p] = FALSE]
    /\ pc' = [c \in Clients |-> IF PidOf[c] = p THEN "open" ELSE pc[c]]
    /\ file' = [c \in Clients |-> IF PidOf[c] = p THEN None ELSE file[c]]
    /\ saw' = [c \in Clients |-> IF PidOf[c] = p THEN None ELSE saw[c]]
    /\ UNCHANGED <<files, incarnation>>

\* The pid is given to another process.
Restart(p) ==
    /\ ~running[p] /\ incarnation[p] < MaxRestarts
    /\ running' = [running EXCEPT ![p] = TRUE]
    /\ incarnation' = [incarnation EXCEPT ![p] = @ + 1]
    /\ UNCHANGED <<files, clients>>

\* What is not written grows old, whether it is abandoned or its owner, or the
\* caller that judges it, stands still for longer than the grace.
Age(i) ==
    /\ i \in {lock, claim} /\ ~aged[i]
    /\ aged' = [aged EXCEPT ![i] = TRUE]
    /\ lapses' = lapses
           \cup {l \in {"write"} : \E c \in Clients : pc[c] = "write" /\ file[c] = i}
           \cup {l \in {"read"} : /\ i = claim /\ record[i] # None
                                  /\ \E c \in Clients : pc[c] = "judge-claim" /\ saw[c] = None}
    /\ UNCHANGED <<lock, claim, record, claimAged, claimant, clients, processes>>

\* So does a claim, that of a live reclaimer too.
AgeClaim ==
    /\ claim # None /\ ~claimAged
    /\ claimAged' = TRUE
    /\ UNCHANGED <<lock, claim, record, aged, claimant, lapses, clients, processes>>

------------------------------------------------------------------------------

Acquire(c) == Create(c) \/ Exists(c) \/ Write(c) \/ Chmod(c) \/ Observe(c) \/ Judge(c)
Reclaim(c) == Link(c) \/ Expire(c) \/ ObserveClaim(c) \/ JudgeClaim(c) \/ Compare(c)
                  \/ UnlinkLock(c) \/ DropClaim(c)
Step(c) == Acquire(c) \/ Reclaim(c) \/ Finish(c) \/ Release(c)

Next ==
    \/ \E c \in Clients : Step(c) \/ WriteFails(c)
    \/ \E p \in Pids : Die(p) \/ Restart(p)
    \/ \E i \in Inodes : Age(i)
    \/ AgeClaim

Spec == Init /\ [][Next]_vars

\* A live process is scheduled, its callers come back, and time passes.
FairSpec ==
    /\ Spec
    /\ \A c \in Clients : WF_vars(Step(c))
    /\ \A i \in Inodes : WF_vars(Age(i))
    /\ WF_vars(AgeClaim)

------------------------------------------------------------------------------
(* Properties.                                                               *)

TypeOK ==
    /\ lock \in Inodes \cup {None} /\ claim \in Inodes \cup {None}
    /\ record \in [Inodes -> Runs \cup {None}] /\ aged \in [Inodes -> BOOLEAN]
    /\ claimAged \in BOOLEAN /\ claimant \in Clients \cup {None} /\ lapses \subseteq Lapses
    /\ claim # None => claimant # None
    /\ \A c \in Clients : pc[c] = "write" => file[c] # None
    /\ pc \in [Clients -> Steps] /\ file \in [Clients -> Inodes \cup {None}]
    /\ saw \in [Clients -> Runs \cup {None}]
    /\ running \in [Pids -> BOOLEAN] /\ incarnation \in [Pids -> Nat]

\* The work of two callers overlaps only after a limit was too short for a live
\* process, in one of the three ways of Lapses: while owners write within the
\* second, reclaimers look within it and nobody removes the claim of a live one,
\* whoever dies and whatever pid is used again.
MutualExclusion ==
    lapses = {} => \A c, d \in Clients : pc[c] = "hold" /\ pc[d] = "hold" => c = d

\* Until then nobody else removes the lock of a live caller that has written its
\* record, however old the first observation is on which a reclaimer acts.  (The
\* comment in lock.ts, "a replacement lock is never removed", goes further: the
\* claim of a slow reclaimer may be removed, which then removes a replacement.)
KeepsLock ==
    \A c \in Clients : pc[c] \in {"chmod", "hold"} /\ pc'[c] \in {"chmod", "hold"} => lock' = lock
LiveLockKept == [][lapses' = {} => KeepsLock]_vars

\* The lock that a dead process left, complete or empty, is in the end removed
\* by one of the callers, even if reclaimers die while they hold their claim;
\* unless reclaimers remove the claims of one another, which they may do for ever.
Abandoned == lock # None /\ \A c \in Clients : pc[c] \in OwnSteps => file[c] # lock
AbandonedReclaimed ==
    Abandoned ~> ~Abandoned \/ (\A c \in Clients : ~Alive(c)) \/ "claim" \in lapses

(* The inductive invariant behind mutual exclusion.                          *)

\* The lock names the inode of the one caller that is to own it, and records
\* that caller once it has written it.
OwnerHasLock ==
    \A c \in Clients : pc[c] \in OwnSteps =>
        /\ running[PidOf[c]] /\ lock = file[c] /\ lock # None
        /\ record[lock] = IF pc[c] = "write" THEN None ELSE Run(c)
        /\ pc[c] = "write" => ~aged[lock]
        /\ \A d \in Clients : pc[d] \in OwnSteps => c = d

\* Nobody will ever write to the inode, or still owns it.
Stale(i) == /\ IF record[i] = None THEN aged[i] ELSE OwnerDead(record[i])
            /\ \A c \in Clients : ~(pc[c] = "write" /\ file[c] = i)

\* A claim belongs to one reclaimer, and past its second look at the record
\* the claimed inode is one that nobody owns.
ReclaimerHasClaim ==
    /\ \A c \in Clients : pc[c] \in ReclaimSteps =>
           claim # None /\ claimant = c /\ running[PidOf[c]]
    /\ \A c \in Clients :
           /\ pc[c] = "judge-claim" /\ saw[c] # None => record[claim] = saw[c]
           /\ pc[c] = "judge-claim" /\ saw[c] = None /\ record[claim] # None =>
                  ~aged[claim]
           /\ pc[c] \in {"compare", "unlink-lock"} => Stale(claim)
           /\ pc[c] = "unlink-lock" => lock = claim

\* A record names a run that has been.
RecordsInPast ==
    \A i \in Inodes : record[i] # None =>
        record[i][2] <= incarnation[PidOf[record[i][1]]]

LockInv == TypeOK /\ RecordsInPast /\ (lapses = {} => OwnerHasLock /\ ReclaimerHasClaim)

=============================================================================
