--------------------------- MODULE AuthorityLedger ---------------------------
(***************************************************************************)
(* What src/operation-intents.ts promises, without files or crashes:       *)
(* docs/workbench.md, "Recovery checks the actual manifest.  It aborts an  *)
(* uncommitted intent.  It resumes ... a committed intent."  Operations    *)
(* are opened one at a time against the current authority; an open         *)
(* operation either moves the authority, exactly once, and completes, or   *)
(* it leaves the authority alone and aborts.                               *)
(***************************************************************************)
CONSTANTS Ops, Authorities, Genesis, None

VARIABLES
    authority,   \* the corpus manifest
    transition,  \* op -> the [before, after] it was opened with, or None
    moved,       \* the ops that have moved the authority
    outcome      \* op -> "none", "open", "completed" or "aborted"

vars == <<authority, transition, moved, outcome>>

Transitions == [before : Authorities, after : Authorities]
Outcomes == {"none", "open", "completed", "aborted"}

Init ==
    /\ authority = Genesis
    /\ transition = [o \in Ops |-> None]
    /\ moved = {}
    /\ outcome = [o \in Ops |-> "none"]

\* An operation is recorded before it touches the authority.
Open(o, after) ==
    /\ outcome[o] = "none"
    /\ \A p \in Ops : outcome[p] # "open"
    /\ transition' = [transition EXCEPT ![o] = [before |-> authority, after |-> after]]
    /\ outcome' = [outcome EXCEPT ![o] = "open"]
    /\ UNCHANGED <<authority, moved>>

Move(o) ==
    /\ outcome[o] = "open" /\ o \notin moved
    /\ authority = transition[o].before
    /\ authority' = transition[o].after
    /\ moved' = moved \cup {o}
    /\ UNCHANGED <<transition, outcome>>

\* Completion needs the authority to be where the operation put it; one that
\* changes nothing may complete without having moved it.
CompleteOp(o) ==
    /\ outcome[o] = "open"
    /\ authority = transition[o].after
    /\ o \in moved \/ transition[o].before = transition[o].after
    /\ outcome' = [outcome EXCEPT ![o] = "completed"]
    /\ UNCHANGED <<authority, transition, moved>>

AbortOp(o) ==
    /\ outcome[o] = "open" /\ o \notin moved
    /\ outcome' = [outcome EXCEPT ![o] = "aborted"]
    /\ UNCHANGED <<authority, transition, moved>>

Next == \E o \in Ops :
    \/ \E after \in Authorities : Open(o, after)
    \/ Move(o) \/ CompleteOp(o) \/ AbortOp(o)

Spec == Init /\ [][Next]_vars

==============================================================================
