------------------------- MODULE AnnotationRegister -------------------------
(***************************************************************************)
(* What the annotations of workflow patterns promise to their operators: a *)
(* history of reviews per pattern that is only ever appended to, and a     *)
(* review that was acknowledged is in it for good.                         *)
(***************************************************************************)
EXTENDS Naturals, SequencesExt

CONSTANTS
    Handles,        \* of patterns
    Review,         \* what an operator may say
    MaxHistory      \* a history beyond this length blocks all of them

VARIABLES
    history,        \* handle -> its reviews, the oldest first
    confirmed       \* the acknowledged pairs <<handle, history up to the review>>

Init == history = [h \in Handles |-> <<>>] /\ confirmed = {}

Add(h, r) ==
    /\ \A g \in Handles : Len(history[g]) <= MaxHistory
    /\ history' = [history EXCEPT ![h] = Append(@, r)]
    /\ UNCHANGED confirmed

Confirm ==
    /\ confirmed \subseteq confirmed'
    /\ \A x \in confirmed' : x[2] # <<>> /\ IsPrefix(x[2], history[x[1]])
    /\ UNCHANGED history

Next == Confirm \/ \E h \in Handles, r \in Review : Add(h, r)

Spec == Init /\ [][Next]_<<history, confirmed>>

=============================================================================
