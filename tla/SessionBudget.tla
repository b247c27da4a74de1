--------------------------- MODULE SessionBudget ---------------------------
(***************************************************************************)
(* What a context session promises to the agent that it was opened for:    *)
(* every charge is taken from its budget once, and an exposure that shows  *)
(* in the event projection was charged first and stays.                    *)
(***************************************************************************)
EXTENDS Naturals

CONSTANTS
    None, Sessions, Total,
    Charge,         \* what a session may be charged for
    Price(_),       \* charge -> tokens
    Clash(_, _)     \* the two may not both be charged

VARIABLES
    book,           \* session -> [remaining, charged], or None
    shown           \* the pairs <<session, charge>> that the projection shows

Unspent == [remaining |-> Total, charged |-> {}]

Init == book = [s \in Sessions |-> None] /\ shown = {}

\* A session that was charged nothing may have to make room.
Open(s) ==
    /\ book[s] = None
    /\ \/ book' = [book EXCEPT ![s] = Unspent]
       \/ \E old \in Sessions :
             /\ book[old] = Unspent
             /\ book' = [book EXCEPT ![old] = None, ![s] = Unspent]
    /\ UNCHANGED shown

Debit(s, c) ==
    /\ book[s] # None
    /\ \A d \in book[s].charged : ~Clash(c, d)
    /\ Price(c) <= book[s].remaining
    /\ book' = [book EXCEPT ![s] = [remaining |-> @.remaining - Price(c),
                                    charged |-> @.charged \cup {c}]]
    /\ UNCHANGED shown

Show ==
    /\ shown \subseteq shown'
    /\ \A x \in shown' : book[x[1]] # None /\ x[2] \in book[x[1]].charged
    /\ UNCHANGED book

Next ==
    \/ \E s \in Sessions : Open(s) \/ (\E c \in Charge : Debit(s, c))
    \/ Show

Spec == Init /\ [][Next]_<<book, shown>>

=============================================================================
