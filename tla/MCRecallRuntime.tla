-------------------------- MODULE MCRecallRuntime --------------------------
(***************************************************************************)
(* A small recall for TLC: two adapters and four queries, the last of which *)
(* the caller has asked itself.                                            *)
(***************************************************************************)
EXTENDS RecallRuntime

CONSTANTS q1, q2, q3, q4

MCQueries == {q1, q2, q3, q4}
MCFirstQueries == {q1, q4}
MCItems == 1 .. 3
MCVisited == {1, 2}
MCAncestry == {q4}
\* One contradiction is open, the other one resolved.
MCConflicts == {1, 2}
MCOpen == {1}
\* The request knows of one question.
MCQuestions == {1, 2}
MCPreviousUnresolved == {1}
\* A result that the caller had before.
MCPrior == {[evidence |-> {1}, contradictions |-> {}, unresolved |-> {}]}

Answered(evidence, contradictions, unresolved, results, tokens, latency, next) ==
    [failure |-> "none", evidence |-> evidence, contradictions |-> contradictions,
     unresolved |-> unresolved, results |-> results, tokens |-> tokens, latency |-> latency,
     next |-> next]
MCReplies ==
    {Answered({1}, {}, {}, None, 1, None, {q2, q3}),
     Answered({2}, {}, {2}, None, 1, 0, {q2, q3, q4}),
     Answered({3}, {}, {}, 2, 0, None, {q1, q2}),
     Answered({1, 3}, {1}, {}, 1, 0, 2, {q1, q2}),
     Answered({1, 2, 3}, {2}, {1}, 0, 1, None, {}),
     Failed("provider-error"), Failed("scope-closed"), Failed("cancelled")}

Allow(levels, launches, results, tokens, latency) ==
    [maxDepth |-> levels, maxBranches |-> launches, maxQueries |-> launches,
     maxResults |-> results, maxTokens |-> tokens, maxLatencyMs |-> latency]
MCBudgets == {Allow(2, 3, 2, 3, 2), Allow(3, 5, 4, 3, 3), Allow(1, 0, 2, 3, 1), Allow(0, 2, 2, 2, 1)}

=============================================================================
