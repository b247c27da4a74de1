--------------------------- MODULE RecallRuntime ---------------------------
(***************************************************************************)
(* One bounded recall: the rounds of recall-runtime.ts with their parallel *)
(* branches, timers and cancellation, the ledger of recall-budget.ts, and  *)
(* what of the consolidated result decides how a recall goes on and why it *)
(* ends.                                                                   *)
(*                                                                         *)
(* Adapters are called in parallel and may answer at any time or never.    *)
(* The answers of a round are charged when all of its branches have        *)
(* answered or timed out, in the order of the adapters.                    *)
(*                                                                         *)
(* A result is its evidence, its contradictions and its open questions,    *)
(* each a set of numbers in the order of their names.  Adapters return no  *)
(* insights, procedures or confidence; the cost, which is charged as       *)
(* tokens are, the item scopes and the truncation of text are left out.    *)
(* Whether a contradiction is open is taken to go with its name.  Time is  *)
(* counted from the start of a round.                                      *)
(***************************************************************************)
EXTENDS Integers, FiniteSets, FiniteSetsExt

CONSTANTS
    None,
    Adapters,       \* how many are configured; they are 1 .. Adapters
    Queries, Items, Conflicts, Questions,
    Open,           \* the contradictions that are not resolved
    FirstQueries,   \* what a request may ask
    Ancestry, Visited, PreviousUnresolved, Prior, Minimum, MaxRounds,   \* of the request
    Budgets,        \* the budgets that a request may bring
    Replies,        \* what an adapter may answer
    Slack           \* bound: how much later than set a timer fires

Fields == {"maxDepth", "maxBranches", "maxQueries", "maxResults", "maxTokens", "maxLatencyMs"}
Budget == [Fields -> Nat]
Result == [evidence : SUBSET Items, contradictions : SUBSET Conflicts, unresolved : SUBSET Questions]
\* What an adapter says that it used: its results and its latency need not be
\* what it returned and how long it took.
Reply == [failure : {"none", "provider-error", "scope-closed", "cancelled"},
          evidence : SUBSET Items, contradictions : SUBSET Conflicts, unresolved : SUBSET Questions,
          results : Nat \cup {None}, tokens : Nat, latency : Nat \cup {None}, next : SUBSET Queries]
Reasons == {"scope-closed", "timeout", "unresolved-contradiction", "stable-result",
            "sufficient-evidence", "no-novelty", "budget-exhausted", "cancelled-parent"}
Statuses == {"succeeded", "failed", "timed-out", "cancelled"}
Idle == [at |-> "off", reply |-> None, took |-> 0]

ASSUME RecallAssumption ==
    /\ Adapters \in Nat /\ FirstQueries \subseteq Queries /\ Ancestry \subseteq Queries
    /\ Visited \subseteq Items /\ PreviousUnresolved \subseteq Questions /\ Open \subseteq Conflicts
    /\ Items \cup Conflicts \cup Questions \subseteq Nat
    /\ Prior \subseteq Result /\ Minimum \in Nat /\ MaxRounds \in Nat \ {0}
    /\ Budgets \subseteq Budget /\ Replies \subseteq Reply /\ IsFiniteSet(Items)
    /\ Slack \in Nat /\ None \notin Nat \cup Reply \cup Reasons

VARIABLES
    total,          \* the budget of the request
    consumed,       \* the ledger
    pc, query, depth, rounds,
    branches,       \* adapter -> its branch of the round
    settled,        \* up to which adapter the round is charged
    allowance,      \* the latency that the branches of the round were given
    elapsed,        \* since the round began
    observations,   \* what was taken into the result, per branch and query
    traces,         \* of all branches
    lineage,        \* the queries that were asked
    baseline,       \* what is not novel in this round
    timedOut, scopeClosed, cycle,
    reason,         \* of termination, None until then
    rang            \* history: the branches whose timer fired

vars == <<total, consumed, pc, query, depth, rounds, branches, settled, allowance, elapsed,
          observations, traces, lineage, baseline, timedOut, scopeClosed, cycle, reason, rang>>
round == <<query, depth, rounds, lineage, baseline, allowance>>
flags == <<timedOut, scopeClosed, cycle>>

Adapter == 1 .. Adapters
Nothing == [f \in Fields |-> 0]
NoRound == [a \in Adapter |-> Idle]

Init ==
    /\ total \in Budgets /\ consumed = Nothing
    /\ pc = "asking" /\ query \in FirstQueries /\ depth = total["maxDepth"] /\ rounds = 0
    /\ branches = NoRound /\ settled = 0 /\ allowance = 0 /\ elapsed = 0
    /\ observations = {} /\ traces = {} /\ lineage = Ancestry /\ baseline = Visited
    /\ timedOut = FALSE /\ scopeClosed = FALSE /\ cycle = FALSE
    /\ reason = None /\ rang = {}

----------------------------------------------------------------------------
(* The ledger.                                                             *)

Remaining(f) == total[f] - consumed[f]
Plus(usage) == [f \in Fields |-> consumed[f] + usage[f]]

Fits(usage) == \A f \in Fields : Plus(usage)[f] <= total[f]

\* All fields or none.
Consume(usage) == consumed' = IF Fits(usage) THEN Plus(usage) ELSE consumed

Latency(n) == [Nothing EXCEPT !["maxLatencyMs"] = n]
Reservation(n) ==
    [Nothing EXCEPT !["maxDepth"] = 1, !["maxBranches"] = n, !["maxQueries"] = n]

\* How many results an answer is charged: as many as it says.
Results(reply) == IF reply.results = None THEN Cardinality(reply.evidence) ELSE reply.results

\* An adapter's own latency takes the place of the measured one.
Usage(reply, took) ==
    IF reply.failure # "none" THEN Latency(took)
    ELSE [Nothing EXCEPT !["maxResults"] = Results(reply),
                         !["maxTokens"] = reply.tokens,
                         !["maxLatencyMs"] = IF reply.latency = None THEN took ELSE reply.latency]

----------------------------------------------------------------------------
(* The consolidated result.                                                *)

Delivered == {o \in observations : o.reply.failure = "none"}
Evidence == UNION {o.reply.evidence : o \in Delivered}
Contradictions == UNION {o.reply.contradictions : o \in Delivered}
Unresolved == UNION {o.reply.unresolved : o \in Delivered}

First(S, n) == {i \in S : Cardinality({j \in S : j < i}) < n}

\* Contradictions come after the evidence, and questions after both, under
\* the one limit on results.
Consolidated ==
    LET evidence == First(Evidence, total["maxResults"])
        room == total["maxResults"] - Cardinality(evidence)
        contradictions == First(Contradictions, room)
    IN  [evidence |-> evidence, contradictions |-> contradictions,
         unresolved |-> First(Unresolved, room - Cardinality(contradictions))]

Contradicted == Consolidated.contradictions \cap Open # {}
\* A mutant that compares the evidence with what the request had visited only.
MutantNovel ==
    \/ ~(Consolidated.evidence \subseteq Visited)
    \/ Consolidated.contradictions # {}
    \/ ~(Consolidated.unresolved \subseteq PreviousUnresolved)
\* Contradictions and questions are not compared with those of earlier
\* queries, and contradictions not with those of the request either.
Novel ==
    \/ ~(Consolidated.evidence \subseteq baseline)
    \/ Consolidated.contradictions # {}
    \/ ~(Consolidated.unresolved \subseteq PreviousUnresolved)
Satisfied == Cardinality(Consolidated.evidence) >= Minimum
Stable == Consolidated \in Prior

Failed(code) ==
    [failure |-> code, evidence |-> {}, contradictions |-> {}, unresolved |-> {},
     results |-> None, tokens |-> 0, latency |-> None, next |-> {}]

----------------------------------------------------------------------------
(* A round.                                                                *)

Running(a) == branches[a].at = "running"
Waiting == pc = "waiting" /\ \E a \in Adapter : Running(a)
CanLaunch(n) == n <= Remaining("maxBranches") /\ n <= Remaining("maxQueries")

FindClosed ==
    /\ pc = "asking" /\ rounds < MaxRounds
    /\ scopeClosed' = TRUE /\ pc' = "ending"
    /\ UNCHANGED <<total, consumed, round, branches, settled, elapsed, observations, traces,
                   timedOut, cycle, reason, rang>>

MayAsk == rounds < MaxRounds /\ depth > 0 /\ Remaining("maxDepth") > 0

StopAsking ==
    /\ pc = "asking" /\ ~MayAsk
    /\ pc' = "ending"
    /\ UNCHANGED <<total, consumed, round, branches, settled, elapsed, observations, traces,
                   flags, reason, rang>>

\* Only the first query can be in the lineage, when it is in the ancestry.
Repeat ==
    /\ pc = "asking" /\ MayAsk /\ query \in lineage
    /\ cycle' = TRUE /\ pc' = "judging"
    /\ UNCHANGED <<total, consumed, round, branches, settled, elapsed, observations, traces,
                   timedOut, scopeClosed, reason, rang>>

\* A mutant that launches every adapter.
MutantLaunches(n) == n = Adapters
\* As many adapters as there are branches and queries left for.
Launches(n) == CanLaunch(n) /\ (n = Adapters \/ ~CanLaunch(n + 1))

Ask(n) ==
    /\ pc = "asking" /\ MayAsk /\ query \notin lineage /\ Launches(n)
    /\ lineage' = lineage \cup {query}
    /\ baseline' = Visited \cup Evidence
    /\ allowance' = Remaining("maxLatencyMs")
    /\ consumed' = Plus(Reservation(n))
    /\ branches' = [a \in Adapter |-> IF a <= n THEN [Idle EXCEPT !.at = "running"] ELSE Idle]
    /\ traces' = traces \cup {[branch |-> a, query |-> query, status |-> "cancelled"] : a \in 1 .. n}
    /\ settled' = 0 /\ elapsed' = 0
    /\ pc' = IF n = 0 THEN "judging" ELSE "waiting"
    /\ UNCHANGED <<total, query, depth, rounds, observations, flags, reason, rang>>

Tick ==
    /\ Waiting /\ elapsed < allowance + Slack
    /\ elapsed' = elapsed + 1
    /\ UNCHANGED <<total, consumed, pc, round, branches, settled, observations, traces, flags,
                   reason, rang>>

\* A mutant in which an answer overtakes the timer that has fired.
MutantAnswer(a, r) ==
    /\ pc = "waiting" /\ settled = 0 /\ branches[a].at \in {"running", "expired"}
    /\ branches' = [branches EXCEPT ![a] = [at |-> "answered", reply |-> r, took |-> elapsed]]
    /\ UNCHANGED <<total, consumed, pc, round, settled, elapsed, observations, traces, flags,
                   reason, rang>>

Answer(a, r) ==
    /\ pc = "waiting" /\ Running(a)
    /\ branches' = [branches EXCEPT ![a] = [at |-> "answered", reply |-> r, took |-> elapsed]]
    /\ UNCHANGED <<total, consumed, pc, round, settled, elapsed, observations, traces, flags,
                   reason, rang>>

\* A mutant that takes a latency of zero for none set.
MutantExpire(a) ==
    /\ pc = "waiting" /\ Running(a) /\ elapsed >= allowance /\ allowance > 0
    /\ branches' = [branches EXCEPT ![a] = [at |-> "expired", reply |-> None, took |-> elapsed]]
    /\ rang' = rang \cup {<<a, query>>}
    /\ UNCHANGED <<total, consumed, pc, round, settled, elapsed, observations, traces, flags, reason>>

Expire(a) ==
    /\ pc = "waiting" /\ Running(a) /\ elapsed >= allowance
    /\ branches' = [branches EXCEPT ![a] = [at |-> "expired", reply |-> None, took |-> elapsed]]
    /\ rang' = rang \cup {<<a, query>>}
    /\ UNCHANGED <<total, consumed, pc, round, settled, elapsed, observations, traces, flags, reason>>

\* The caller gives up: before the first round, or while branches run.
Cancel ==
    /\ Waiting \/ (pc = "asking" /\ rounds = 0)
    /\ reason' = "cancelled-parent" /\ pc' = "done"
    /\ UNCHANGED <<total, consumed, round, branches, settled, elapsed, observations, traces, flags,
                   rang>>

----------------------------------------------------------------------------
(* The end of a round.                                                     *)

Launched == {a \in Adapter : branches[a].at # "off"}

\* The next branch to be charged, once none runs any more.
Due(a) == pc = "waiting" /\ ~Waiting /\ a = settled + 1

Status(reply) ==
    IF reply.failure = "none" THEN "succeeded"
    ELSE IF reply.failure = "cancelled" THEN "cancelled" ELSE "failed"

\* A mutant that adds the trace of the end to the one of the start.
MutantRecord(a, reply, status) ==
    /\ observations' = observations \cup {[branch |-> a, query |-> query, reply |-> reply]}
    /\ traces' = traces \cup {[branch |-> a, query |-> query, status |-> status]}
    /\ settled' = a
    /\ pc' = IF a + 1 \in Launched THEN pc ELSE "judging"
    /\ UNCHANGED <<total, query, depth, rounds, branches, lineage, baseline, allowance, elapsed,
                   scopeClosed, cycle, reason, rang>>

Record(a, reply, status) ==
    /\ observations' = observations \cup {[branch |-> a, query |-> query, reply |-> reply]}
    /\ traces' = (traces \ {[branch |-> a, query |-> query, status |-> "cancelled"]})
                    \cup {[branch |-> a, query |-> query, status |-> status]}
    /\ settled' = a
    /\ pc' = IF a + 1 \in Launched THEN pc ELSE "judging"
    /\ UNCHANGED <<total, query, depth, rounds, branches, lineage, baseline, allowance, elapsed,
                   scopeClosed, cycle, reason, rang>>

Least(m, n) == IF m <= n THEN m ELSE n

\* The latency of a branch that timed out is charged if it fits.
SettleExpired(a) ==
    /\ Due(a) /\ branches[a].at = "expired"
    /\ timedOut' = TRUE
    /\ Consume(Latency(Least(branches[a].took, allowance)))
    /\ Record(a, Failed("timeout"), "timed-out")

\* A mutant that keeps the answer whatever it cost.
MutantSettleAnswered(a) ==
    LET reply == branches[a].reply
        usage == Usage(reply, branches[a].took)
    IN
    /\ Due(a) /\ branches[a].at = "answered"
    /\ Consume(usage)
    /\ Record(a, reply, Status(reply))
    /\ UNCHANGED timedOut

\* An answer that was not paid for is dropped.
SettleAnswered(a) ==
    LET reply == branches[a].reply
        usage == Usage(reply, branches[a].took)
    IN
    /\ Due(a) /\ branches[a].at = "answered"
    /\ Consume(usage)
    /\ IF Fits(usage) THEN Record(a, reply, Status(reply))
       ELSE Record(a, Failed("budget-exhausted"), "failed")
    /\ UNCHANGED timedOut

OfRound == {o \in observations : o.query = query}
FollowUps == UNION {o.reply.next : o \in OfRound \cap Delivered} \ lineage
ClosedByBranch == \E o \in OfRound : o.reply.failure = "scope-closed"

\* A mutant that goes on after a timeout.
MutantEnough == Stable \/ Contradicted \/ (Satisfied /\ Novel)
Enough == timedOut \/ Stable \/ Contradicted \/ (Satisfied /\ Novel)

JudgeEnough ==
    /\ pc = "judging" /\ (ClosedByBranch \/ Enough \/ FollowUps = {})
    /\ scopeClosed' = ClosedByBranch /\ rounds' = rounds + 1 /\ pc' = "ending"
    /\ UNCHANGED <<total, consumed, query, depth, branches, settled, allowance, elapsed,
                   observations, traces, lineage, baseline, timedOut, cycle, reason, rang>>

\* Which follow-up comes first in the alphabet is left open.
JudgeFurther(q) ==
    /\ pc = "judging" /\ ~ClosedByBranch /\ ~Enough /\ q \in FollowUps
    /\ query' = q /\ depth' = depth - 1 /\ rounds' = rounds + 1 /\ pc' = "asking"
    /\ UNCHANGED <<total, consumed, branches, settled, allowance, elapsed, observations, traces,
                   lineage, baseline, flags, reason, rang>>

Exhausted == \E f \in {"maxDepth", "maxBranches", "maxQueries"} : Remaining(f) = 0

\* That all branches failed is one way not to be novel.
Reason ==
    IF scopeClosed THEN "scope-closed"
    ELSE IF timedOut THEN "timeout"
    ELSE IF Contradicted THEN "unresolved-contradiction"
    ELSE IF Stable THEN "stable-result"
    ELSE IF Satisfied /\ Novel THEN "sufficient-evidence"
    ELSE IF cycle \/ (~Novel /\ observations # {}) THEN "no-novelty"
    ELSE IF Exhausted THEN "budget-exhausted" ELSE "no-novelty"

End ==
    /\ pc = "ending"
    /\ reason' = Reason /\ pc' = "done"
    /\ UNCHANGED <<total, consumed, round, branches, settled, elapsed, observations, traces, flags,
                   rang>>

----------------------------------------------------------------------------

Timers == \E a \in Adapter : Expire(a)
Program ==
    \/ FindClosed \/ StopAsking \/ Repeat \/ (\E n \in 0 .. Adapters : Ask(n))
    \/ (\E a \in Adapter : SettleExpired(a) \/ SettleAnswered(a))
    \/ JudgeEnough \/ (\E q \in Queries : JudgeFurther(q)) \/ End

Next ==
    \/ Program \/ Timers \/ Tick \/ Cancel
    \/ \E a \in Adapter, r \in Replies : Answer(a, r)

Spec == Init /\ [][Next]_vars

\* The program runs, time passes and timers fire; adapters need not answer.
FairSpec == Spec /\ WF_vars(Program \/ Timers \/ Tick)

----------------------------------------------------------------------------
(* Properties.                                                             *)

Steps == {"asking", "waiting", "judging", "ending", "done"}
Settlement ==
    [failure : {"none", "provider-error", "scope-closed", "cancelled", "timeout", "budget-exhausted"},
     evidence : SUBSET Items, contradictions : SUBSET Conflicts, unresolved : SUBSET Questions,
     results : Nat \cup {None}, tokens : Nat, latency : Nat \cup {None}, next : SUBSET Queries]
Observation == [branch : Adapter, query : Queries, reply : Settlement]
Trace == [branch : Adapter, query : Queries, status : Statuses]
Branch ==
    [at : {"off", "running", "expired"}, reply : {None}, took : Nat]
        \cup [at : {"answered"}, reply : Reply, took : Nat]

\* Type: a round is never given a negative latency, and a branch holds an
\* answer exactly when it has answered.
TypeOK ==
    /\ total \in Budget /\ consumed \in Budget
    /\ pc \in Steps /\ query \in Queries /\ depth \in Nat /\ rounds \in 0 .. MaxRounds
    /\ branches \in [Adapter -> Branch]
    /\ settled \in 0 .. Adapters /\ allowance \in Nat /\ elapsed \in Nat
    /\ \A o \in observations : o \in Observation
    /\ \A t \in traces : t \in Trace
    /\ lineage \subseteq Queries /\ baseline \subseteq Items
    /\ timedOut \in BOOLEAN /\ scopeClosed \in BOOLEAN /\ cycle \in BOOLEAN
    /\ reason \in Reasons \cup {None} /\ rang \subseteq Adapter \X Queries

\* However many branches ran in parallel, each with the whole of what was
\* left, a recall never uses more of anything than its request allowed.
WithinBudget == \A f \in Fields : consumed[f] <= total[f]

Sum(F(_)) == FoldSet(LAMBDA o, s : s + F(o.reply), 0, Delivered)

\* The ledger and the result agree: exactly the answers that were kept are
\* charged, each for what it reports or, when it reports no results, for what
\* it holds, and every branch and every query that was started is in the trace.
PaidFor ==
    /\ consumed["maxResults"] = Sum(Results)
    /\ consumed["maxTokens"] = Sum(LAMBDA r : r.tokens)
    /\ consumed["maxBranches"] = Cardinality(traces) /\ consumed["maxQueries"] = Cardinality(traces)
    /\ consumed["maxDepth"] = Cardinality(lineage \ Ancestry)

\* An adapter that answers after its timer fired changes nothing: the branch
\* is a timeout exactly when its timer fired.
LateIgnored ==
    \A o \in observations : o.reply.failure = "timeout" <=> <<o.branch, o.query>> \in rang

\* One trace per branch and query, which tells what became of it.  A branch
\* that was not observed is traced as cancelled.
TracesTrue ==
    /\ \A s, t \in traces : s.branch = t.branch /\ s.query = t.query => s = t
    /\ \A o \in observations : \E t \in traces :
          /\ t.branch = o.branch /\ t.query = o.query
          /\ t.status = "succeeded" <=> o.reply.failure = "none"
          /\ t.status = "timed-out" <=> o.reply.failure = "timeout"
    /\ \A t \in traces :
          (\A o \in observations : o.branch # t.branch \/ o.query # t.query) => t.status = "cancelled"

\* Evidence is sufficient only when the last query has added to the result an
\* item that neither the request nor an earlier query of this recall knew, or
\* when the result holds a contradiction, all of them resolved, or a question
\* that the request did not know, from whichever query.
SufficientIsNovel ==
    reason = "sufficient-evidence" =>
        \/ \E i \in Consolidated.evidence \ Visited :
              \A p \in Delivered : i \in p.reply.evidence => p.query = query
        \/ Consolidated.contradictions \ Open # {} /\ Consolidated.contradictions \cap Open = {}
        \/ ~(Consolidated.unresolved \subseteq PreviousUnresolved)

\* What is left for a round that has begun.
RoundsLeft == pc \in {"waiting", "judging"} => rounds < MaxRounds /\ depth > 0

\* Nothing is known of a query that was not asked.
OnlyAsked ==
    /\ pc = "waiting" => query \in lineage
    /\ \A o \in observations : o.query \in lineage
    /\ \A t \in traces : t.query \in lineage
    /\ \A a \in Adapter, q \in Queries : <<a, q>> \in rang => q \in lineage

\* The timers of a round that fired are those of its expired branches.
TimersTrue ==
    pc = "waiting" => \A a \in Adapter :
        /\ branches[a].at = "expired" => <<a, query>> \in rang
        /\ branches[a].at \in {"running", "answered"} => <<a, query>> \notin rang

\* Nothing is charged while a branch runs, then one branch after the other.
InOrder ==
    pc = "waiting" =>
        /\ \A o \in observations : o.query = query => o.branch <= settled
        /\ \A a \in Adapter : Running(a) => settled = 0

Final == (timedOut => pc # "asking") /\ (reason # None => pc = "done")

\* What is not novel includes all that other queries delivered.
BaselineCurrent ==
    /\ Visited \subseteq baseline
    /\ \A o \in Delivered : o.query = query \/ o.reply.evidence \subseteq baseline

NoveltyJudged ==
    /\ pc = "asking" => ~(Satisfied /\ Novel)
    /\ pc = "waiting" => BaselineCurrent
    /\ pc \in {"judging", "ending"} /\ Satisfied /\ Novel => BaselineCurrent

\* The inductive invariant.
RecallInv ==
    /\ TypeOK /\ WithinBudget
    /\ RoundsLeft /\ OnlyAsked /\ TimersTrue /\ InOrder /\ Final
    /\ LateIgnored /\ TracesTrue /\ NoveltyJudged /\ SufficientIsNovel

\* After a timeout, or an end of the recall, no further query is asked.
StopsAfterTimeout == [][timedOut \/ reason # None => lineage' = lineage]_vars

\* A recall ends, whatever the adapters do.
Terminates == <>(pc = "done")

=============================================================================
