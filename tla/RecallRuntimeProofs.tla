------------------------ MODULE RecallRuntimeProofs ------------------------
(***************************************************************************)
(* Proofs about RecallRuntime, for every number of adapters, whatever they *)
(* answer and whenever: a recall stays within its budget, an answer that   *)
(* comes after the deadline changes nothing, every branch is traced as     *)
(* what became of it, evidence is sufficient only when the last query      *)
(* found some of it or a question or a contradiction is there, a timeout   *)
(* ends the asking, and what the ledger says was used is the sum of what   *)
(* the answers of the result report.                                       *)
(***************************************************************************)
EXTENDS RecallRuntime, FiniteSums

-----------------------------------------------------------------------------
(* The steps.                                                              *)

\* A settlement is charged what it reports, and no branch or query.
ChargedFor(reply) ==
    /\ consumed'["maxResults"] = consumed["maxResults"]
           + (IF reply.failure = "none" THEN Results(reply) ELSE 0)
    /\ consumed'["maxTokens"] = consumed["maxTokens"]
           + (IF reply.failure = "none" THEN reply.tokens ELSE 0)
    /\ \A f \in {"maxDepth", "maxBranches", "maxQueries"} : consumed'[f] = consumed[f]

\* A branch is charged and recorded, whether it timed out, was paid for or
\* was dropped.
Settles(a, reply, status) ==
    /\ Due(a) /\ branches[a].at \in {"expired", "answered"}
    /\ reply.failure = "timeout" <=> branches[a].at = "expired"
    /\ status = "succeeded" <=> reply.failure = "none"
    /\ status = "timed-out" <=> reply.failure = "timeout"
    /\ consumed' \in Budget /\ \A f \in Fields : consumed'[f] <= total[f]
    /\ ChargedFor(reply)
    /\ timedOut' \in BOOLEAN
    /\ Record(a, reply, status)

Settling ==
    \E a \in Adapter, reply \in Settlement, status \in Statuses : Settles(a, reply, status)
Asking == \E n \in 0 .. Adapters : Ask(n)
Answering == \E a \in Adapter, r \in Replies : Answer(a, r)
Continuing == \E q \in Queries : JudgeFurther(q)

LEMMA ResultsType ==
    ASSUME RecallAssumption, NEW reply \in Settlement
    PROVE  Results(reply) \in Nat
<1>1. Cardinality(reply.evidence) \in Nat
  BY FS_Subset, FS_CardinalityType DEF RecallAssumption, Settlement
<1>2. reply.results # None => reply.results \in Nat
  BY DEF Settlement
<1> QED
  BY <1>1, <1>2 DEF Results

LEMMA UsageType ==
    ASSUME RecallAssumption, NEW reply \in Settlement, NEW took \in Nat
    PROVE  Usage(reply, took) \in Budget
<1>1. Results(reply) \in Nat
  BY ResultsType
<1>2. Nothing \in Budget  BY DEF Nothing, Budget
<1>3. ASSUME NEW u \in Budget, NEW f \in Fields, NEW n \in Nat
      PROVE  [u EXCEPT ![f] = n] \in Budget
  BY <1>3 DEF Budget
<1>4. Latency(took) \in Budget  BY <1>2, <1>3 DEF Latency, Fields
<1>5. reply.tokens \in Nat /\ (reply.latency # None => reply.latency \in Nat)  BY DEF Settlement
<1> DEFINE charged == IF reply.latency = None THEN took ELSE reply.latency
           one == [Nothing EXCEPT !["maxResults"] = Results(reply)]
           two == [one EXCEPT !["maxTokens"] = reply.tokens]
           three == [two EXCEPT !["maxLatencyMs"] = charged]
<1>6. charged \in Nat  BY <1>5
<1>7. one \in Budget  BY <1>1, <1>2, <1>3 DEF Fields
<1> HIDE DEF charged, one
<1>8. two \in Budget  BY <1>5, <1>7, <1>3 DEF Fields
<1> HIDE DEF two
<1>9. three \in Budget  BY <1>6, <1>8, <1>3 DEF Fields
<1>10. Usage(reply, took) = IF reply.failure # "none" THEN Latency(took) ELSE three
  BY DEF Usage, one, two, charged
<1> QED  BY <1>4, <1>9, <1>10

\* All or none: what is consumed stays a budget within the total.
LEMMA ConsumeKeeps ==
    ASSUME RecallAssumption, TypeOK, WithinBudget, NEW usage \in Budget, Consume(usage)
    PROVE  consumed' \in Budget /\ \A f \in Fields : consumed'[f] <= total[f]
<1>1. Plus(usage) \in Budget
  BY DEF Plus, TypeOK, Budget
<1>2. CASE Fits(usage)
  <2>1. consumed' = Plus(usage)  BY <1>2 DEF Consume
  <2> QED  BY <1>1, <1>2, <2>1 DEF Fits
<1>3. CASE ~Fits(usage)
  <2>1. consumed' = consumed  BY <1>3 DEF Consume
  <2> QED  BY <2>1 DEF WithinBudget, TypeOK
<1> QED  BY <1>2, <1>3

\* What the usage of an answer holds besides its latency.
LEMMA UsageHolds ==
    ASSUME RecallAssumption, NEW reply \in Settlement, NEW took \in Nat
    PROVE  /\ \A f \in Fields \ {"maxLatencyMs"} : Latency(took)[f] = 0
           /\ reply.failure # "none" => Usage(reply, took) = Latency(took)
           /\ reply.failure = "none" =>
                 /\ Usage(reply, took)["maxResults"] = Results(reply)
                 /\ Usage(reply, took)["maxTokens"] = reply.tokens
                 /\ \A f \in {"maxDepth", "maxBranches", "maxQueries"} : Usage(reply, took)[f] = 0
<1>1. \A f \in Fields \ {"maxLatencyMs"} : Latency(took)[f] = 0
  BY DEF Latency, Nothing, Fields
<1>2. CASE reply.failure # "none"
  BY <1>1, <1>2 DEF Usage
<1>3. CASE reply.failure = "none"
  <2> DEFINE charged == IF reply.latency = None THEN took ELSE reply.latency
  <2>1. Usage(reply, took) = [f \in Fields |->
            IF f = "maxLatencyMs" THEN charged
            ELSE IF f = "maxTokens" THEN reply.tokens
            ELSE IF f = "maxResults" THEN Results(reply) ELSE 0]
    BY <1>3 DEF Usage, Nothing, Fields
  <2> HIDE DEF charged
  <2> QED  BY <1>1, <1>3, <2>1 DEF Fields
<1> QED  BY <1>2, <1>3

\* Charging a usage that is delivered when it fits.
LEMMA ConsumeCharges ==
    ASSUME RecallAssumption, TypeOK, NEW usage \in Budget, Consume(usage)
    PROVE  /\ Fits(usage) => \A f \in Fields : consumed'[f] = consumed[f] + usage[f]
           /\ ~Fits(usage) => consumed' = consumed
           /\ \A f \in Fields : usage[f] = 0 => consumed'[f] = consumed[f]
<1>1. \A f \in Fields : consumed[f] \in Nat  BY DEF TypeOK, Budget
<1>2. CASE Fits(usage)  BY <1>1, <1>2 DEF Consume, Plus
<1>3. CASE ~Fits(usage)  BY <1>3 DEF Consume
<1> QED  BY <1>2, <1>3

LEMMA ReplyIsSettlement ==
    /\ \A r \in Reply : r \in Settlement /\ r.failure \notin {"timeout", "budget-exhausted"}
    /\ \A code \in {"timeout", "budget-exhausted"} :
          Failed(code) \in Settlement /\ Failed(code).failure = code
BY DEF Reply, Settlement, Failed

LEMMA SettlesExpired ==
    ASSUME RecallAssumption, TypeOK, WithinBudget, NEW a \in Adapter, SettleExpired(a)
    PROVE  Settles(a, Failed("timeout"), "timed-out")
<1>1. branches[a] \in Branch /\ branches[a].took \in Nat  BY DEF TypeOK, Branch
<1>2. Least(branches[a].took, allowance) \in Nat  BY <1>1 DEF Least, TypeOK
<1>3. Latency(Least(branches[a].took, allowance)) \in Budget
  BY <1>2 DEF Latency, Nothing, Budget, Fields
<1>4. consumed' \in Budget /\ \A f \in Fields : consumed'[f] <= total[f]
  BY <1>3, ConsumeKeeps DEF SettleExpired
<1>5. \A f \in Fields \ {"maxLatencyMs"} : consumed'[f] = consumed[f]
  <2>1. \A f \in Fields \ {"maxLatencyMs"} :
            Latency(Least(branches[a].took, allowance))[f] = 0
    BY <1>2 DEF Latency, Nothing, Fields
  <2> QED  BY <1>3, <2>1, ConsumeCharges DEF SettleExpired
<1>6. Failed("timeout").failure # "none"  BY DEF Failed
<1>7. ChargedFor(Failed("timeout"))
  <2>1. \A f \in Fields : consumed[f] \in Nat  BY DEF TypeOK, Budget
  <2> QED  BY <1>5, <1>6, <2>1 DEF ChargedFor, Fields
<1> QED  BY <1>4, <1>7, ReplyIsSettlement DEF SettleExpired, Settles

LEMMA SettlesAnswered ==
    ASSUME RecallAssumption, TypeOK, WithinBudget, NEW a \in Adapter, SettleAnswered(a)
    PROVE  \E reply \in Settlement, status \in Statuses : Settles(a, reply, status)
<1> DEFINE reply == branches[a].reply
           usage == Usage(reply, branches[a].took)
<1>1. branches[a].at = "answered" /\ Due(a)  BY DEF SettleAnswered
<1>2. reply \in Reply /\ branches[a].took \in Nat  BY <1>1 DEF TypeOK, Branch
<1>3. reply \in Settlement /\ reply.failure \notin {"timeout", "budget-exhausted"}
  BY <1>2, ReplyIsSettlement
<1>4. usage \in Budget  BY <1>2, <1>3, UsageType
<1>5. Consume(usage)  BY DEF SettleAnswered
<1> HIDE DEF usage
<1>6. consumed' \in Budget /\ \A f \in Fields : consumed'[f] <= total[f]
  BY <1>4, <1>5, ConsumeKeeps
<1>7. timedOut' \in BOOLEAN  BY DEF SettleAnswered, TypeOK
<1>8. \A f \in Fields : consumed[f] \in Nat  BY DEF TypeOK, Budget
<1>9. Fits(usage) => ChargedFor(reply)
  <2>1. CASE reply.failure = "none" /\ Fits(usage)
    <3>1. /\ usage["maxResults"] = Results(reply) /\ usage["maxTokens"] = reply.tokens
          /\ \A f \in {"maxDepth", "maxBranches", "maxQueries"} : usage[f] = 0
      BY <1>2, <1>3, <2>1, UsageHolds DEF usage
    <3>2. \A f \in Fields : consumed'[f] = consumed[f] + usage[f]
      BY <1>4, <1>5, <2>1, ConsumeCharges
    <3> HIDE DEF reply
    <3> QED  BY <1>8, <2>1, <3>1, <3>2 DEF ChargedFor, Fields
  <2>2. CASE reply.failure # "none"
    <3>1. \A f \in Fields \ {"maxLatencyMs"} : usage[f] = 0
      BY <1>2, <1>3, <2>2, UsageHolds DEF usage
    <3>2. \A f \in Fields \ {"maxLatencyMs"} : consumed'[f] = consumed[f]
      BY <1>4, <1>5, <3>1, ConsumeCharges
    <3> HIDE DEF reply
    <3> QED  BY <1>8, <2>2, <3>2 DEF ChargedFor, Fields
  <2> QED  BY <2>1, <2>2
<1>10. ~Fits(usage) => ChargedFor(Failed("budget-exhausted"))
  <2>1. Failed("budget-exhausted").failure # "none"  BY DEF Failed
  <2>2. ~Fits(usage) => consumed' = consumed  BY <1>4, <1>5, ConsumeCharges
  <2> QED  BY <1>8, <2>1, <2>2 DEF ChargedFor, Fields
<1> HIDE DEF reply
<1>11. CASE Fits(usage)
  <2>1. Record(a, reply, Status(reply))  BY <1>11 DEF SettleAnswered, reply, usage
  <2>2. /\ Status(reply) \in Statuses
        /\ Status(reply) = "succeeded" <=> reply.failure = "none"
        /\ Status(reply) # "timed-out"
    BY DEF Status, Statuses
  <2>3. Settles(a, reply, Status(reply))  BY <1>1, <1>3, <1>6, <1>7, <1>9, <1>11, <2>1, <2>2 DEF Settles
  <2> QED  BY <1>3, <2>2, <2>3
<1>12. CASE ~Fits(usage)
  <2>1. Record(a, Failed("budget-exhausted"), "failed")
    BY <1>12 DEF SettleAnswered, reply, usage
  <2>2. Settles(a, Failed("budget-exhausted"), "failed")
    BY <1>1, <1>6, <1>7, <1>10, <1>12, <2>1, ReplyIsSettlement DEF Settles
  <2> QED  BY <2>2, ReplyIsSettlement DEF Statuses
<1> QED  BY <1>11, <1>12

\* What the checks before a round, its timers' clock, a cancellation and the
\* end leave alone.
Quiet ==
    /\ UNCHANGED <<total, consumed, round, branches, settled, observations, traces, rang>>
    /\ \/ pc' \in {pc, "ending", "done"}
       \/ pc = "asking" /\ MayAsk /\ pc' = "judging"

QuietStep == FindClosed \/ StopAsking \/ Repeat \/ Tick \/ Cancel \/ End \/ UNCHANGED vars

LEMMA QuietStepIsQuiet == QuietStep => Quiet
BY DEF QuietStep, Quiet, FindClosed, StopAsking, Repeat, Tick, Cancel, End, vars, round

LEMMA StepCases ==
    ASSUME RecallAssumption, TypeOK, WithinBudget, [Next]_vars
    PROVE  \/ QuietStep \/ Asking \/ Answering \/ (\E a \in Adapter : Expire(a))
           \/ Settling \/ JudgeEnough \/ Continuing
<1>1. ASSUME NEW a \in Adapter, SettleExpired(a) \/ SettleAnswered(a)
      PROVE  Settling
  <2>1. CASE SettleExpired(a)
    BY <2>1, SettlesExpired, ReplyIsSettlement DEF Settling, Statuses
  <2>2. CASE SettleAnswered(a)  BY <2>2, SettlesAnswered DEF Settling
  <2> QED  BY <1>1, <2>1, <2>2
<1> QED  BY <1>1 DEF Next, Program, Timers, QuietStep, Asking, Answering, Continuing

-----------------------------------------------------------------------------
(* What each step does.                                                    *)

LEMMA AskEffect ==
    ASSUME RecallAssumption, RecallInv, NEW n \in 0 .. Adapters, Ask(n)
    PROVE  /\ consumed' \in Budget /\ \A f \in Fields : consumed'[f] <= total[f]
           /\ allowance' \in Nat /\ branches' \in [Adapter -> Branch]
           /\ \A a \in Adapter : branches'[a].at \in {"running", "off"}
           /\ \A t \in traces' \ traces :
                 t \in Trace /\ t.query = query /\ t.status = "cancelled"
           /\ \A s, t \in traces' \ traces : s.branch = t.branch => s = t
           /\ traces \subseteq traces'
<1>1. n \in Nat /\ n <= Remaining("maxBranches") /\ n <= Remaining("maxQueries")
      /\ Remaining("maxDepth") > 0
  BY DEF RecallAssumption, Ask, Launches, CanLaunch, MayAsk
<1>2. \A f \in Fields : total[f] \in Nat /\ consumed[f] \in Nat /\ consumed[f] <= total[f]
  BY DEF RecallInv, TypeOK, WithinBudget, Budget
<1>3. Reservation(n) = [f \in Fields |-> IF f = "maxDepth" THEN 1
                                         ELSE IF f \in {"maxBranches", "maxQueries"} THEN n ELSE 0]
  BY DEF Reservation, Nothing, Fields
<1>4. consumed' = [f \in Fields |->
          consumed[f] + (IF f = "maxDepth" THEN 1
                         ELSE IF f \in {"maxBranches", "maxQueries"} THEN n ELSE 0)]
  BY <1>3 DEF Ask, Plus
<1>5. consumed' \in Budget  BY <1>1, <1>2, <1>4 DEF Budget
<1>6. \A f \in Fields : consumed'[f] <= total[f]
  BY <1>1, <1>2, <1>4 DEF Remaining, Fields
<1>7. allowance' \in Nat  BY <1>2 DEF Ask, Remaining, Fields
<1>8. /\ branches' \in [Adapter -> Branch]
      /\ \A a \in Adapter : branches'[a].at \in {"running", "off"}
  BY DEF Ask, Idle, Branch
<1>9. 1 .. n \subseteq Adapter /\ query \in Queries
  BY DEF RecallAssumption, Adapter, RecallInv, TypeOK
<1>10. traces' = traces \cup {[branch |-> a, query |-> query, status |-> "cancelled"] : a \in 1 .. n}
  BY DEF Ask
<1> QED  BY <1>5, <1>6, <1>7, <1>8, <1>9, <1>10 DEF Trace, Statuses

LEMMA RecordEffect ==
    ASSUME RecallInv, NEW a \in Adapter, NEW reply \in Settlement, NEW status \in Statuses,
           Settles(a, reply, status)
    PROVE  /\ pc = "waiting" /\ a = settled + 1 /\ settled' = a /\ query \in lineage
           /\ \A b \in Adapter : ~Running(b)
           /\ UNCHANGED <<total, query, depth, rounds, branches, lineage, baseline, rang>>
           /\ pc' \in {"waiting", "judging"}
           /\ \A o \in observations : ~(o.branch = a /\ o.query = query)
           /\ \A t \in traces : t.branch = a /\ t.query = query => t.status = "cancelled"
           /\ \A o \in observations' : o \in observations
                                       \/ o = [branch |-> a, query |-> query, reply |-> reply]
           /\ observations \subseteq observations'
           /\ [branch |-> a, query |-> query, reply |-> reply] \in observations'
           /\ [branch |-> a, query |-> query, reply |-> reply] \in Observation
           /\ \A t \in traces' : \/ t = [branch |-> a, query |-> query, status |-> status]
                                 \/ t \in traces /\ ~(t.branch = a /\ t.query = query)
           /\ \A t \in traces : ~(t.branch = a /\ t.query = query) => t \in traces'
           /\ [branch |-> a, query |-> query, status |-> status] \in traces'
           /\ [branch |-> a, query |-> query, status |-> status] \in Trace
<1>1. pc = "waiting" /\ ~Waiting /\ a = settled + 1  BY DEF Settles, Due
<1>2. \A b \in Adapter : ~Running(b)  BY <1>1 DEF Waiting
<1>3. query \in lineage /\ query \in Queries  BY <1>1 DEF RecallInv, OnlyAsked, TypeOK
<1>4. settled \in Nat  BY DEF RecallInv, TypeOK
<1>5. \A o \in observations : o.branch \in Nat  BY DEF RecallInv, TypeOK, Observation, Adapter
<1>6. \A o \in observations : ~(o.branch = a /\ o.query = query)
  BY <1>1, <1>4, <1>5 DEF RecallInv, InOrder
<1>7. \A t \in traces : t.branch = a /\ t.query = query => t.status = "cancelled"
  BY <1>6 DEF RecallInv, TracesTrue
<1>8. \A t \in traces : t \in Trace  BY DEF RecallInv, TypeOK
<1>9. \A t \in traces : t.branch = a /\ t.query = query
        => t = [branch |-> a, query |-> query, status |-> "cancelled"]
  BY <1>7, <1>8 DEF Trace
<1>10. Record(a, reply, status)  BY DEF Settles
<1>11. /\ observations' = observations \cup {[branch |-> a, query |-> query, reply |-> reply]}
       /\ traces' = (traces \ {[branch |-> a, query |-> query, status |-> "cancelled"]})
                       \cup {[branch |-> a, query |-> query, status |-> status]}
       /\ settled' = a /\ pc' \in {"waiting", "judging"}
       /\ UNCHANGED <<total, query, depth, rounds, branches, lineage, baseline, rang>>
  BY <1>1, <1>10 DEF Record
<1>12. /\ [branch |-> a, query |-> query, reply |-> reply] \in Observation
       /\ [branch |-> a, query |-> query, status |-> status] \in Trace
  BY <1>3 DEF Observation, Trace
<1> HIDE DEF Settles, Record
<1> QED  BY <1>1, <1>2, <1>3, <1>6, <1>7, <1>9, <1>11, <1>12

\* The same, by the fields of what is added.
LEMMA RecordAdds ==
    ASSUME RecallInv, NEW a \in Adapter, NEW reply \in Settlement, NEW status \in Statuses,
           Settles(a, reply, status)
    PROVE  /\ \A o \in observations' : \/ o \in observations
                                       \/ /\ o \in Observation
                                          /\ o.branch = a /\ o.query = query /\ o.reply = reply
           /\ \A t \in traces' : t \in traces \/ (t \in Trace /\ t.query = query)
<1>1. \A o : o = [branch |-> a, query |-> query, reply |-> reply]
         => o.branch = a /\ o.query = query /\ o.reply = reply
  OBVIOUS
<1>2. \A t : t = [branch |-> a, query |-> query, status |-> status] => t.query = query
  OBVIOUS
<1>3. /\ \A o \in observations' : o \in observations
                                  \/ o = [branch |-> a, query |-> query, reply |-> reply]
      /\ [branch |-> a, query |-> query, reply |-> reply] \in Observation
  BY RecordEffect
<1>4. /\ \A t \in traces' : t \in traces
                            \/ t = [branch |-> a, query |-> query, status |-> status]
      /\ [branch |-> a, query |-> query, status |-> status] \in Trace
  BY RecordEffect
<1>5. ASSUME NEW o \in observations', o \notin observations
      PROVE  o \in Observation /\ o.branch = a /\ o.query = query /\ o.reply = reply
  BY <1>1, <1>3, <1>5
<1>6. ASSUME NEW t \in traces', t \notin traces
      PROVE  t \in Trace /\ t.query = query
  BY <1>2, <1>4, <1>6
<1> QED  BY <1>5, <1>6

-----------------------------------------------------------------------------
(* Each part of the invariant is kept.                                     *)

LEMMA BudgetKept ==
    ASSUME RecallAssumption, RecallInv, [Next]_vars
    PROVE  consumed' \in Budget /\ WithinBudget'
<1>1. TypeOK /\ WithinBudget  BY DEF RecallInv
<1>2. CASE UNCHANGED <<total, consumed>>  BY <1>1, <1>2 DEF WithinBudget, TypeOK
<1>3. CASE Asking
  <2>1. total' = total  BY <1>3 DEF Asking, Ask
  <2> QED  BY <1>3, <2>1, AskEffect DEF Asking, WithinBudget
<1>4. CASE Settling
  <2>1. PICK a \in Adapter, reply \in Settlement, status \in Statuses : Settles(a, reply, status)
    BY <1>4 DEF Settling
  <2> QED  BY <2>1, RecordEffect DEF Settles, WithinBudget
<1>5. CASE QuietStep  BY <1>2, <1>5, QuietStepIsQuiet DEF Quiet
<1>6. CASE Answering \/ (\E a \in Adapter : Expire(a)) \/ JudgeEnough \/ Continuing
  BY <1>2, <1>6 DEF Answering, Answer, Expire, JudgeEnough, Continuing, JudgeFurther
<1> QED  BY <1>1, <1>3, <1>4, <1>5, <1>6, StepCases

LEMMA RoundsLeftKept ==
    ASSUME RecallAssumption, RecallInv, [Next]_vars
    PROVE  RoundsLeft'
<1>1. TypeOK /\ WithinBudget /\ RoundsLeft  BY DEF RecallInv
<1>2. CASE QuietStep
  <2>1. Quiet  BY <1>2, QuietStepIsQuiet
  <2> QED  BY <1>1, <2>1 DEF Quiet, round, RoundsLeft, MayAsk
<1>3. CASE Asking  BY <1>3 DEF Asking, Ask, MayAsk, RoundsLeft
<1>4. CASE Settling
  BY <1>1, <1>4, RecordEffect DEF Settling, RoundsLeft
<1>5. CASE Answering \/ (\E a \in Adapter : Expire(a))
  BY <1>1, <1>5 DEF Answering, Answer, Expire, round, RoundsLeft
<1>6. CASE JudgeEnough \/ Continuing
  BY <1>6 DEF JudgeEnough, Continuing, JudgeFurther, RoundsLeft
<1> QED  BY <1>1, <1>2, <1>3, <1>4, <1>5, <1>6, StepCases

LEMMA OnlyAskedKept ==
    ASSUME RecallAssumption, RecallInv, [Next]_vars
    PROVE  OnlyAsked'
<1>1. TypeOK /\ WithinBudget /\ OnlyAsked  BY DEF RecallInv
<1>2. CASE QuietStep
  <2>1. Quiet  BY <1>2, QuietStepIsQuiet
  <2> QED  BY <1>1, <2>1 DEF Quiet, round, OnlyAsked
<1>3. CASE Asking
  <2>1. PICK n \in 0 .. Adapters : Ask(n)  BY <1>3 DEF Asking
  <2>2. /\ lineage' = lineage \cup {query}
        /\ UNCHANGED <<query, observations, rang>>
    BY <2>1 DEF Ask
  <2>3. \A t \in traces' \ traces : t.query = query  BY <2>1, AskEffect
  <2> QED  BY <1>1, <2>2, <2>3 DEF OnlyAsked
<1>4. CASE Settling
  <2>1. PICK a \in Adapter, reply \in Settlement, status \in Statuses : Settles(a, reply, status)
    BY <1>4 DEF Settling
  <2>2. query \in lineage /\ UNCHANGED <<query, lineage, rang>>  BY <2>1, RecordEffect
  <2>3. \A o \in observations' : o \in observations \/ o.query = query
    BY <2>1, RecordAdds
  <2>4. \A t \in traces' : t \in traces \/ t.query = query
    BY <2>1, RecordAdds
  <2> QED  BY <1>1, <2>2, <2>3, <2>4 DEF OnlyAsked
<1>5. CASE Answering
  BY <1>1, <1>5 DEF Answering, Answer, round, OnlyAsked
<1>6. ASSUME NEW a \in Adapter, Expire(a)  PROVE  OnlyAsked'
  <2>1. /\ pc = "waiting" /\ rang' = rang \cup {<<a, query>>}
        /\ UNCHANGED <<pc, query, lineage, observations, traces>>
    BY <1>6 DEF Expire, round
  <2> QED  BY <1>1, <2>1 DEF OnlyAsked
<1>7. CASE JudgeEnough \/ Continuing
  <2>1. /\ pc' # "waiting" /\ UNCHANGED <<lineage, observations, traces, rang>>
    BY <1>7 DEF JudgeEnough, Continuing, JudgeFurther
  <2> QED  BY <1>1, <2>1 DEF OnlyAsked
<1> QED  BY <1>1, <1>2, <1>3, <1>4, <1>5, <1>6, <1>7, StepCases

LEMMA TimersTrueKept ==
    ASSUME RecallAssumption, RecallInv, [Next]_vars
    PROVE  TimersTrue'
<1>1. TypeOK /\ WithinBudget /\ TimersTrue /\ OnlyAsked  BY DEF RecallInv
<1>2. CASE QuietStep
  <2>1. Quiet  BY <1>2, QuietStepIsQuiet
  <2> QED  BY <1>1, <2>1 DEF Quiet, round, TimersTrue
<1>3. CASE Asking
  <2>1. PICK n \in 0 .. Adapters : Ask(n)  BY <1>3 DEF Asking
  <2>2. query \notin lineage /\ query \in Queries /\ UNCHANGED <<query, rang>>
    BY <1>1, <2>1 DEF Ask, TypeOK
  <2>3. \A a \in Adapter : branches'[a].at # "expired"  BY <2>1, AskEffect
  <2>4. \A a \in Adapter : <<a, query>> \notin rang  BY <1>1, <2>2 DEF OnlyAsked
  <2> QED  BY <2>2, <2>3, <2>4 DEF TimersTrue
<1>4. CASE Settling
  <2>1. PICK a \in Adapter, reply \in Settlement, status \in Statuses : Settles(a, reply, status)
    BY <1>4 DEF Settling
  <2> QED  BY <1>1, <2>1, RecordEffect DEF TimersTrue
<1>5. ASSUME NEW a \in Adapter, NEW r \in Replies, Answer(a, r)  PROVE  TimersTrue'
  <2>1. /\ pc = "waiting" /\ branches[a].at = "running"
        /\ branches' = [branches EXCEPT ![a] = [at |-> "answered", reply |-> r, took |-> elapsed]]
        /\ UNCHANGED <<pc, query, rang>>
    BY <1>5 DEF Answer, round, Running
  <2>2. \A b \in Adapter : branches'[b].at = IF b = a THEN "answered" ELSE branches[b].at
    BY <1>1, <2>1 DEF TypeOK
  <2> QED  BY <1>1, <2>1, <2>2 DEF TimersTrue
<1>6. ASSUME NEW a \in Adapter, Expire(a)  PROVE  TimersTrue'
  <2>1. /\ pc = "waiting" /\ rang' = rang \cup {<<a, query>>}
        /\ branches' = [branches EXCEPT ![a] = [at |-> "expired", reply |-> None, took |-> elapsed]]
        /\ UNCHANGED <<pc, query>>
    BY <1>6 DEF Expire, round
  <2>2. \A b \in Adapter : branches'[b].at = IF b = a THEN "expired" ELSE branches[b].at
    BY <1>1, <2>1 DEF TypeOK
  <2> QED  BY <1>1, <2>1, <2>2 DEF TimersTrue
<1>7. CASE JudgeEnough \/ Continuing
  BY <1>7 DEF JudgeEnough, Continuing, JudgeFurther, TimersTrue
<1> QED  BY <1>1, <1>2, <1>3, <1>4, <1>5, <1>6, <1>7, StepCases DEF Answering

LEMMA InOrderKept ==
    ASSUME RecallAssumption, RecallInv, [Next]_vars
    PROVE  InOrder'
<1>1. TypeOK /\ WithinBudget /\ InOrder /\ OnlyAsked  BY DEF RecallInv
<1>2. CASE QuietStep
  <2>1. Quiet  BY <1>2, QuietStepIsQuiet
  <2> QED  BY <1>1, <2>1 DEF Quiet, round, InOrder, Running
<1>3. CASE Asking
  <2>1. query \notin lineage /\ settled' = 0 /\ UNCHANGED <<query, observations>>
    BY <1>3 DEF Asking, Ask
  <2> QED  BY <1>1, <2>1 DEF InOrder, OnlyAsked
<1>4. CASE Settling
  <2>1. PICK a \in Adapter, reply \in Settlement, status \in Statuses : Settles(a, reply, status)
    BY <1>4 DEF Settling
  <2>2. /\ pc = "waiting" /\ a = settled + 1 /\ settled' = a /\ UNCHANGED <<query, branches>>
        /\ \A b \in Adapter : ~Running(b)
    BY <2>1, RecordEffect
  <2>3. \A o \in observations' : o \in observations \/ (o.branch = a /\ o.query = query)
    BY <2>1, RecordAdds
  <2>4. /\ pc = "waiting" /\ settled' = settled + 1 /\ UNCHANGED <<query, branches>>
        /\ \A b \in Adapter : ~Running(b)
        /\ \A o \in observations' : o \in observations \/ o.branch = settled'
    BY <2>2, <2>3
  <2>5. settled \in Nat /\ \A o \in observations : o.branch \in Nat
    BY <1>1 DEF TypeOK, Observation, Adapter
  <2> QED  BY <1>1, <2>4, <2>5 DEF InOrder, Running
<1>5. ASSUME NEW a \in Adapter,
             \/ Expire(a)
             \/ \E r \in Replies : Answer(a, r)
      PROVE  InOrder'
  <2>1. /\ pc = "waiting" /\ Running(a)
        /\ UNCHANGED <<pc, query, observations, settled>>
    BY <1>5 DEF Answer, Expire, round
  <2>2. settled = 0  BY <1>1, <2>1 DEF InOrder
  <2> QED  BY <1>1, <2>1, <2>2 DEF InOrder
<1>6. CASE JudgeEnough \/ Continuing
  BY <1>6 DEF JudgeEnough, Continuing, JudgeFurther, InOrder
<1> QED  BY <1>1, <1>2, <1>3, <1>4, <1>5, <1>6, StepCases DEF Answering

LEMMA FinalKept ==
    ASSUME RecallAssumption, RecallInv, [Next]_vars
    PROVE  Final'
<1>1. TypeOK /\ WithinBudget /\ Final  BY DEF RecallInv
<1>2. CASE FindClosed \/ StopAsking \/ Repeat \/ Tick
  BY <1>1, <1>2 DEF FindClosed, StopAsking, Repeat, Tick, flags, Final, Waiting
<1>3. CASE Cancel \/ End \/ UNCHANGED vars
  BY <1>1, <1>3 DEF Cancel, End, vars, flags, Final
<1>4. CASE Asking  BY <1>1, <1>4 DEF Asking, Ask, flags, Final
<1>5. CASE Settling
  <2>1. PICK a \in Adapter, reply \in Settlement, status \in Statuses : Settles(a, reply, status)
    BY <1>5 DEF Settling
  <2>2. reason' = reason  BY <2>1 DEF Settles, Record
  <2>3. pc = "waiting" /\ pc' \in {"waiting", "judging"}  BY <2>1, RecordEffect
  <2> QED  BY <1>1, <2>2, <2>3 DEF Final
<1>6. CASE Answering \/ (\E a \in Adapter : Expire(a))
  BY <1>1, <1>6 DEF Answering, Answer, Expire, flags, Final
<1>7. CASE JudgeEnough \/ Continuing
  BY <1>1, <1>7 DEF JudgeEnough, Continuing, JudgeFurther, flags, Final, Enough
<1> QED  BY <1>1, <1>2, <1>3, <1>4, <1>5, <1>6, <1>7, StepCases DEF QuietStep

LEMMA LateIgnoredKept ==
    ASSUME RecallAssumption, RecallInv, [Next]_vars
    PROVE  LateIgnored'
<1>1. TypeOK /\ WithinBudget /\ LateIgnored /\ TimersTrue /\ InOrder  BY DEF RecallInv
<1>2. CASE UNCHANGED <<observations, rang>>  BY <1>1, <1>2 DEF LateIgnored
<1>3. CASE QuietStep  BY <1>2, <1>3, QuietStepIsQuiet DEF Quiet
<1>4. CASE Settling
  <2>1. PICK a \in Adapter, reply \in Settlement, status \in Statuses : Settles(a, reply, status)
    BY <1>4 DEF Settling
  <2>2. /\ pc = "waiting" /\ rang' = rang
        /\ \A o \in observations' : o \in observations
                                    \/ o = [branch |-> a, query |-> query, reply |-> reply]
    BY <2>1, RecordEffect
  <2>3. reply.failure = "timeout" <=> <<a, query>> \in rang
    BY <1>1, <2>1, <2>2 DEF Settles, TimersTrue
  <2>4. \A o \in observations' :
            o \in observations \/ (o.branch = a /\ o.query = query /\ o.reply = reply)
    BY <2>1, RecordAdds
  <2> QED  BY <1>1, <2>2, <2>3, <2>4 DEF LateIgnored
<1>5. ASSUME NEW a \in Adapter, Expire(a)  PROVE  LateIgnored'
  <2>1. /\ pc = "waiting" /\ Running(a) /\ rang' = rang \cup {<<a, query>>}
        /\ observations' = observations
    BY <1>5 DEF Expire
  <2>2. \A o \in observations : o.query = query => o.branch <= 0
    BY <1>1, <2>1 DEF InOrder
  <2>3. \A o \in observations : o.branch > 0  BY <1>1 DEF TypeOK, Observation, Adapter
  <2>4. \A o \in observations : <<o.branch, o.query>> # <<a, query>>
    BY <1>1, <2>2, <2>3 DEF TypeOK, Observation, Adapter
  <2> QED  BY <1>1, <2>1, <2>4 DEF LateIgnored
<1>6. CASE Asking \/ Answering \/ JudgeEnough \/ Continuing
  BY <1>2, <1>6 DEF Asking, Ask, Answering, Answer, JudgeEnough, Continuing, JudgeFurther
<1> QED  BY <1>1, <1>3, <1>4, <1>5, <1>6, StepCases

LEMMA TracesTrueKept ==
    ASSUME RecallAssumption, RecallInv, [Next]_vars
    PROVE  TracesTrue'
<1>1. TypeOK /\ WithinBudget /\ TracesTrue /\ OnlyAsked  BY DEF RecallInv
<1>2. CASE UNCHANGED <<observations, traces>>  BY <1>1, <1>2 DEF TracesTrue
<1>3. CASE QuietStep  BY <1>2, <1>3, QuietStepIsQuiet DEF Quiet
<1>4. CASE Asking
  <2>1. PICK n \in 0 .. Adapters : Ask(n)  BY <1>4 DEF Asking
  <2>2. query \notin lineage /\ observations' = observations  BY <2>1 DEF Ask
  <2>3. /\ traces \subseteq traces'
        /\ \A t \in traces' \ traces : t.query = query /\ t.status = "cancelled"
        /\ \A s, t \in traces' \ traces : s.branch = t.branch => s = t
    BY <2>1, AskEffect
  <2>4. \A t \in traces : t.query # query  BY <1>1, <2>2 DEF OnlyAsked
  <2>5. \A s, t \in traces' : s.branch = t.branch /\ s.query = t.query => s = t
    BY <1>1, <2>3, <2>4 DEF TracesTrue
  <2>6. \A o \in observations' : \E t \in traces' :
            /\ t.branch = o.branch /\ t.query = o.query
            /\ t.status = "succeeded" <=> o.reply.failure = "none"
            /\ t.status = "timed-out" <=> o.reply.failure = "timeout"
    BY <1>1, <2>2, <2>3 DEF TracesTrue
  <2>7. \A t \in traces' :
            (\A o \in observations' : o.branch # t.branch \/ o.query # t.query)
                => t.status = "cancelled"
    BY <1>1, <2>2, <2>3 DEF TracesTrue
  <2> QED  BY <2>5, <2>6, <2>7 DEF TracesTrue
<1>5. CASE Settling
  <2>1. PICK a \in Adapter, reply \in Settlement, status \in Statuses : Settles(a, reply, status)
    BY <1>5 DEF Settling
  <2> DEFINE seen == [branch |-> a, query |-> query, reply |-> reply]
             traced == [branch |-> a, query |-> query, status |-> status]
  <2>2. /\ \A o \in observations : ~(o.branch = a /\ o.query = query)
        /\ \A o \in observations' : o \in observations \/ o = seen
        /\ observations \subseteq observations' /\ seen \in observations'
        /\ \A t \in traces' : t = traced \/ (t \in traces /\ ~(t.branch = a /\ t.query = query))
        /\ \A t \in traces : ~(t.branch = a /\ t.query = query) => t \in traces'
        /\ traced \in traces'
    BY <2>1, RecordEffect
  <2>3. /\ traced.branch = a /\ traced.query = query /\ traced.status = status
        /\ seen.branch = a /\ seen.query = query /\ seen.reply = reply
    OBVIOUS
  <2>4. /\ status = "succeeded" <=> reply.failure = "none"
        /\ status = "timed-out" <=> reply.failure = "timeout"
    BY <2>1 DEF Settles
  <2> HIDE DEF seen, traced
  <2>5. \A s, t \in traces' : s.branch = t.branch /\ s.query = t.query => s = t
    BY <1>1, <2>2, <2>3 DEF TracesTrue
  <2>6. \A o \in observations' : \E t \in traces' :
            /\ t.branch = o.branch /\ t.query = o.query
            /\ t.status = "succeeded" <=> o.reply.failure = "none"
            /\ t.status = "timed-out" <=> o.reply.failure = "timeout"
    <3>1. TAKE o \in observations'
    <3>2. CASE o = seen  BY <2>2, <2>3, <2>4, <3>2
    <3>3. CASE o # seen
      <4>1. o \in observations /\ ~(o.branch = a /\ o.query = query)  BY <2>2, <3>3
      <4>2. PICK t \in traces :
                /\ t.branch = o.branch /\ t.query = o.query
                /\ t.status = "succeeded" <=> o.reply.failure = "none"
                /\ t.status = "timed-out" <=> o.reply.failure = "timeout"
        BY <1>1, <4>1 DEF TracesTrue
      <4>3. t \in traces'  BY <2>2, <4>1, <4>2
      <4> QED  BY <4>2, <4>3
    <3> QED  BY <3>2, <3>3
  <2>7. \A t \in traces' :
            (\A o \in observations' : o.branch # t.branch \/ o.query # t.query)
                => t.status = "cancelled"
    BY <1>1, <2>2, <2>3 DEF TracesTrue
  <2> QED  BY <2>5, <2>6, <2>7 DEF TracesTrue
<1>6. CASE Answering \/ (\E a \in Adapter : Expire(a)) \/ JudgeEnough \/ Continuing
  BY <1>2, <1>6 DEF Answering, Answer, Expire, JudgeEnough, Continuing, JudgeFurther
<1> QED  BY <1>1, <1>3, <1>4, <1>5, <1>6, StepCases

LEMMA TypeKept ==
    ASSUME RecallAssumption, RecallInv, [Next]_vars
    PROVE  TypeOK'
<1>1. TypeOK /\ WithinBudget /\ RoundsLeft  BY DEF RecallInv
<1>2. consumed' \in Budget  BY BudgetKept
<1>3. CASE FindClosed \/ StopAsking \/ Repeat
  BY <1>1, <1>2, <1>3 DEF FindClosed, StopAsking, Repeat, TypeOK, round, flags, Steps
<1>4. CASE Tick \/ UNCHANGED vars
  BY <1>1, <1>2, <1>4 DEF Tick, vars, TypeOK, round, flags
<1>5. CASE Cancel \/ End
  <2>1. Reason \in Reasons  BY DEF Reason, Reasons
  <2> QED
    BY <1>1, <1>2, <1>5, <2>1 DEF Cancel, End, TypeOK, round, flags, Steps, Reasons
<1>6. CASE Asking
  <2>1. PICK n \in 0 .. Adapters : Ask(n)  BY <1>6 DEF Asking
  <2>2. /\ allowance' \in Nat /\ branches' \in [Adapter -> Branch]
        /\ \A t \in traces' : t \in Trace
    BY <1>1, <2>1, AskEffect DEF TypeOK
  <2>3. Evidence \subseteq Items
    BY <1>1 DEF TypeOK, Evidence, Delivered, Observation, Settlement
  <2>4. baseline' \subseteq Items /\ lineage' \subseteq Queries
    BY <1>1, <2>1, <2>3 DEF Ask, TypeOK, RecallAssumption
  <2>5. /\ elapsed' = 0 /\ settled' = 0 /\ pc' \in {"judging", "waiting"}
        /\ UNCHANGED <<total, query, depth, rounds, observations, timedOut, scopeClosed, cycle,
                       reason, rang>>
    BY <2>1 DEF Ask, flags
  <2>6. 0 \in 0 .. Adapters  BY DEF RecallAssumption
  <2> QED  BY <1>1, <1>2, <2>2, <2>4, <2>5, <2>6 DEF TypeOK, Steps
<1>7. CASE Settling
  <2>1. PICK a \in Adapter, reply \in Settlement, status \in Statuses : Settles(a, reply, status)
    BY <1>7 DEF Settling
  <2>2. /\ settled' = a /\ pc' \in {"waiting", "judging"}
        /\ UNCHANGED <<total, query, depth, rounds, branches, lineage, baseline, rang>>
    BY <2>1, RecordEffect
  <2>3. \A o \in observations' : o \in Observation
    BY <1>1, <2>1, RecordAdds DEF TypeOK
  <2>4. \A t \in traces' : t \in Trace
    BY <1>1, <2>1, RecordAdds DEF TypeOK
  <2>5. timedOut' \in BOOLEAN /\ UNCHANGED <<allowance, elapsed, scopeClosed, cycle, reason>>
    BY <2>1 DEF Settles, Record
  <2>6. a \in 0 .. Adapters  BY DEF Adapter, RecallAssumption
  <2> QED  BY <1>1, <1>2, <2>2, <2>3, <2>4, <2>5, <2>6 DEF TypeOK, Steps
<1>8. ASSUME NEW a \in Adapter, NEW r \in Replies, Answer(a, r)  PROVE  TypeOK'
  <2>1. [at |-> "answered", reply |-> r, took |-> elapsed] \in Branch
    BY <1>1 DEF Branch, TypeOK, RecallAssumption
  <2>2. branches' \in [Adapter -> Branch]  BY <1>1, <1>8, <2>1 DEF Answer, TypeOK
  <2> QED  BY <1>1, <1>2, <1>8, <2>2 DEF Answer, TypeOK, round, flags
<1>9. ASSUME NEW a \in Adapter, Expire(a)  PROVE  TypeOK'
  <2>1. [at |-> "expired", reply |-> None, took |-> elapsed] \in Branch
    BY <1>1 DEF Branch, TypeOK
  <2>2. branches' \in [Adapter -> Branch]  BY <1>1, <1>9, <2>1 DEF Expire, TypeOK
  <2>3. rang' \subseteq Adapter \X Queries  BY <1>1, <1>9 DEF Expire, TypeOK
  <2> QED  BY <1>1, <1>2, <1>9, <2>2, <2>3 DEF Expire, TypeOK, round, flags
<1>10. CASE JudgeEnough \/ Continuing
  <2>1. pc = "judging" /\ rounds' = rounds + 1
    BY <1>10 DEF JudgeEnough, Continuing, JudgeFurther
  <2>2. rounds < MaxRounds /\ depth > 0  BY <1>1, <2>1 DEF RoundsLeft
  <2>3. rounds' \in 0 .. MaxRounds  BY <1>1, <2>1, <2>2 DEF TypeOK, RecallAssumption
  <2>4. depth' \in Nat /\ query' \in Queries
    BY <1>1, <1>10, <2>2 DEF JudgeEnough, Continuing, JudgeFurther, TypeOK
  <2>5. scopeClosed' \in BOOLEAN /\ pc' \in Steps
    BY <1>1, <1>10 DEF JudgeEnough, Continuing, JudgeFurther, TypeOK, flags, ClosedByBranch, Steps
  <2> QED
    BY <1>1, <1>2, <1>10, <2>3, <2>4, <2>5
    DEF JudgeEnough, Continuing, JudgeFurther, TypeOK, flags
<1> QED
  BY <1>1, <1>3, <1>4, <1>5, <1>6, <1>7, <1>8, <1>9, <1>10, StepCases DEF QuietStep, Answering

-----------------------------------------------------------------------------
(* Novelty.                                                                *)

\* What is satisfied and novel depends on these alone.
LEMMA NoveltyUnchanged ==
    ASSUME UNCHANGED <<total, observations, baseline>>
    PROVE  /\ Satisfied' = Satisfied /\ Novel' = Novel /\ Contradicted' = Contradicted
           /\ Stable' = Stable /\ Delivered' = Delivered /\ Consolidated' = Consolidated
BY DEF Satisfied, Novel, Contradicted, Stable, Consolidated, Evidence, Contradictions, Unresolved,
       Delivered

LEMMA NoveltyJudgedKept ==
    ASSUME RecallAssumption, RecallInv, [Next]_vars
    PROVE  NoveltyJudged'
<1>1. TypeOK /\ WithinBudget /\ NoveltyJudged  BY DEF RecallInv
<1>2. ASSUME UNCHANGED <<total, observations, baseline, query>>
      PROVE  /\ (Satisfied /\ Novel)' = (Satisfied /\ Novel)
             /\ BaselineCurrent' = BaselineCurrent
  BY <1>2, NoveltyUnchanged DEF BaselineCurrent
<1>3. CASE QuietStep
  <2>1. Quiet  BY <1>3, QuietStepIsQuiet
  <2>2. /\ (Satisfied /\ Novel)' = (Satisfied /\ Novel)
        /\ BaselineCurrent' = BaselineCurrent
    BY <1>2, <2>1 DEF Quiet, round
  <2>3. (pc' = pc) \/ (pc = "asking" /\ pc' \in {"judging", "ending"}) \/ pc' = "done"
    BY <1>3 DEF QuietStep, FindClosed, StopAsking, Repeat, Tick, Cancel, End, vars
  <2> QED  BY <1>1, <2>2, <2>3 DEF NoveltyJudged
<1>4. CASE Asking
  <2>1. /\ baseline' = Visited \cup Evidence /\ pc' \in {"judging", "waiting"}
        /\ observations' = observations
    BY <1>4 DEF Asking, Ask
  <2>2. BaselineCurrent'
    BY <2>1 DEF BaselineCurrent, Delivered, Evidence
  <2> QED  BY <2>1, <2>2 DEF NoveltyJudged
<1>5. CASE Settling
  <2>1. PICK a \in Adapter, reply \in Settlement, status \in Statuses : Settles(a, reply, status)
    BY <1>5 DEF Settling
  <2>2. pc = "waiting" /\ pc' \in {"waiting", "judging"} /\ UNCHANGED <<query, baseline>>
    BY <2>1, RecordEffect
  <2>3. \A o \in observations' : o \in observations \/ o.query = query
    BY <2>1, RecordAdds
  <2>4. BaselineCurrent  BY <1>1, <2>2 DEF NoveltyJudged
  <2>5. BaselineCurrent'  BY <2>2, <2>3, <2>4 DEF BaselineCurrent, Delivered
  <2> QED  BY <2>2, <2>5 DEF NoveltyJudged
<1>6. CASE Answering \/ (\E a \in Adapter : Expire(a))
  <2>1. UNCHANGED <<total, observations, baseline, query, pc>>
    BY <1>6 DEF Answering, Answer, Expire, round
  <2> QED  BY <1>1, <1>2, <2>1 DEF NoveltyJudged
<1>7. CASE JudgeEnough
  <2>1. UNCHANGED <<total, observations, baseline, query>> /\ pc = "judging" /\ pc' = "ending"
    BY <1>7 DEF JudgeEnough
  <2> QED  BY <1>1, <1>2, <2>1 DEF NoveltyJudged
<1>8. CASE Continuing
  <2>1. UNCHANGED <<total, observations, baseline>> /\ pc' = "asking" /\ ~Enough
    BY <1>8 DEF Continuing, JudgeFurther
  <2>2. ~(Satisfied /\ Novel)  BY <2>1 DEF Enough
  <2> QED  BY <2>1, <2>2, NoveltyUnchanged DEF NoveltyJudged
<1> QED  BY <1>1, <1>3, <1>4, <1>5, <1>6, <1>7, <1>8, StepCases

LEMMA SufficientKept ==
    ASSUME RecallAssumption, RecallInv, [Next]_vars
    PROVE  SufficientIsNovel'
<1>1. /\ TypeOK /\ WithinBudget /\ SufficientIsNovel /\ NoveltyJudged /\ Final
  BY DEF RecallInv
<1>2. CASE reason' # "sufficient-evidence"  BY <1>2 DEF SufficientIsNovel
<1>3. CASE UNCHANGED <<total, reason, query, observations>>
  <2>1. Delivered' = Delivered /\ Consolidated' = Consolidated
    BY <1>3 DEF Consolidated, Evidence, Contradictions, Unresolved, Delivered
  <2> QED  BY <1>1, <1>3, <2>1 DEF SufficientIsNovel
<1>4. CASE End
  <2>1. pc = "ending" /\ reason' = Reason /\ UNCHANGED <<total, query, observations, baseline>>
    BY <1>4 DEF End, round
  <2> SUFFICES ASSUME Reason = "sufficient-evidence"
               PROVE  SufficientIsNovel'
    BY <1>2, <2>1
  <2>2. Satisfied /\ Novel /\ ~Contradicted  BY DEF Reason
  <2>3. BaselineCurrent  BY <1>1, <2>1, <2>2 DEF NoveltyJudged
  <2>4. OfRound' = OfRound /\ Delivered' = Delivered /\ Consolidated' = Consolidated
    BY <2>1, NoveltyUnchanged DEF OfRound
  <2>5. CASE ~(Consolidated.evidence \subseteq baseline)
    <3>1. PICK i \in Consolidated.evidence : i \notin baseline  BY <2>5
    <3>2. i \notin Visited /\ \A p \in Delivered : i \in p.reply.evidence => p.query = query
      BY <2>3, <3>1 DEF BaselineCurrent
    <3> QED  BY <2>1, <2>4, <3>1, <3>2 DEF SufficientIsNovel
  <2>6. CASE Consolidated.contradictions # {}
    <3>1. Consolidated.contradictions \cap Open = {}  BY <2>2 DEF Contradicted
    <3>2. Consolidated.contradictions \ Open # {}  BY <2>6, <3>1
    <3> QED  BY <2>4, <3>1, <3>2 DEF SufficientIsNovel
  <2>7. CASE ~(Consolidated.unresolved \subseteq PreviousUnresolved)
    BY <2>4, <2>7 DEF SufficientIsNovel
  <2> QED  BY <2>2, <2>5, <2>6, <2>7 DEF Novel
<1>5. CASE FindClosed \/ StopAsking \/ Repeat \/ Tick \/ UNCHANGED vars
  BY <1>3, <1>5 DEF FindClosed, StopAsking, Repeat, Tick, vars, round
<1>6. CASE Cancel  BY <1>2, <1>6 DEF Cancel
<1>7. CASE Asking \/ Settling \/ JudgeEnough \/ Continuing
  <2>1. ASSUME Asking \/ JudgeEnough \/ Continuing
        PROVE  reason' = reason /\ pc # "done"
    BY <2>1 DEF Asking, Ask, JudgeEnough, Continuing, JudgeFurther
  <2>2. ASSUME NEW a \in Adapter, NEW reply \in Settlement, NEW status \in Statuses,
               Settles(a, reply, status)
        PROVE  reason' = reason /\ pc # "done"
    BY <2>2 DEF Settles, Due, Record
  <2>3. reason' = reason /\ pc # "done"  BY <1>7, <2>1, <2>2 DEF Settling
  <2>4. reason = None /\ None # "sufficient-evidence"
    BY <1>1, <2>3 DEF Final, RecallAssumption, Reasons
  <2> QED  BY <1>2, <2>3, <2>4
<1>8. CASE Answering \/ (\E a \in Adapter : Expire(a))
  BY <1>3, <1>8 DEF Answering, Answer, Expire, round
<1> QED  BY <1>1, <1>4, <1>5, <1>6, <1>7, <1>8, StepCases DEF QuietStep

-----------------------------------------------------------------------------
(* The theorems.                                                           *)

LEMMA InitRecallInv ==
    ASSUME RecallAssumption, Init
    PROVE  RecallInv
<1>1. total \in Budget /\ consumed \in Budget /\ depth \in Nat
  BY DEF Init, RecallAssumption, Nothing, Budget, Fields
<1>2. branches \in [Adapter -> Branch]  BY DEF Init, NoRound, Idle, Branch
<1>3. observations = {} /\ traces = {} /\ rang = {} /\ pc = "asking" /\ reason = None
      /\ timedOut = FALSE /\ None # "sufficient-evidence"
  BY DEF Init, RecallAssumption, Reasons
<1>4. TypeOK
  <2>1. /\ pc \in Steps /\ query \in Queries /\ rounds = 0 /\ settled = 0
        /\ allowance = 0 /\ elapsed = 0 /\ lineage \subseteq Queries /\ baseline \subseteq Items
        /\ scopeClosed = FALSE /\ cycle = FALSE
    BY DEF Init, RecallAssumption, Steps
  <2>2. 0 \in 0 .. MaxRounds /\ 0 \in 0 .. Adapters  BY DEF RecallAssumption
  <2> QED  BY <1>1, <1>2, <1>3, <2>1, <2>2 DEF TypeOK
<1>5. WithinBudget  BY <1>1 DEF Init, WithinBudget, Nothing, Budget
<1>6. Evidence = {} /\ Contradictions = {} /\ Unresolved = {}
  BY <1>3 DEF Evidence, Contradictions, Unresolved, Delivered
<1>7. ~Novel
  <2>1. \A n : First({}, n) = {}  BY DEF First
  <2>2. Consolidated.evidence = {} /\ Consolidated.contradictions = {} /\ Consolidated.unresolved = {}
    BY <1>6, <2>1 DEF Consolidated
  <2> QED  BY <2>2 DEF Novel
<1>8. NoveltyJudged  BY <1>3, <1>7 DEF NoveltyJudged
<1>9. RoundsLeft /\ OnlyAsked /\ TimersTrue /\ InOrder /\ Final /\ LateIgnored
  BY <1>3 DEF RoundsLeft, OnlyAsked, TimersTrue, InOrder, Final, LateIgnored
<1>10. TracesTrue /\ SufficientIsNovel  BY <1>3 DEF TracesTrue, SufficientIsNovel
<1> QED  BY <1>4, <1>5, <1>8, <1>9, <1>10 DEF RecallInv

\* The invariant that carries the others: types, the timers and the traces
\* of the round, and what the baseline of novelty holds at each step.
THEOREM RecallInvariant ==
    ASSUME RecallAssumption
    PROVE  Spec => []RecallInv
<1>1. Init => RecallInv  BY InitRecallInv
<1>2. RecallInv /\ [Next]_vars => RecallInv'
  BY TypeKept, BudgetKept, RoundsLeftKept, OnlyAskedKept, TimersTrueKept, InOrderKept, FinalKept,
     LateIgnoredKept, TracesTrueKept, NoveltyJudgedKept, SufficientKept
  DEF RecallInv
<1> QED  BY <1>1, <1>2, PTL DEF Spec

\* recall-budget and recall-runtime: no field of the ledger is ever used
\* beyond what the request allowed, however many branches run at once.
THEOREM RecallWithinBudget ==
    ASSUME RecallAssumption
    PROVE  Spec => []WithinBudget
BY RecallInvariant, PTL DEF RecallInv

\* timedBranch: a branch is a timeout exactly when its timer fired, whatever
\* its adapter answers afterwards.
THEOREM LateAnswersIgnored ==
    ASSUME RecallAssumption
    PROVE  Spec => []LateIgnored
BY RecallInvariant, PTL DEF RecallInv

\* updateBranchTrace: each branch of each query has one trace, and it tells
\* what the recall took from the branch.
THEOREM RecallTraced ==
    ASSUME RecallAssumption
    PROVE  Spec => []TracesTrue
BY RecallInvariant, PTL DEF RecallInv

\* buildRecallEffect: evidence is called sufficient only when the last query
\* has brought an item that nothing before it had, or when the result holds a
\* resolved contradiction and no open one, or a question that is new to the
\* request.
THEOREM SufficientEvidenceIsNovel ==
    ASSUME RecallAssumption
    PROVE  Spec => []SufficientIsNovel
BY RecallInvariant, PTL DEF RecallInv

\* buildRecallEffect: once a branch has timed out or the recall has ended, no
\* further query is asked.
THEOREM TimeoutEndsAsking ==
    ASSUME RecallAssumption
    PROVE  Spec => StopsAfterTimeout
<1>1. ASSUME RecallInv, [Next]_vars
      PROVE  [timedOut \/ reason # None => lineage' = lineage]_vars
  <2>1. TypeOK /\ WithinBudget /\ Final  BY <1>1 DEF RecallInv
  <2>2. CASE Asking
    BY <2>1, <2>2 DEF Final, Asking, Ask
  <2>3. CASE QuietStep
    BY <2>3, QuietStepIsQuiet DEF Quiet, round
  <2>4. CASE Settling
    BY <1>1, <2>4, RecordEffect DEF Settling
  <2>5. CASE Answering \/ (\E a \in Adapter : Expire(a)) \/ JudgeEnough \/ Continuing
    BY <2>5 DEF Answering, Answer, Expire, JudgeEnough, Continuing, JudgeFurther, round
  <2> QED  BY <1>1, <2>1, <2>2, <2>3, <2>4, <2>5, StepCases
<1>2. RecallInv /\ [Next]_vars => [timedOut \/ reason # None => lineage' = lineage]_vars
  BY <1>1
<1> QED  BY <1>2, RecallInvariant, PTL DEF Spec, StopsAfterTimeout

-----------------------------------------------------------------------------
(* What was charged is what the delivered answers report.                  *)

\* What an observation holds of a field, as functions.
Found == [o \in Observation |-> Results(o.reply)]
Read == [o \in Observation |-> o.reply.tokens]

LEMMA FoundAndReadTyped ==
    ASSUME RecallAssumption
    PROVE  Found \in [Observation -> Nat] /\ Read \in [Observation -> Nat]
<1>1. ASSUME NEW o \in Observation
      PROVE  Results(o.reply) \in Nat /\ o.reply.tokens \in Nat
  <2>1. o.reply \in Settlement
    BY DEF Observation
  <2> QED
    BY <2>1, ResultsType DEF Settlement
<1> QED
  BY <1>1 DEF Found, Read

\* The folds of the property are sums of the values of these functions.
IsFoundFold(S, h) ==
    h = [s \in SUBSET S |->
            IF s = {} THEN 0 ELSE h[s \ {Pick(s)}] + Results(Pick(s).reply)]
IsReadFold(S, h) ==
    h = [s \in SUBSET S |-> IF s = {} THEN 0 ELSE h[s \ {Pick(s)}] + Pick(s).reply.tokens]

LEMMA FoldsAreSums ==
    ASSUME RecallAssumption, NEW S \in SUBSET Observation, IsFiniteSet(S)
    PROVE  /\ FoldSet(LAMBDA o, s : s + Results(o.reply), 0, S) = SumOf(Found, S)
           /\ FoldSet(LAMBDA o, s : s + o.reply.tokens, 0, S) = SumOf(Read, S)
<1>1. FoldSet(LAMBDA o, s : s + Results(o.reply), 0, S)
          = (CHOOSE h : IsFoundFold(S, h))[S]
  BY DEF FoldSet, MapThenFoldSet, Pick, IsFoundFold
<1>2. FoldSet(LAMBDA o, s : s + o.reply.tokens, 0, S) = (CHOOSE h : IsReadFold(S, h))[S]
  BY DEF FoldSet, MapThenFoldSet, Pick, IsReadFold
<1>3. LeftFold(Found, S) = SumOf(Found, S)
  BY FoundAndReadTyped, LeftFoldSums
<1>4. LeftFold(Read, S) = SumOf(Read, S)
  BY FoundAndReadTyped, LeftFoldSums
<1>5. ASSUME NEW s \in SUBSET S, s # {}
      PROVE  /\ Found[Pick(s)] = Results(Pick(s).reply)
             /\ Read[Pick(s)] = Pick(s).reply.tokens
  BY <1>5, PickIsMember DEF Found, Read
<1>6. ASSUME NEW h
      PROVE  /\ IsFoundFold(S, h) <=> IsLeftFold(Found, SUBSET S, h)
             /\ IsReadFold(S, h) <=> IsLeftFold(Read, SUBSET S, h)
  <2>1. [s \in SUBSET S |->
            IF s = {} THEN 0 ELSE h[s \ {Pick(s)}] + Results(Pick(s).reply)]
        = [s \in SUBSET S |-> IF s = {} THEN 0 ELSE h[s \ {Pick(s)}] + Found[Pick(s)]]
    BY <1>5
  <2>2. [s \in SUBSET S |-> IF s = {} THEN 0 ELSE h[s \ {Pick(s)}] + Pick(s).reply.tokens]
        = [s \in SUBSET S |-> IF s = {} THEN 0 ELSE h[s \ {Pick(s)}] + Read[Pick(s)]]
    BY <1>5
  <2> QED
    BY <2>1, <2>2, Zenon DEF IsFoundFold, IsReadFold, IsLeftFold
<1>7. (CHOOSE h : IsFoundFold(S, h)) = (CHOOSE h : IsLeftFold(Found, SUBSET S, h))
  BY <1>6
<1>8. (CHOOSE h : IsReadFold(S, h)) = (CHOOSE h : IsLeftFold(Read, SUBSET S, h))
  BY <1>6
<1> QED
  BY <1>1, <1>2, <1>3, <1>4, <1>7, <1>8 DEF LeftFold

Charged ==
    /\ IsFiniteSet(Delivered)
    /\ consumed["maxResults"] = SumOf(Found, Delivered)
    /\ consumed["maxTokens"] = SumOf(Read, Delivered)

\* A branch that was started in this round is in the trace.
Started ==
    /\ IsFiniteSet(traces)
    /\ consumed["maxBranches"] = Cardinality(traces)
    /\ consumed["maxQueries"] = Cardinality(traces)
    /\ pc = "waiting" => \A a \in Adapter :
          branches[a].at # "off" => \E t \in traces : t.branch = a /\ t.query = query

Descended ==
    /\ Ancestry \subseteq lineage /\ IsFiniteSet(lineage \ Ancestry)
    /\ consumed["maxDepth"] = Cardinality(lineage \ Ancestry)

PaidInv == Charged /\ Started /\ Descended

\* Every other step leaves the ledger and what it is compared with alone.
LEMMA LedgerAlone ==
    ASSUME RecallAssumption, RecallInv, [Next]_vars, ~Asking, ~Settling
    PROVE  UNCHANGED <<consumed, observations, traces, lineage>>
<1>1. TypeOK /\ WithinBudget  BY DEF RecallInv
<1>2. CASE QuietStep
  BY <1>2, QuietStepIsQuiet DEF Quiet, round
<1>3. CASE Answering \/ (\E a \in Adapter : Expire(a)) \/ JudgeEnough \/ Continuing
  BY <1>3 DEF Answering, Answer, Expire, JudgeEnough, Continuing, JudgeFurther, round
<1> QED
  BY <1>1, <1>2, <1>3, StepCases

LEMMA ChargedKept ==
    ASSUME RecallAssumption, RecallInv, Charged, [Next]_vars
    PROVE  Charged'
<1>1. CASE UNCHANGED observations /\ consumed'["maxResults"] = consumed["maxResults"]
                                 /\ consumed'["maxTokens"] = consumed["maxTokens"]
  <2>1. Delivered' = Delivered
    BY <1>1 DEF Delivered
  <2> QED
    BY <1>1, <2>1 DEF Charged
<1>2. CASE Asking
  <2>1. PICK n \in 0 .. Adapters : Ask(n)
    BY <1>2 DEF Asking
  <2>2. consumed' = Plus(Reservation(n)) /\ UNCHANGED observations
    BY <2>1 DEF Ask
  <2>3. Reservation(n)["maxResults"] = 0 /\ Reservation(n)["maxTokens"] = 0
    BY DEF Reservation, Nothing, Fields
  <2>4. consumed["maxResults"] \in Nat /\ consumed["maxTokens"] \in Nat
    BY DEF RecallInv, TypeOK, Budget, Fields
  <2> QED
    BY <1>1, <2>2, <2>3, <2>4 DEF Plus, Fields
<1>3. CASE Settling
  <2>1. PICK a \in Adapter, reply \in Settlement, status \in Statuses : Settles(a, reply, status)
    BY <1>3 DEF Settling
  <2> DEFINE o == [branch |-> a, query |-> query, reply |-> reply]
  <2>2. observations' = observations \cup {o} /\ ChargedFor(reply)
    BY <2>1 DEF Settles, Record
  <2>3. o \in Observation /\ \A p \in observations : ~(p.branch = a /\ p.query = query)
    BY <2>1, RecordEffect
  <2>4. o.branch = a /\ o.query = query /\ o.reply = reply
    OBVIOUS
  <2>5. consumed["maxResults"] \in Nat /\ consumed["maxTokens"] \in Nat
    BY DEF RecallInv, TypeOK, Budget, Fields
  <2> HIDE DEF o
  <2>6. CASE reply.failure = "none"
    <3>1. Delivered' = Delivered \cup {o} /\ o \notin Delivered
      BY <2>2, <2>3, <2>4, <2>6 DEF Delivered
    <3>2. Delivered \in SUBSET Observation /\ IsFiniteSet(Delivered)
      BY DEF Charged, Delivered, RecallInv, TypeOK
    <3>3. Found[o] = Results(reply) /\ Read[o] = reply.tokens
      BY <2>3, <2>4 DEF Found, Read
    <3>4. o \in Observation \ Delivered
      BY <2>3, <3>1
    <3>5. /\ SumOf(Found, Delivered \cup {o}) = Found[o] + SumOf(Found, Delivered)
          /\ SumOf(Found, Delivered) \in Nat
          /\ SumOf(Read, Delivered \cup {o}) = Read[o] + SumOf(Read, Delivered)
          /\ SumOf(Read, Delivered) \in Nat
      <4>1. Found \in [Observation -> Nat] /\ Read \in [Observation -> Nat]
        BY FoundAndReadTyped
      <4>2. SumOf(Found, Delivered \cup {o}) = Found[o] + SumOf(Found, Delivered)
            /\ SumOf(Found, Delivered) \in Nat
        BY <3>2, <3>4, <4>1, SumAddsElement, Zenon
      <4>3. SumOf(Read, Delivered \cup {o}) = Read[o] + SumOf(Read, Delivered)
            /\ SumOf(Read, Delivered) \in Nat
        BY <3>2, <3>4, <4>1, SumAddsElement, Zenon
      <4> QED
        BY <4>2, <4>3
    <3>6. Found[o] \in Nat /\ Read[o] \in Nat
      BY <2>3, FoundAndReadTyped
    <3>7. consumed'["maxResults"] = SumOf(Found, Delivered \cup {o})
      BY <2>2, <2>6, <3>3, <3>5, <3>6 DEF ChargedFor, Charged
    <3>8. consumed'["maxTokens"] = SumOf(Read, Delivered \cup {o})
      BY <2>2, <2>6, <3>3, <3>5, <3>6 DEF ChargedFor, Charged
    <3>9. IsFiniteSet(Delivered \cup {o})
      BY <3>2, FS_AddElement
    <3> QED
      BY <3>1, <3>7, <3>8, <3>9 DEF Charged
  <2>7. CASE reply.failure # "none"
    <3>1. Delivered' = Delivered
      BY <2>2, <2>4, <2>7 DEF Delivered
    <3>2. consumed'["maxResults"] = consumed["maxResults"]
          /\ consumed'["maxTokens"] = consumed["maxTokens"]
      BY <2>2, <2>5, <2>7 DEF ChargedFor
    <3> QED
      BY <3>1, <3>2 DEF Charged
  <2> QED
    BY <2>6, <2>7
<1>4. CASE ~Asking /\ ~Settling
  BY <1>1, <1>4, LedgerAlone
<1> QED
  BY <1>2, <1>3, <1>4

LEMMA DescendedKept ==
    ASSUME RecallAssumption, RecallInv, Descended, [Next]_vars
    PROVE  Descended'
<1>1. consumed["maxDepth"] \in Nat
  BY DEF RecallInv, TypeOK, Budget, Fields
<1>2. CASE Asking
  <2>1. PICK n \in 0 .. Adapters : Ask(n)
    BY <1>2 DEF Asking
  <2>2. /\ consumed' = Plus(Reservation(n)) /\ lineage' = lineage \cup {query}
        /\ query \notin lineage
    BY <2>1 DEF Ask
  <2>3. consumed'["maxDepth"] = consumed["maxDepth"] + 1
    BY <2>2 DEF Plus, Reservation, Nothing, Fields
  <2>4. lineage' \ Ancestry = (lineage \ Ancestry) \cup {query} /\ query \notin lineage \ Ancestry
    BY <2>2 DEF Descended
  <2>5. /\ IsFiniteSet((lineage \ Ancestry) \cup {query})
        /\ Cardinality((lineage \ Ancestry) \cup {query}) = Cardinality(lineage \ Ancestry) + 1
    BY <2>4, FS_AddElement DEF Descended
  <2> QED
    BY <2>2, <2>3, <2>4, <2>5 DEF Descended
<1>3. CASE Settling
  <2>1. PICK a \in Adapter, reply \in Settlement, status \in Statuses : Settles(a, reply, status)
    BY <1>3 DEF Settling
  <2>2. lineage' = lineage /\ consumed'["maxDepth"] = consumed["maxDepth"]
    BY <2>1, RecordEffect DEF Settles, ChargedFor
  <2> QED
    BY <2>2 DEF Descended
<1>4. CASE ~Asking /\ ~Settling
  BY <1>4, LedgerAlone DEF Descended
<1> QED
  BY <1>2, <1>3, <1>4

\* The traces that a round starts with are as many as its branches.
LEMMA TracesOfRound ==
    ASSUME NEW n \in Nat, NEW q
    PROVE  LET new == {[branch |-> a, query |-> q, status |-> "cancelled"] : a \in 1 .. n}
           IN  IsFiniteSet(new) /\ Cardinality(new) = n
<1> DEFINE new == {[branch |-> a, query |-> q, status |-> "cancelled"] : a \in 1 .. n}
           f == [a \in 1 .. n |-> [branch |-> a, query |-> q, status |-> "cancelled"]]
<1>1. f \in Surjection(1 .. n, new)
  BY DEF Surjection
<1>2. f \in Injection(1 .. n, new)
  <2>1. f \in [1 .. n -> new]
    OBVIOUS
  <2>2. \A a \in 1 .. n : f[a].branch = a
    OBVIOUS
  <2> HIDE DEF f, new
  <2>3. ASSUME NEW a \in 1 .. n, NEW b \in 1 .. n, f[a] = f[b] PROVE a = b
    BY <2>2, <2>3
  <2> QED
    BY <2>1, <2>3, Zenon DEF Injection, IsInjective
<1>3. IsFiniteSet(1 .. n) /\ Cardinality(1 .. n) = n
  BY FS_Interval
<1> HIDE DEF f, new
<1>4. IsFiniteSet(new) /\ Cardinality(new) = n
  BY <1>1, <1>2, <1>3, FS_Surjection
<1> QED
  BY <1>4 DEF new

LEMMA StartedKept ==
    ASSUME RecallAssumption, RecallInv, Started, [Next]_vars
    PROVE  Started'
<1>1. consumed["maxBranches"] \in Nat /\ consumed["maxQueries"] \in Nat
  BY DEF RecallInv, TypeOK, Budget, Fields
<1>2. CASE Asking
  <2>1. PICK n \in 0 .. Adapters : Ask(n)
    BY <1>2 DEF Asking
  <2> DEFINE new == {[branch |-> a, query |-> query, status |-> "cancelled"] : a \in 1 .. n}
  <2>2. /\ consumed' = Plus(Reservation(n)) /\ traces' = traces \cup new
        /\ query \notin lineage /\ query' = query
        /\ branches' = [a \in Adapter |-> IF a <= n THEN [Idle EXCEPT !.at = "running"] ELSE Idle]
    BY <2>1 DEF Ask
  <2>3. /\ consumed'["maxBranches"] = consumed["maxBranches"] + n
        /\ consumed'["maxQueries"] = consumed["maxQueries"] + n
    BY <2>2 DEF Plus, Reservation, Nothing, Fields
  <2>4. n \in Nat
    BY DEF RecallAssumption
  <2>5. IsFiniteSet(new) /\ Cardinality(new) = n
    BY <2>4, TracesOfRound
  <2>6. traces \cap new = {}
    <3>1. \A t \in traces : t.query # query
      BY <2>2 DEF RecallInv, OnlyAsked
    <3>2. \A t \in new : t.query = query
      OBVIOUS
    <3> HIDE DEF new
    <3> QED
      BY <3>1, <3>2
  <2>7. \A a \in Adapter : branches'[a].at # "off" => \E t \in new : t.branch = a /\ t.query = query
    <3> SUFFICES ASSUME NEW a \in Adapter, branches'[a].at # "off"
                 PROVE  \E t \in new : t.branch = a /\ t.query = query
      OBVIOUS
    <3>1. a \in 1 .. n
      BY <2>2, <2>4 DEF Idle, Adapter
    <3>2. [branch |-> a, query |-> query, status |-> "cancelled"] \in new
      BY <3>1
    <3> QED
      BY <3>2
  <2> HIDE DEF new
  <2>8. IsFiniteSet(traces \cup new) /\ Cardinality(traces \cup new) = Cardinality(traces) + n
    <3>1. IsFiniteSet(traces)
      BY DEF Started
    <3>2. /\ IsFiniteSet(traces \cup new)
          /\ Cardinality(traces \cup new)
                 = Cardinality(traces) + Cardinality(new) - Cardinality(traces \cap new)
      BY <2>5, <3>1, FS_Union
    <3>3. Cardinality(traces) \in Nat /\ Cardinality(traces \cap new) = 0
      BY <2>6, <3>1, FS_EmptySet, FS_CardinalityType
    <3> QED
      BY <2>4, <2>5, <3>2, <3>3
  <2> QED
    BY <2>2, <2>3, <2>7, <2>8 DEF Started
<1>3. CASE Settling
  <2>1. PICK a \in Adapter, reply \in Settlement, status \in Statuses : Settles(a, reply, status)
    BY <1>3 DEF Settling
  <2> DEFINE old == [branch |-> a, query |-> query, status |-> "cancelled"]
             new == [branch |-> a, query |-> query, status |-> status]
  <2>2. traces' = (traces \ {old}) \cup {new}
    BY <2>1 DEF Settles, Record
  <2>3. /\ pc = "waiting" /\ UNCHANGED <<query, branches>> /\ branches[a].at # "off"
        /\ \A t \in traces : t.branch = a /\ t.query = query => t.status = "cancelled"
        /\ \A t \in traces : ~(t.branch = a /\ t.query = query) => t \in traces'
        /\ new \in traces'
    BY <2>1, RecordEffect DEF Settles
  <2>4. \A t \in traces : t.branch = a /\ t.query = query => t = old
    BY <2>3 DEF RecallInv, TypeOK, Trace
  <2>5. PICK t \in traces : t.branch = a /\ t.query = query
    BY <2>3 DEF Started
  <2>6. old \in traces
    BY <2>4, <2>5
  <2>7. new.branch = a /\ new.query = query
    OBVIOUS
  <2> HIDE DEF old, new
  <2>8. new \notin traces \ {old}
    BY <2>4, <2>7
  <2>9. IsFiniteSet(traces) /\ Cardinality(traces) \in Nat
    BY FS_CardinalityType DEF Started
  <2>10. IsFiniteSet(traces \ {old}) /\ Cardinality(traces \ {old}) = Cardinality(traces) - 1
    BY <2>6, <2>9, FS_RemoveElement
  <2>11. /\ IsFiniteSet((traces \ {old}) \cup {new})
         /\ Cardinality((traces \ {old}) \cup {new}) = Cardinality(traces \ {old}) + 1
    BY <2>8, <2>10, FS_AddElement
  <2>12. IsFiniteSet(traces') /\ Cardinality(traces') = Cardinality(traces)
    BY <2>2, <2>9, <2>10, <2>11
  <2>13. \A b \in Adapter : branches[b].at # "off" =>
             \E u \in traces' : u.branch = b /\ u.query = query
    <3> SUFFICES ASSUME NEW b \in Adapter, branches[b].at # "off"
                 PROVE  \E u \in traces' : u.branch = b /\ u.query = query
      OBVIOUS
    <3>1. PICK u \in traces : u.branch = b /\ u.query = query
      BY <2>3 DEF Started
    <3> QED
      BY <2>3, <2>7, <3>1
  <2>14. consumed'["maxBranches"] = consumed["maxBranches"]
         /\ consumed'["maxQueries"] = consumed["maxQueries"]
    BY <2>1 DEF Settles, ChargedFor
  <2> QED
    BY <2>3, <2>12, <2>13, <2>14 DEF Started
<1>4. CASE ~Asking /\ ~Settling
  <2>1. UNCHANGED <<consumed, traces>>
    BY <1>4, LedgerAlone
  <2>2. ASSUME pc' = "waiting"
        PROVE  /\ pc = "waiting" /\ query' = query
               /\ \A a \in Adapter : branches'[a].at # "off" => branches[a].at # "off"
    <3>1. CASE QuietStep
      BY <2>2, <3>1 DEF QuietStep, FindClosed, StopAsking, Repeat, Tick, Cancel, End, vars, round
    <3>2. ASSUME NEW a \in Adapter, NEW r \in Replies, Answer(a, r)
          PROVE  /\ pc = "waiting" /\ query' = query
                 /\ \A b \in Adapter : branches'[b].at # "off" => branches[b].at # "off"
      BY <3>2 DEF Answer, Running, round, RecallInv, TypeOK
    <3>3. ASSUME NEW a \in Adapter, Expire(a)
          PROVE  /\ pc = "waiting" /\ query' = query
                 /\ \A b \in Adapter : branches'[b].at # "off" => branches[b].at # "off"
      BY <3>3 DEF Expire, Running, round, RecallInv, TypeOK
    <3>4. CASE JudgeEnough \/ Continuing
      BY <2>2, <3>4 DEF JudgeEnough, Continuing, JudgeFurther
    <3>5. TypeOK /\ WithinBudget
      BY DEF RecallInv
    <3> QED
      BY <1>4, <3>1, <3>2, <3>3, <3>4, <3>5, StepCases DEF Answering
  <2> QED
    BY <2>1, <2>2 DEF Started
<1> QED
  BY <1>2, <1>3, <1>4

LEMMA InitPaidInv ==
    ASSUME RecallAssumption, Init
    PROVE  PaidInv
<1>1. observations = {} /\ traces = {} /\ lineage = Ancestry /\ pc = "asking"
      /\ \A f \in Fields : consumed[f] = 0
  BY DEF Init, Nothing
<1>2. Delivered = {} /\ lineage \ Ancestry = {}
  BY <1>1 DEF Delivered
<1>3. Charged
  <2>1. SumOf(Found, {}) = 0 /\ SumOf(Read, {}) = 0
    BY FoundAndReadTyped, SumOfNothing
  <2> QED
    BY <1>1, <1>2, <2>1, FS_EmptySet DEF Charged, Fields
<1>4. Started
  BY <1>1, FS_EmptySet DEF Started, Fields
<1>5. Descended
  BY <1>1, <1>2, FS_EmptySet DEF Descended, Fields
<1> QED
  BY <1>3, <1>4, <1>5 DEF PaidInv

LEMMA PaidInvPays ==
    ASSUME RecallAssumption, RecallInv, PaidInv
    PROVE  PaidFor
<1>1. Delivered \in SUBSET Observation /\ IsFiniteSet(Delivered)
  BY DEF PaidInv, Charged, Delivered, RecallInv, TypeOK
<1>2. /\ FoldSet(LAMBDA o, s : s + Results(o.reply), 0, Delivered)
             = SumOf(Found, Delivered)
      /\ FoldSet(LAMBDA o, s : s + o.reply.tokens, 0, Delivered) = SumOf(Read, Delivered)
  BY <1>1, FoldsAreSums
<1>3. consumed["maxResults"] = Sum(Results)
  BY <1>2 DEF Sum, PaidInv, Charged
<1>4. consumed["maxTokens"] = Sum(LAMBDA r : r.tokens)
  BY <1>2 DEF Sum, PaidInv, Charged
<1> QED
  BY <1>3, <1>4 DEF PaidFor, PaidInv, Started, Descended

\* recall-budget and recall-runtime: at every moment of a recall the ledger
\* holds what the delivered observations report, to the token, or the items
\* that they hold when they report no results; one branch and one query for
\* every trace, and one level for every query that was asked: what is dropped
\* or times out is charged nothing but its time.
THEOREM LedgerMatchesResult ==
    ASSUME RecallAssumption
    PROVE  Spec => []PaidFor
<1>1. Init => PaidInv
  BY InitPaidInv
<1>2. RecallInv /\ PaidInv /\ [Next]_vars => PaidInv'
  BY ChargedKept, StartedKept, DescendedKept DEF PaidInv
<1>3. RecallInv /\ PaidInv => PaidFor
  BY PaidInvPays
<1> QED
  BY <1>1, <1>2, <1>3, RecallInvariant, PTL DEF Spec

==============================================================================
