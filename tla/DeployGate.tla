------------------------------ MODULE DeployGate ------------------------------
(***************************************************************************)
(* The deployment gate (observe/gate): the decision from the SLO readings  *)
(* that core holds, the conditions of policies, and the score that relates *)
(* a deployment to a burn.                                                 *)
(*                                                                         *)
(* A reading is [slo, pct], pct the percentage of the budget consumed or   *)
(* Unknown.  A condition is the sequence of its tokens: keywords, brackets,*)
(* variables that are true or false ("yes", "no") and function calls that  *)
(* return true ("fn").                                                   *)
(***************************************************************************)
EXTENDS Decision, Integers, Sequences, FiniteSets, SequencesExt, FiniteSetsExt

CONSTANTS
    QueryLimit,      \* AssessmentFilter.limit
    MaxReadings      \* bound on the readings of a service

\* A limit of zero or less is replaced by the store's default.
ASSUME GateAssumption == QueryLimit \in Nat \ {0} /\ MaxReadings \in Nat

Unknown == -1
Verdicts == <<"APPROVED", "WARNING", "BLOCKED">>
Severity(v) == CHOOSE i \in DOMAIN Verdicts : Verdicts[i] = v
Tiers == {"critical", "low"}

\* Absent is a threshold that neither the policy nor the tier sets.
Absent == -1
TierWarning(tier) == 20
TierBlocking(tier) == IF tier = "critical" THEN 10 ELSE Absent

GatePolicy(warning, blocking, exhausted) ==
    [warning |-> warning, blocking |-> blocking, exhausted |-> exhausted]
TierPolicy == GatePolicy(Absent, Absent, {})
GatePolicies == {TierPolicy, GatePolicy(30, 25, {}), GatePolicy(0, Absent, {"freeze_deploys"}),
             GatePolicy(Absent, Absent, {"require_approval"}),
             GatePolicy(30, 0, {"freeze_deploys", "require_approval"})}

-----------------------------------------------------------------------------
(* check_deploy *)

\* The store's query: newest first, cut at the limit.
Queried(log) == SubSeq(log, 1, IF QueryLimit < Len(log) THEN QueryLimit ELSE Len(log))

\* The first reading of each SLO, where it has a value.
Newest(log) ==
    {i \in DOMAIN log : \A j \in 1..(i - 1) : log[j].slo # log[i].slo}

\* A reading without a value does not count.
Counted(log) == {i \in Newest(log) : log[i].pct # Unknown}

\* What the first readings that count add up to.
Consumed(q) ==
    LET total[i \in 0..Len(q)] ==
            IF i = 0 THEN 0 ELSE total[i - 1] + (IF i \in Counted(q) THEN q[i].pct ELSE 0)
    IN  total
Consumption(log) ==
    LET q == Queried(log) IN [n |-> Cardinality(Counted(q)), sum |-> Consumed(q)[Len(q)]]

\* The average remaining budget is at most t.
RemainingWithin(log, t) ==
    LET c == Consumption(log) IN
    IF c.n = 0 THEN 100 <= t ELSE t >= 0 /\ 100 * c.n - c.sum <= t * c.n

Warning(tier, policy) == IF policy.warning # Absent THEN policy.warning ELSE TierWarning(tier)
Blocking(tier, policy) == IF policy.blocking # Absent THEN policy.blocking ELSE TierBlocking(tier)

EvaluateThresholds(log, tier, policy) ==
    CASE RemainingWithin(log, 0) /\ "freeze_deploys" \in policy.exhausted -> "BLOCKED"
      [] /\ RemainingWithin(log, 0)
         /\ "require_approval" \in policy.exhausted
         /\ "freeze_deploys" \notin policy.exhausted -> "WARNING"
      [] OTHER ->
            IF RemainingWithin(log, Blocking(tier, policy)) /\ Blocking(tier, policy) # Absent
            THEN "BLOCKED"
            ELSE IF RemainingWithin(log, Warning(tier, policy)) THEN "WARNING"
            ELSE "APPROVED"

CheckDeploy(log, tier, policy) ==
    IF Queried(log) = << >> THEN "APPROVED" ELSE EvaluateThresholds(log, tier, policy)

\* check-deploy reads the local store, whatever is missing there is approved.
CheckDeployCommand(c) == Severity(CheckDeploy(c.log, c.tier, TierPolicy)) - 1
\* The gate command: 0 lets the deployment go on, 1 is an error, 2 stops it.
GateCommand(c) ==
    IF c.core = "silent" \/ (c.core = "noManifest" /\ ~c.tierGiven) THEN 1
    ELSE IF CheckDeploy(c.log, c.tier, TierPolicy) = "BLOCKED" THEN 2 ELSE 0

-----------------------------------------------------------------------------
(* ConditionEvaluator *)

Splits(s, word) == {i \in DOMAIN s : s[i] = word}
\* re.split: the parts between the occurrences of the word.
PartsOf(s, word) ==
    LET cuts == Splits(s, word) \union {0, Len(s) + 1} IN
    {SubSeq(s, i + 1, Min({j \in cuts : j > i}) - 1) : i \in cuts \ {Len(s) + 1}}

Closes(s, i, j) ==
    /\ i + 1 < j /\ s[i] = "(" /\ s[j] = ")"
    /\ \A k \in (i + 1)..(j - 1) : s[k] \notin {"(", ")", "fn"}
Groups(s) == {p \in (DOMAIN s) \X (DOMAIN s) : Closes(s, p[1], p[2])}

Operand(s) == s # << >> /\ (Head(s) = "fn" \/ s = <<"yes">>)

\* _evaluate_expression.  A group is replaced by its value, the leftmost first; one
\* that holds a call matches no group and stays, brackets and all.
Evaluate[s \in Seq({"NOT", "AND", "OR", "(", ")", "yes", "no", "fn"})] ==
    IF Groups(s) # {}
    THEN LET g == CHOOSE p \in Groups(s) : \A q \in Groups(s) : p[1] <= q[1]
             value == IF Evaluate[SubSeq(s, g[1] + 1, g[2] - 1)] THEN "yes" ELSE "no"
         IN  Evaluate[SubSeq(s, 1, g[1] - 1) \o <<value>> \o SubSeq(s, g[2] + 1, Len(s))]
    ELSE IF s # << >> /\ Head(s) = "NOT" THEN ~Evaluate[Tail(s)]
    ELSE IF Splits(s, "OR") # {} THEN \E p \in PartsOf(s, "OR") : Evaluate[p]
    ELSE IF Splits(s, "AND") # {} THEN \A p \in PartsOf(s, "AND") : Evaluate[p]
    ELSE Operand(s)

\* evaluate_all: conditions are [when, blocking].
Matched(conds) == SelectSeq(conds, LAMBDA c : Evaluate[c.when])
EvaluateAll(conds) ==
    FoldLeft(LAMBDA best, c : IF best = << >> \/ c.blocking > best[1].blocking
                              THEN <<c>> ELSE best,
             << >>, Matched(conds))

-----------------------------------------------------------------------------
(* The correlator, in thousandths; the decay with time is a table. *)

Cap(x) == IF x > 1000 THEN 1000 ELSE x
BurnScore(before, after) ==
    IF before = 0 THEN Cap(after * 100) ELSE Cap((after * 200) \div before)
ProximityScore(halves) == <<1000, 368, 135, 50>>[halves + 1]
DependencyScore(relation) ==
    CASE relation \in {"same", "direct"} -> 1000 [] relation = "transitive" -> 400
      [] relation = "yaml" -> 600 [] OTHER -> 0
HistoryScore(deploys, prior) == IF deploys = 0 THEN 0 ELSE Cap((prior * 1000) \div deploys)

Confidence(c) ==
    (35 * BurnScore(c.before, c.after) + 25 * ProximityScore(c.halves) + 15 * Cap(c.burn * 100)
     + 15 * DependencyScore(c.relation) + 10 * HistoryScore(c.deploys, c.prior)) \div 100
ConfidenceLabel(x) ==
    CASE x >= 700 -> "HIGH" [] x >= 500 -> "MEDIUM" [] x >= 300 -> "LOW" [] OTHER -> "NONE"

-----------------------------------------------------------------------------
(* The calls, and what the answers must be. *)

Readings == [slo : {1, 2}, pct : {Unknown, 0, 60, 85, 100, 120}]
\* Which of the two SLOs comes first makes no difference.
Logs == {l \in UNION {[1..n -> Readings] : n \in 0..MaxReadings} : l # << >> => l[1].slo = 1}

\* A condition as it is meant and as it is written: an operand that binds less, and
\* a negation that something follows, stand in brackets.
Condition(op, text, value, calls) == [op |-> op, text |-> text, value |-> value, calls |-> calls]
Atoms == {Condition("atom", <<"yes">>, TRUE, FALSE), Condition("atom", <<"no">>, FALSE, FALSE),
          Condition("atom", <<"fn">>, TRUE, TRUE)}
Written(x, ops) == IF x.op \in ops THEN <<"(">> \o x.text \o <<")">> ELSE x.text
Not(x) == Condition("NOT", <<"NOT">> \o Written(x, {"AND", "OR"}), ~x.value, x.calls)
And(x, y) == Condition("AND", Written(x, {"NOT", "OR"}) \o <<"AND">> \o Written(y, {"OR"}),
                       x.value /\ y.value, x.calls \/ y.calls)
Or(x, y) == Condition("OR", Written(x, {"NOT"}) \o <<"OR">> \o y.text,
                      x.value \/ y.value, x.calls \/ y.calls)
Combined(S) == {Not(x) : x \in S} \union {And(x, y) : x, y \in S} \union {Or(x, y) : x, y \in S}
Conditions == Atoms \union Combined(Atoms \union Combined(Atoms))

CallsOfGate ==
    [about : {"gate"}, log : Logs, tier : Tiers, policy : GatePolicies,
     core : {"up"}, tierGiven : {FALSE}]
    \union [about : {"gate"}, log : {l \in Logs : Len(l) <= 1}, tier : Tiers, policy : {TierPolicy},
            core : {"silent", "noManifest"}, tierGiven : {FALSE}]
CallsOfConditions ==
    [about : {"condition"}, condition : Conditions]
CallsOfCorrelator ==
    [about : {"correlator"}, before : {0, 1, 10}, after : {0, 4, 10, 60}, halves : 0..3,
     burn : {0, 5, 20}, relation : {"same", "direct", "transitive", "yaml", "none"},
     deploys : {0, 2}, prior : {0, 1, 2, 5}]

Worse(log, i) == {[log EXCEPT ![i].pct = p] : p \in {q \in {60, 100, 120} : q > log[i].pct}}

\* Policy p asks for no less than q: each threshold is as high (Absent is the lowest)
\* and an exhausted budget meets no less.  A request for approval that q does not make
\* is no stricter by itself: it comes before the blocking threshold.
StricterPolicy(p, q, tier) ==
    /\ Warning(tier, p) >= Warning(tier, q) /\ Blocking(tier, p) >= Blocking(tier, q)
    /\ q.exhausted \subseteq p.exhausted
    /\ "require_approval" \in p.exhausted \ q.exhausted => "freeze_deploys" \in p.exhausted

\* The gate never opens because a budget burned further (a policy that asks for
\* approval of an exhausted budget excepted) or because the policy is stricter, and a
\* service all of whose known budgets are exhausted is not waved through, whatever
\* else could not be read.
GateClosesWithBudget ==
    call.about = "gate" =>
        LET decision(log) == CheckDeploy(log, call.tier, call.policy)
            known == Counted(Queried(call.log))
        IN  /\ "require_approval" \notin call.policy.exhausted =>
                   \A i \in known : \A log \in Worse(call.log, i) :
                       Severity(decision(log)) >= Severity(decision(call.log))
            /\ \A p \in GatePolicies : StricterPolicy(p, call.policy, call.tier) =>
                   Severity(CheckDeploy(call.log, call.tier, p)) >= Severity(decision(call.log))
            /\ (known # {} /\ \A i \in known : call.log[i].pct >= 100)
                   => decision(call.log) # "APPROVED"
            /\ GateCommand(call) = 0 => call.core = "up" /\ CheckDeployCommand(call) < 2

\* A condition has the value it is meant to have, unless a call stands in brackets.
Bracketed(s) == \E i, j \in DOMAIN s : i < j /\ s[i] = "(" /\ s[j] = "fn"
ConditionsMeanWhatTheySay ==
    call.about = "condition" =>
        LET c == call.condition IN
        ~Bracketed(c.text) => (Evaluate[c.text] <=> c.value)

\* The confidence is a share of one and no deployment that is closer in time or
\* followed by a steeper burn scores lower than one alike in the rest.
CloserScoresHigher ==
    call.about = "correlator" =>
        /\ Confidence(call) \in 0..1000
        /\ call.halves > 0 =>
               Confidence([call EXCEPT !.halves = @ - 1]) >= Confidence(call)
        /\ Confidence([call EXCEPT !.after = @ + 1]) >= Confidence(call)
=============================================================================
