----------------------------- MODULE ObserveCycle -----------------------------
(***************************************************************************)
(* What a cycle of the observe modules makes of the answers it gets        *)
(* (observe/worker.py, slo, drift, portfolio): readings, their statuses,   *)
(* the portfolio, drift signals, and how each is explained and recorded.   *)
(*                                                                         *)
(* An SLO is [name, query, ratio, objective, answer]: whether it has a     *)
(* query, the metrics of its ratio, its objective in percent and what      *)
(* Prometheus answers, a percentage, NoAnswer (no series) or Failure.  A   *)
(* drift history is a sequence of [day, budget], the budget in percent.    *)
(***************************************************************************)
EXTENDS Decision, Integers, Sequences, FiniteSets, SequencesExt, FiniteSetsExt

CONSTANTS
    ObservedServices,  \* names in the manifests
    MaxHistory         \* bound on the points of a history, and its length in days

NoAnswer == -1
Failure == -2

-----------------------------------------------------------------------------
(* SLOMetricCollector *)

\* A reading: its status and the percentage of the budget consumed, Missing if
\* there is none.  An objective of 100 leaves no budget to consume.
Missing == -1
StatusOf(pct) ==
    CASE pct >= 100 -> "EXHAUSTED" [] pct >= 80 -> "CRITICAL" [] pct >= 50 -> "WARNING"
      [] OTHER -> "HEALTHY"
Reading(slo) ==
    IF ~slo.query \/ slo.answer = NoAnswer THEN [status |-> "NO_DATA", pct |-> Missing]
    ELSE IF slo.answer = Failure THEN [status |-> "ERROR", pct |-> Missing]
    ELSE LET pct == IF slo.objective < 100
                    THEN ((100 - slo.answer) * 100) \div (100 - slo.objective) ELSE 0
         IN  [status |-> StatusOf(pct), pct |-> pct]

\* calculate_aggregate_budget: the share of the summed budgets that is left, for
\* windows of one length.
BudgetLeft(slos) ==
    LET known == {i \in DOMAIN slos : Reading(slos[i]).pct # Missing}
        total == MapThenSumSet(LAMBDA i : 100 - slos[i].objective, known)
        burned == MapThenSumSet(LAMBDA i : 100 - slos[i].answer, known)
    IN  IF known = {} \/ total = 0 THEN 100 ELSE ((total - burned) * 100) \div total

-----------------------------------------------------------------------------
(* The portfolio *)

Badness(status) ==
    CASE status = "EXHAUSTED" -> 4 [] status = "CRITICAL" -> 3 [] status = "WARNING" -> 2
      [] status = "ERROR" -> 1 [] status = "NO_DATA" -> 0 [] status = "HEALTHY" -> -1
      [] OTHER -> -2
WorstStatus(statuses) ==
    IF statuses = {} THEN "UNKNOWN"
    ELSE CHOOSE s \in statuses : \A t \in statuses : Badness(t) <= Badness(s)

Bucket(status) ==
    IF status \in {"HEALTHY", "WARNING", "CRITICAL", "EXHAUSTED"} THEN status ELSE "unknown"
Overall(slos) == WorstStatus({Reading(slos[i]).status : i \in DOMAIN slos})
Portfolio(services) ==
    [b \in {"HEALTHY", "WARNING", "CRITICAL", "EXHAUSTED"} |->
        {s \in DOMAIN services : Bucket(Overall(services[s].slos)) = b}]
\* score_service, in percent.
Score(slos) ==
    IF slos = << >> THEN 0
    ELSE (100 * Cardinality({i \in DOMAIN slos : Reading(slos[i]).status = "HEALTHY"}))
            \div Len(slos)

-----------------------------------------------------------------------------
(* ObserveCollectModule.process_cycle *)

\* Of a service: its SLOs, whether collecting them raises, which assessments core
\* refuses.  _extract_service_slos drops SLOs without a target.
Declared(services) == [s \in {t \in DOMAIN services : services[t].slos # << >>} |-> services[s]]
Collected(services) ==
    LET d == Declared(services)
    IN  [s \in {t \in DOMAIN d : ~d[t].raises} |-> d[s]]

Submitted(services) ==
    UNION {{<<s, i, Reading(services[s].slos[i]).status>> :
               i \in DOMAIN services[s].slos} : s \in DOMAIN Collected(services)}
Parents(services) == {x \in Submitted(services) : x[2] \notin services[x[1]].refused}

CollectCycle(services) ==
    [slos |-> Submitted(services),
     portfolio |-> IF DOMAIN Collected(services) = {} THEN << >>
                   ELSE <<[counts |-> Portfolio(Collected(services)),
                           total |-> Cardinality(DOMAIN Collected(services)),
                           errors |-> Cardinality(DOMAIN Declared(services))
                                      - Cardinality(DOMAIN Collected(services)),
                           parents |-> Parents(services)]>>]

-----------------------------------------------------------------------------
(* DriftAnalyzer and PatternDetector, the tier's defaults in thousandths *)

DriftDefaults(tier) ==
    CASE tier = "critical" -> [warn |-> -2, critical |-> -5, warnDays |-> 30, criticalDays |-> 14]
      [] tier = "low" -> [warn |-> -10, critical |-> -20, warnDays |-> 7, criticalDays |-> 3]
      [] OTHER -> [warn |-> -5, critical |-> -10, warnDays |-> 14, criticalDays |-> 7]
StepThreshold(tier) == IF tier = "low" THEN 10 ELSE 5

Sum(h, F(_)) == MapThenSumSet(LAMBDA i : F(h[i]), DOMAIN h)
\* The least-squares slope per day is Rise / Run; Run is positive, days differ.
Rise(h) == Len(h) * Sum(h, LAMBDA p : p.day * p.budget)
           - Sum(h, LAMBDA p : p.day) * Sum(h, LAMBDA p : p.budget)
Run(h) == Len(h) * Sum(h, LAMBDA p : p.day * p.day) - Sum(h, LAMBDA p : p.day) ^ 2
Spread(h) == Len(h) * Sum(h, LAMBDA p : p.budget * p.budget) - Sum(h, LAMBDA p : p.budget) ^ 2

\* The first step that is large enough decides.
Steps(h, tier) ==
    {i \in 2..Len(h) :
        /\ h[i].day - h[i - 1].day < 2
        /\ \/ h[i].budget - h[i - 1].budget > StepThreshold(tier)
           \/ h[i - 1].budget - h[i].budget > StepThreshold(tier)}
Pattern(h, tier) ==
    IF Steps(h, tier) # {}
    THEN LET i == Min(Steps(h, tier)) IN
         IF h[i].budget < h[i - 1].budget THEN "step_change_down" ELSE "step_change_up"
    ELSE IF /\ 10 * Rise(h) * Rise(h) < 3 * Run(h) * Spread(h)
            /\ Spread(h) > 100 * Len(h) * Len(h) THEN "volatile"
    ELSE IF 7000 * Rise(h) < 100 * Run(h) /\ -7000 * Rise(h) < 100 * Run(h) THEN "stable"
    ELSE IF Rise(h) < 0 THEN "gradual_decline" ELSE "gradual_improvement"

Never == 366
DaysLeft(h) ==
    IF Rise(h) >= 0 THEN Never
    ELSE IF Last(h).budget <= 0 THEN 0
    ELSE LET days == (Last(h).budget * Run(h)) \div (-Rise(h))
         IN  IF days > 365 \/ (days = 365 /\ (Last(h).budget * Run(h)) % (-Rise(h)) # 0)
             THEN Never ELSE days

\* The weekly slope is at most t thousandths of the budget.
SlopeWithin(h, t) == 70 * Rise(h) <= t * Run(h)
DriftSeverity(h, tier) ==
    LET d == DriftDefaults(tier) IN
    IF \/ DaysLeft(h) <= d.criticalDays
       \/ Pattern(h, tier) = "step_change_down"
       \/ SlopeWithin(h, d.critical) THEN 3
    ELSE IF DaysLeft(h) <= d.warnDays \/ SlopeWithin(h, d.warn) THEN 2
    ELSE IF Rise(h) < 0 THEN 1 ELSE 0
DriftExit(severity) == IF severity <= 1 THEN 0 ELSE severity - 1

\* ObserveDriftModule.process_cycle: a target is [service, slo, history]; budgeted is
\* what budgeted_slos answers for each service, Failed if it cannot be asked.
Failed == {Failure}
DriftSignals(targets, budgeted) ==
    {targets[i] : i \in {k \in DOMAIN targets :
        /\ targets[k].slo \in budgeted[targets[k].service] \ Failed
        /\ Len(targets[k].history) >= 2}}

-----------------------------------------------------------------------------
(* The commands that read the local store, a sequence of readings, newest first *)

\* collect: what it stores, and its exit code.
StoredBy(services) ==
    LET of(s) == [i \in DOMAIN services[s].slos |->
                    [service |-> s, slo |-> services[s].slos[i].name,
                     status |-> Reading(services[s].slos[i]).status]]
    IN  Reverse(FlattenSeq([k \in DOMAIN SetToSeq(DOMAIN services) |->
                               of(SetToSeq(DOMAIN services)[k])]))
CollectExit(services) ==
    IF \E k \in DOMAIN StoredBy(services) :
          StoredBy(services)[k].status \in {"EXHAUSTED", "CRITICAL"}
    THEN 2 ELSE 0

\* build_portfolio: the first reading of each SLO is the latest.
Latest(log, s) ==
    {log[k] : k \in {j \in DOMAIN log :
        log[j].service = s /\ \A i \in 1..(j - 1) : log[i].service # s \/ log[i].slo # log[j].slo}}
OverallStored(log, s) == WorstStatus({r.status : r \in Latest(log, s)})

\* explain: an explanation per SLO; record: the severity of its decision record.
ExplainSeverity(status) ==
    CASE status \in {"EXHAUSTED", "CRITICAL"} -> "critical"
      [] status \in {"WARNING", "ERROR"} -> "warning"
      [] OTHER -> "info"
RecordSeverity(status) ==
    CASE status \in {"EXHAUSTED", "CRITICAL"} -> "critical"
      [] status = "HEALTHY" -> "info" [] OTHER -> "warning"

\* verify: the metrics of the ratios, each once; an answer that fails counts as
\* missing, and every metric of an SLO is critical.
Contract(slos) == UNION {slos[i].ratio : i \in DOMAIN slos}
VerifyExit(services, present) ==
    IF \A s \in DOMAIN services : Contract(services[s].slos) \subseteq present THEN 0 ELSE 2

-----------------------------------------------------------------------------
(* The calls, and what the answers must be. *)

Slo(name, query, objective, answer) ==
    [name |-> name, query |-> query, ratio |-> IF query THEN {name} ELSE {},
     objective |-> objective, answer |-> answer]
Answers == {NoAnswer, Failure, 85, 96}
\* (What would answer a query that an SLO lacks makes no difference.)
SloLists ==
    {<<Slo(1, TRUE, o, a)>> : o \in {90, 100}, a \in Answers}
        \union {<<s, Slo(2, TRUE, 80, b)>> :
                   s \in {Slo(1, TRUE, 90, a) : a \in Answers} \union {Slo(1, FALSE, 90, NoAnswer)},
                   b \in Answers \ {NoAnswer}}
        \union {<< >>}
CycleServices == [slos : SloLists, raises : BOOLEAN, refused : {{}, {1}}]
CallsOfCycle == [about : {"cycle"}, services : [ObservedServices -> CycleServices], present : {{1}, {1, 2}}]

Histories ==
    UNION {{h \in [1..n -> [day : 0..MaxHistory, budget : {0, 20, 23, 26, 80, 96}]] :
               \A i \in 1..(n - 1) : h[i].day < h[i + 1].day} : n \in 2..MaxHistory}
Falling == <<[day |-> 0, budget |-> 80], [day |-> 1, budget |-> 20]>>
Targets == [service : ObservedServices, slo : {1, 2}, history : {<< >>, Falling}]
CallsOfSignals ==
    [about : {"signals"}, targets : {<<t, u>> : t, u \in Targets},
     budgeted : [ObservedServices -> {{}, {1}, {1, 2}, Failed}]]
CallsOfDrift == [about : {"drift"}, history : Histories, tier : {"critical", "standard", "low"}]

\* One service's failure or figures never touch another's readings, no reading is
\* lost, and the summary counts each collected service at most once, as healthy
\* only if every one of its SLOs was read and is.
CycleKeepsServicesApart ==
    call.about = "cycle" =>
        LET cycle == CollectCycle(call.services)
            alone(s) == [t \in {s} |-> call.services[t]]
            summary == cycle.portfolio[1]
        IN  /\ cycle.slos = UNION {CollectCycle(alone(s)).slos : s \in ObservedServices}
            /\ cycle.portfolio # << >> =>
                 /\ \A s \in summary.counts["HEALTHY"] : \A i \in DOMAIN call.services[s].slos :
                        Reading(call.services[s].slos[i]).status = "HEALTHY"
                 /\ \A s \in DOMAIN Collected(call.services) : \A i \in DOMAIN call.services[s].slos :
                        Reading(call.services[s].slos[i]).status = "EXHAUSTED"
                            => s \in summary.counts["EXHAUSTED"]
                 /\ summary.total + summary.errors
                        = Cardinality({s \in ObservedServices : call.services[s].slos # << >>})

\* Each declared SLO is judged by what its own service's series say, however the
\* others answer.
SignalsKeepServicesApart ==
    call.about = "signals" =>
        DriftSignals(call.targets, call.budgeted)
            = UNION {DriftSignals(<<call.targets[i]>>, call.budgeted) : i \in DOMAIN call.targets}

\* The commands agree with each other about the same readings.
CommandsAgree ==
    call.about = "cycle" =>
        LET log == StoredBy(call.services)
            status(s) == OverallStored(log, s)
        IN  /\ \A s \in ObservedServices :
                 /\ status(s) = Overall(call.services[s].slos)
                 /\ Score(call.services[s].slos) = 100 <=> status(s) = "HEALTHY"
                 /\ (\E r \in Latest(log, s) : ExplainSeverity(r.status) = "critical")
                       <=> Bucket(status(s)) \in {"CRITICAL", "EXHAUSTED"}
            /\ CollectExit(call.services) = 2
                  <=> \E s \in ObservedServices : Bucket(status(s)) \in {"CRITICAL", "EXHAUSTED"}
            /\ \A k \in DOMAIN log :
                 RecordSeverity(log[k].status) = "critical" <=> ExplainSeverity(log[k].status) = "critical"
            /\ VerifyExit(call.services, call.present) = 0 =>
                 \A s \in ObservedServices : Contract(call.services[s].slos) \subseteq call.present

\* A history that ends lower is never judged milder, and one that is about to run
\* out by its own trend is not reported as fine.
Lower(h) == [h EXCEPT ![Len(h)].budget = IF @ >= 10 THEN @ - 10 ELSE 0]
LowerIsNoMilder ==
    call.about = "drift" =>
        LET h == call.history IN
        /\ DriftSeverity(Lower(h), call.tier) >= DriftSeverity(h, call.tier)
        /\ DaysLeft(h) <= DriftDefaults(call.tier).criticalDays => DriftExit(DriftSeverity(h, call.tier)) = 2
        /\ Rise(h) >= 0 => DriftSeverity(h, call.tier) \in {0, 3}
=============================================================================
