-------------------------- MODULE MeasureGovernance --------------------------
(***************************************************************************)
(* The measure module's governance of one service: breaches of judgment    *)
(* SLOs and of judgment thresholds reduce the service's autonomy, once per *)
(* breach and never upwards; the runner stores the module's state in core  *)
(* after every cycle and restores it at start-up.                          *)
(*                                                                         *)
(* The runner runs one module at a time and nobody else reads the state, so *)
(* a cycle is one step; the process may die between it and the storing of  *)
(* its state.  The hysteresis that moves a threshold is abstracted to its   *)
(* armed flag, which may move either way at any evaluation.                *)
(***************************************************************************)
EXTENDS Integers, FiniteSets

CONSTANTS SLOs,           \* judgment SLOs of the service, by key
          Thresholds,     \* judgment thresholds of the service, by key
          Target,         \* the SLOs' targets, in percent
          Budgeted,       \* the SLOs whose type has an error budget
          Readings,       \* what an evaluation may read, in percent or NoData
          NoData,         \* the query failed or has no sample
          RestoreMayFail, \* core may not answer the GET at start-up
          MaxFaults       \* bound: crashes, failed PUTs and failed GETs

ASSUME MeasureAssumption ==
  /\ SLOs \cap Thresholds = {} /\ Budgeted \subseteq SLOs
  /\ Target \in [SLOs -> 0..100] /\ Readings \subseteq (0..100) \cup {NoData}
  /\ NoData \notin 0..100
  /\ RestoreMayFail \in BOOLEAN /\ MaxFaults \in Nat

Keys == SLOs \cup Thresholds

\* Levels are positions in AUTONOMY_LADDER, from fully_autonomous to observer.
FullyAutonomous == 0
Advisor == 3
Observer == 4
Level == FullyAutonomous..Observer

VARIABLES
  toggle,     \* threshold_autonomy, read when the module is constructed
  mem,        \* the module's state
  stored,     \* component_state("measure") in core
  published,  \* the level of the last autonomy_change verdict core accepted
  acted,      \* autonomy_change verdicts core accepted for the breach now open
  pc,         \* "off", "due" for a cycle or "ran" one not yet stored
  faults

vars == <<toggle, mem, stored, published, acted, pc, faults>>

\* A threshold fires when armed and is disarmed until it recovers for good.
ThresholdState == {"absent", "armed", "disarmed"}

ModuleState ==
  [status    : [SLOs -> {"unknown", "healthy", "breach"}],
   decided   : SUBSET Keys,
   severity  : [Keys -> {"none", "low", "high", "critical"}],
   level     : Level,
   threshold : [Thresholds -> ThresholdState],
   governed  : SUBSET Thresholds]

Empty ==
  [status    |-> [s \in SLOs |-> "unknown"],
   decided   |-> {},
   severity  |-> [k \in Keys |-> "none"],
   level     |-> FullyAutonomous,
   threshold |-> [t \in Thresholds |-> "absent"],
   governed  |-> {}]

TypeOK ==
  /\ toggle \in BOOLEAN
  /\ mem \in ModuleState /\ stored \in ModuleState
  /\ published \in Level /\ acted \in [Keys -> Nat]
  /\ pc \in {"off", "due", "ran"} /\ faults \in Nat

\* Nothing stored yet restores as nothing, like an empty state.
Init ==
  /\ toggle = FALSE
  /\ mem = Empty /\ stored = Empty
  /\ published = FullyAutonomous /\ acted = [k \in Keys |-> 0]
  /\ pc = "off" /\ faults = 0

----------------------------------------------------------------------------
(* Pure functions of the module *)

\* How much of its error budget a breach consumed: low below 200 percent, high
\* below 500.  No budget at all makes any miss critical.
ClassifySeverity(s, value) ==
  LET budget == 100 - Target[s]
      missed == 100 * (Target[s] - value)
  IN  IF s \notin Budgeted THEN "high"
      ELSE IF budget <= 0 THEN "critical"
      ELSE IF missed < 200 * budget THEN "low"
      ELSE IF missed < 500 * budget THEN "high"
      ELSE "critical"

\* The level to fall to, or the steps to go down, for the breaches now open.
Reduction(breaching, severity) ==
  LET critical == \E k \in breaching : severity[k] = "critical"
      slight == \A k \in breaching : severity[k] = "low"
  IN  [to |-> IF critical THEN Observer
              ELSE IF Cardinality(breaching) > 1 THEN Advisor ELSE FullyAutonomous,
       by |-> IF slight THEN 1 ELSE 2]

Lowest(a, b) == IF a <= b THEN a ELSE b
Highest(a, b) == IF a >= b THEN a ELSE b

MutUnclamped(level, r) ==
  IF r.to # FullyAutonomous THEN r.to ELSE Lowest(level + r.by, Observer)

\* Never a promotion: a level below the one to fall to stays.
ReduceAutonomy(level, r) ==
  IF r.to # FullyAutonomous THEN Highest(level, r.to) ELSE Lowest(level + r.by, Observer)

\* Phase 1: an SLO that could not be evaluated has no status in this cycle.
Observe(value) ==
  [s \in SLOs |-> IF value[s] = NoData THEN "unknown"
                  ELSE IF value[s] >= Target[s] THEN "healthy" ELSE "breach"]

\* The status of an SLO that could not be evaluated is carried forward.
Carried(before, seen) ==
  [s \in SLOs |-> IF seen[s] = "unknown" THEN before[s] ELSE seen[s]]

MutClearsUnread(decided, seen) ==
  {k \in decided : k \in SLOs => seen[k] = "breach"}

\* Decisions of recovered SLOs are dropped.
KeptDecisions(decided, seen) ==
  {k \in decided : k \in SLOs => seen[k] # "healthy"}

MutReleasesRetiredOnly(governed, threshold) ==
  {t \in governed : threshold[t] # "absent"}

\* Thresholds that re-armed or were retired leave governance.
StillGoverned(governed, threshold) ==
  {t \in governed : threshold[t] = "disarmed"}

MutActsOnAll(breaching, decided) == breaching

\* Breaches that have no governance decision yet.
Undecided(breaching, decided) == breaching \ decided

----------------------------------------------------------------------------
(* The cycle *)

\* Phases 2 to 3: `fresh' are the breaches new in this cycle.  All open ones
\* count toward the reduction, but only a new one triggers it and only those
\* without a decision get one.  The verdict may be refused by core.
Govern(seen, value, threshold) ==
  LET fired == {t \in Thresholds : /\ toggle
                                   /\ mem.threshold[t] # "disarmed"
                                   /\ threshold[t] = "disarmed"}
      open == {t \in mem.decided \cap Thresholds : toggle /\ threshold[t] = "disarmed"}
      fresh == {s \in SLOs : seen[s] = "breach" /\ mem.status[s] # "breach"} \cup fired
      breaching == {s \in SLOs : seen[s] = "breach"} \cup open \cup fired
      severity == [k \in Keys |-> IF k \in fired THEN "high"
                                  ELSE IF k \in fresh THEN ClassifySeverity(k, value[k])
                                  ELSE mem.severity[k]]
      undecided == Undecided(breaching, mem.decided)
      acts == fresh # {} /\ undecided # {}
      level == IF acts THEN ReduceAutonomy(mem.level, Reduction(breaching, severity))
               ELSE mem.level
      decided == IF acts THEN mem.decided \cup undecided ELSE mem.decided
      governed == mem.governed \cup open \cup fired
      still == StillGoverned(governed, threshold)
      kept == KeptDecisions(decided, seen) \ (governed \ still)
      over == {k \in Keys : IF k \in SLOs THEN seen[k] = "healthy"
                            ELSE threshold[k] # "disarmed"}
  IN  /\ mem' = [status    |-> Carried(mem.status, seen),
                 decided   |-> kept,
                 severity  |-> [k \in Keys |-> IF k \in decided \ kept THEN "none"
                                               ELSE severity[k]],
                 level     |-> level,
                 threshold |-> threshold,
                 governed  |-> still]
      /\ \E accepted \in BOOLEAN :
           /\ published' = IF acts /\ accepted THEN level ELSE published
           /\ acted' = [k \in Keys |-> IF k \in over THEN 0
                                       ELSE IF acts /\ accepted /\ k \in undecided
                                            THEN acted[k] + 1 ELSE acted[k]]

\* A manifest list was served: every SLO and every due threshold is evaluated.
Cycle ==
  /\ pc = "due"
  /\ \E value \in [SLOs -> Readings], threshold \in [Thresholds -> ThresholdState] :
       Govern(Observe(value), value, threshold)
  /\ pc' = "ran"
  /\ UNCHANGED <<toggle, stored, faults>>

\* No manifests: the cycle returns at once and the runner still stores.
IdleCycle ==
  /\ pc = "due"
  /\ pc' = "ran"
  /\ UNCHANGED <<toggle, mem, stored, published, acted, faults>>

----------------------------------------------------------------------------
(* The runner *)

\* The result of the PUT is not looked at.
Put ==
  \/ stored' = mem /\ faults' = faults
  \/ stored' = stored /\ faults < MaxFaults /\ faults' = faults + 1

Persist ==
  /\ pc = "ran" /\ Put /\ pc' = "due"
  /\ UNCHANGED <<toggle, mem, published, acted>>

GracefulStop ==
  /\ pc = "due" /\ Put /\ pc' = "off"
  /\ UNCHANGED <<toggle, mem, published, acted>>

Crash ==
  /\ pc # "off" /\ faults < MaxFaults
  /\ pc' = "off" /\ faults' = faults + 1
  /\ UNCHANGED <<toggle, mem, stored, published, acted>>

\* A GET that fails starts the module from nothing.
Start ==
  /\ pc = "off" /\ pc' = "due"
  /\ toggle' \in BOOLEAN
  /\ \/ mem' = stored /\ faults' = faults
     \/ RestoreMayFail /\ faults < MaxFaults /\ mem' = Empty /\ faults' = faults + 1
  /\ UNCHANGED <<stored, published, acted>>

Next == Cycle \/ IdleCycle \/ Persist \/ GracefulStop \/ Crash \/ Start

Spec == Init /\ [][Next]_vars

----------------------------------------------------------------------------
(* Properties *)

\* A judgment SLO the module holds to be breached has had its governance
\* decision, through unreadable SLOs, lost writes, crashes and lost states:
\* no breach is taken for an old one that nobody acted on.
BreachGoverned == \A s \in SLOs : mem.status[s] = "breach" => s \in mem.decided

\* A decision lasts no longer than its breach: an SLO's until it is seen
\* healthy, a threshold's until it re-arms or is retired.  A stale decision
\* would let the next breach of that key pass without a reduction.
DecisionFresh ==
  \A k \in mem.decided :
    IF k \in SLOs THEN mem.status[k] = "breach"
    ELSE k \in mem.governed /\ mem.threshold[k] = "disarmed"

\* While a breach is governed the service is not fully autonomous.
GovernedIsReduced == mem.decided # {} => mem.level > FullyAutonomous

\* While the process runs no cycle raises the service's level, whatever
\* recovers, is retired or is breached again.
LevelRatchet == [][pc # "off" /\ pc' # "off" => mem'.level >= mem.level]_vars

\* Core gets at most one autonomy_change verdict for one breach of one key,
\* however often it flaps out of sight or other keys breach beside it, while
\* neither a crash nor core makes the module forget.
OncePerBreach == faults = 0 => \A k \in Keys : acted[k] <= 1

\* README, measure: autonomy is a one-way ratchet.  The level that the verdicts
\* announce never goes back up while the module's memory survives.
PublishedRatchet == [][faults' = 0 => published' >= published]_vars

\* The same of the level the runner keeps in core.
StoredRatchet == [][stored'.level >= stored.level]_vars

==============================================================================
