----------------------- MODULE MeasureGovernanceProofs -----------------------
(***************************************************************************)
(* For every set of SLOs and thresholds and any number of lost writes,     *)
(* crashes and failed restores: the types, that every breach held to be    *)
(* open is governed, that decisions are fresh, that no breach is raised    *)
(* twice under one key, and that the level never rises, neither in a       *)
(* running process nor as published nor, when restores succeed, as stored. *)
(***************************************************************************)
EXTENDS MeasureGovernance, TLAPS

\* What holds of the state in memory and of the one in core alike, so that a
\* restore brings back what a cycle may start from.
Governed(m) ==
  /\ \A s \in SLOs : m.status[s] = "breach" => s \in m.decided
  /\ \A s \in SLOs : s \in m.decided => m.status[s] = "breach"
  /\ \A t \in Thresholds : t \in m.decided => t \in m.governed /\ m.threshold[t] = "disarmed"
  /\ m.decided # {} => m.level > FullyAutonomous

GovernanceInv == TypeOK /\ Governed(mem) /\ Governed(stored)

----------------------------------------------------------------------------
(* The pure functions *)

LEMMA ReductionType ==
  ASSUME NEW breaching, NEW severity
  PROVE  Reduction(breaching, severity)
           \in [to : {FullyAutonomous, Advisor, Observer}, by : {1, 2}]
BY DEF Reduction, FullyAutonomous, Advisor, Observer

\* However it is computed a reduction ends lower on the ladder, on the ladder.
LEMMA ReduceLowers ==
  ASSUME NEW level \in Level,
         NEW r \in [to : {FullyAutonomous, Advisor, Observer}, by : {1, 2}]
  PROVE  /\ ReduceAutonomy(level, r) \in Level
         /\ ReduceAutonomy(level, r) >= level
         /\ ReduceAutonomy(level, r) > FullyAutonomous
BY DEF ReduceAutonomy, Lowest, Highest, Level, FullyAutonomous, Advisor, Observer

LEMMA ObserveType ==
  ASSUME NEW value \in [SLOs -> Readings]
  PROVE  Observe(value) \in [SLOs -> {"unknown", "healthy", "breach"}]
BY DEF Observe

LEMMA ClassifyType ==
  ASSUME NEW s, NEW value
  PROVE  ClassifySeverity(s, value) \in {"none", "low", "high", "critical"}
BY DEF ClassifySeverity

LEMMA EmptyGoverned == Empty \in ModuleState /\ Governed(Empty)
BY MeasureAssumption
   DEF Empty, ModuleState, Governed, Level, ThresholdState, FullyAutonomous, Observer

----------------------------------------------------------------------------
(* One cycle *)

\* A cycle leaves a governed state of the right type and a level no higher
\* on the side of autonomy.
LEMMA GovernStep ==
  ASSUME TypeOK, Governed(mem), NEW value \in [SLOs -> Readings],
         NEW threshold \in [Thresholds -> ThresholdState],
         Govern(Observe(value), value, threshold)
  PROVE  /\ mem' \in ModuleState /\ Governed(mem)'
         /\ mem'.level >= mem.level
         /\ published' \in Level /\ acted' \in [Keys -> Nat]
<1> DEFINE seen == Observe(value)
           fired == {t \in Thresholds : /\ toggle
                                        /\ mem.threshold[t] # "disarmed"
                                        /\ threshold[t] = "disarmed"}
           open == {t \in mem.decided \cap Thresholds : toggle /\ threshold[t] = "disarmed"}
           fresh == {s \in SLOs : seen[s] = "breach" /\ mem.status[s] # "breach"} \cup fired
           breaching == {s \in SLOs : seen[s] = "breach"} \cup open \cup fired
           severity == [k \in Keys |-> IF k \in fired THEN "high"
                                       ELSE IF k \in fresh THEN ClassifySeverity(k, value[k])
                                       ELSE mem.severity[k]]
           undecided == Undecided(breaching, mem.decided)
           acts == fresh # {} /\ undecided # {}
           level == IF acts THEN ReduceAutonomy(mem.level, Reduction(breaching, severity))
                    ELSE mem.level
           decided == IF acts THEN mem.decided \cup undecided ELSE mem.decided
           governed == mem.governed \cup open \cup fired
           still == StillGoverned(governed, threshold)
           kept == KeptDecisions(decided, seen) \ (governed \ still)
           over == {k \in Keys : IF k \in SLOs THEN seen[k] = "healthy"
                                 ELSE threshold[k] # "disarmed"}
           after == [status    |-> Carried(mem.status, seen),
                     decided   |-> kept,
                     severity  |-> [k \in Keys |-> IF k \in decided \ kept THEN "none"
                                                   ELSE severity[k]],
                     level     |-> level,
                     threshold |-> threshold,
                     governed  |-> still]
<1>1. /\ mem' = after
      /\ \E accepted \in BOOLEAN :
           /\ published' = IF acts /\ accepted THEN level ELSE published
           /\ acted' = [k \in Keys |-> IF k \in over THEN 0
                                       ELSE IF acts /\ accepted /\ k \in undecided
                                            THEN acted[k] + 1 ELSE acted[k]]
  BY DEF Govern
<1>2. seen \in [SLOs -> {"unknown", "healthy", "breach"}]
  BY ObserveType
<1>3. /\ mem.status \in [SLOs -> {"unknown", "healthy", "breach"}]
      /\ mem.decided \subseteq Keys /\ mem.governed \subseteq Thresholds
      /\ mem.severity \in [Keys -> {"none", "low", "high", "critical"}]
      /\ mem.level \in Level
      /\ mem.threshold \in [Thresholds -> ThresholdState]
  BY DEF TypeOK, ModuleState
<1>4. level \in Level /\ level >= mem.level /\ (acts => level > FullyAutonomous)
  <2>1. Reduction(breaching, severity)
          \in [to : {FullyAutonomous, Advisor, Observer}, by : {1, 2}]
    BY ReductionType
  <2>2. LET l == ReduceAutonomy(mem.level, Reduction(breaching, severity))
        IN  l \in Level /\ l >= mem.level /\ l > FullyAutonomous
    BY <1>3, <2>1, ReduceLowers
  <2>3. mem.level >= mem.level
    BY <1>3 DEF Level, FullyAutonomous, Observer
  <2> QED BY <1>3, <2>2, <2>3
<1>5. fired \subseteq Thresholds /\ open \subseteq Thresholds /\ governed \subseteq Thresholds
  BY <1>3
<1>6. still \subseteq Thresholds /\ kept \subseteq decided /\ decided \subseteq Keys
  BY <1>3, <1>5 DEF StillGoverned, KeptDecisions, Undecided, Keys
<1>7. severity \in [Keys -> {"none", "low", "high", "critical"}]
  BY <1>3, ClassifyType
<1>8. Carried(mem.status, seen) \in [SLOs -> {"unknown", "healthy", "breach"}]
  BY <1>2, <1>3 DEF Carried
<1> HIDE DEF severity, level
<1>9. mem' \in ModuleState
  BY <1>1, <1>4, <1>6, <1>7, <1>8 DEF ModuleState
<1>10. Governed(mem)'
  <2>1. \A s \in SLOs : mem'.status[s] = "breach" => s \in mem'.decided
    <3> SUFFICES ASSUME NEW s \in SLOs, Carried(mem.status, seen)[s] = "breach"
                 PROVE  s \in kept
      BY <1>1
    <3>1. s \notin Thresholds
      BY MeasureAssumption
    <3>2. seen[s] # "healthy"
      BY <1>2 DEF Carried
    <3>3. s \in decided
      <4>1. CASE mem.status[s] = "breach"
        BY <4>1 DEF Governed
      <4>2. CASE mem.status[s] # "breach"
        <5>1. seen[s] = "breach"
          BY <4>2 DEF Carried
        <5>2. s \in fresh /\ s \in breaching
          BY <4>2, <5>1
        <5> QED BY <5>2 DEF Undecided
      <4> QED BY <4>1, <4>2
    <3> QED BY <1>5, <3>1, <3>2, <3>3 DEF KeptDecisions
  <2>2. \A s \in SLOs : s \in mem'.decided => mem'.status[s] = "breach"
    <3> SUFFICES ASSUME NEW s \in SLOs, s \in kept
                 PROVE  Carried(mem.status, seen)[s] = "breach"
      BY <1>1
    <3>1. s \notin Thresholds
      BY MeasureAssumption
    <3>2. s \in decided /\ seen[s] # "healthy"
      BY DEF KeptDecisions
    <3>3. s \in mem.decided \/ seen[s] = "breach"
      BY <1>5, <3>1, <3>2 DEF Undecided
    <3> QED BY <1>2, <3>2, <3>3 DEF Carried, Governed
  <2>3. \A t \in Thresholds :
          t \in mem'.decided => t \in mem'.governed /\ mem'.threshold[t] = "disarmed"
    <3> SUFFICES ASSUME NEW t \in Thresholds, t \in kept
                 PROVE  t \in still /\ threshold[t] = "disarmed"
      BY <1>1
    <3>1. t \notin SLOs
      BY MeasureAssumption
    <3>2. t \in decided /\ t \notin governed \ still
      BY DEF KeptDecisions
    <3>3. t \in governed
      BY <3>1, <3>2 DEF Undecided, Governed
    <3> QED BY <3>2, <3>3 DEF StillGoverned
  <2>4. mem'.decided # {} => mem'.level > FullyAutonomous
    <3> SUFFICES ASSUME kept # {}
                 PROVE  level > FullyAutonomous
      BY <1>1
    <3>1. CASE acts
      BY <1>4, <3>1
    <3>2. CASE ~acts
      <4>1. mem.decided # {}
        BY <1>6, <3>2
      <4>2. level = mem.level
        BY <3>2 DEF level
      <4> QED BY <4>1, <4>2 DEF Governed
    <3> QED BY <3>1, <3>2
  <2> QED BY <2>1, <2>2, <2>3, <2>4 DEF Governed
<1>11. published' \in Level
  BY <1>1, <1>4 DEF TypeOK
<1>12. acted' \in [Keys -> Nat]
  <2>1. PICK accepted \in BOOLEAN :
          acted' = [k \in Keys |-> IF k \in over THEN 0
                                  ELSE IF acts /\ accepted /\ k \in undecided
                                       THEN acted[k] + 1 ELSE acted[k]]
    BY <1>1
  <2>2. acted \in [Keys -> Nat]
    BY DEF TypeOK
  <2> HIDE DEF over, acts, undecided
  <2>3. SUFFICES ASSUME NEW k \in Keys
                 PROVE  (IF k \in over THEN 0
                         ELSE IF acts /\ accepted /\ k \in undecided
                              THEN acted[k] + 1 ELSE acted[k]) \in Nat
    BY <2>1
  <2>4. acted[k] \in Nat /\ acted[k] + 1 \in Nat
    BY <2>2
  <2> QED BY <2>4
<1> QED BY <1>1, <1>4, <1>9, <1>10, <1>11, <1>12

----------------------------------------------------------------------------
(* The invariant *)

LEMMA InitGovernance == Init => GovernanceInv
<1> SUFFICES ASSUME Init PROVE GovernanceInv
  OBVIOUS
<1>1. mem = Empty /\ stored = Empty
  BY DEF Init
<1>2. mem \in ModuleState /\ stored \in ModuleState /\ Governed(mem) /\ Governed(stored)
  BY <1>1, EmptyGoverned
<1>3. FullyAutonomous \in Level
  BY DEF Level, FullyAutonomous, Observer
<1> QED BY <1>2, <1>3 DEF Init, GovernanceInv, TypeOK

LEMMA NextGovernance == GovernanceInv /\ [Next]_vars => GovernanceInv'
<1> SUFFICES ASSUME GovernanceInv, [Next]_vars PROVE GovernanceInv'
  OBVIOUS
<1> USE DEF GovernanceInv
<1>1. CASE Cycle
  <2>1. PICK value \in [SLOs -> Readings], threshold \in [Thresholds -> ThresholdState] :
          Govern(Observe(value), value, threshold)
    BY <1>1 DEF Cycle
  <2>2. /\ mem' \in ModuleState /\ Governed(mem)'
        /\ published' \in Level /\ acted' \in [Keys -> Nat]
    BY <2>1, GovernStep
  <2>3. UNCHANGED <<toggle, stored, faults>> /\ pc' = "ran"
    BY <1>1 DEF Cycle
  <2> QED BY <2>2, <2>3 DEF TypeOK, Governed
<1>2. CASE IdleCycle
  BY <1>2 DEF IdleCycle, TypeOK, Governed
<1>3. CASE Persist
  BY <1>3 DEF Persist, Put, TypeOK, Governed
<1>4. CASE GracefulStop
  BY <1>4 DEF GracefulStop, Put, TypeOK, Governed
<1>5. CASE Crash
  BY <1>5 DEF Crash, TypeOK, Governed
<1>6. CASE Start
  <2>1. mem' = stored \/ mem' = Empty
    BY <1>6 DEF Start
  <2>2. mem' \in ModuleState /\ Governed(mem')
    BY <2>1, EmptyGoverned DEF TypeOK
  <2>3. Governed(mem)' /\ Governed(stored)'
    BY <1>6, <2>2 DEF Start, Governed
  <2>4. TypeOK'
    BY <1>6, <2>2 DEF Start, TypeOK
  <2> QED BY <2>3, <2>4
<1>7. CASE UNCHANGED vars
  BY <1>7 DEF vars, TypeOK, Governed
<1> QED BY <1>1, <1>2, <1>3, <1>4, <1>5, <1>6, <1>7 DEF Next

LEMMA GovernanceInvariant == Spec => []GovernanceInv
BY InitGovernance, NextGovernance, PTL DEF Spec

----------------------------------------------------------------------------
(* What core was told *)

\* Core has at most one verdict for the breach now open, the decision it tells of is
\* in memory, and the level it announced is not below the one in memory.
Recorded ==
  /\ \A k \in Keys : acted[k] <= 1 /\ (acted[k] > 0 => k \in mem.decided)
  /\ published <= mem.level

\* Without a fault the stored state is the one in memory whenever a restart may
\* exchange them.
RecordInv ==
  faults = 0 => Recorded /\ (pc # "ran" => stored = mem)

LEMMA RecordCycle ==
  ASSUME TypeOK, Recorded, NEW value \in [SLOs -> Readings],
         NEW threshold \in [Thresholds -> ThresholdState],
         Govern(Observe(value), value, threshold)
  PROVE  Recorded' /\ published' >= published
<1> DEFINE seen == Observe(value)
           fired == {t \in Thresholds : /\ toggle
                                        /\ mem.threshold[t] # "disarmed"
                                        /\ threshold[t] = "disarmed"}
           open == {t \in mem.decided \cap Thresholds : toggle /\ threshold[t] = "disarmed"}
           fresh == {s \in SLOs : seen[s] = "breach" /\ mem.status[s] # "breach"} \cup fired
           breaching == {s \in SLOs : seen[s] = "breach"} \cup open \cup fired
           severity == [k \in Keys |-> IF k \in fired THEN "high"
                                       ELSE IF k \in fresh THEN ClassifySeverity(k, value[k])
                                       ELSE mem.severity[k]]
           undecided == Undecided(breaching, mem.decided)
           acts == fresh # {} /\ undecided # {}
           level == IF acts THEN ReduceAutonomy(mem.level, Reduction(breaching, severity))
                    ELSE mem.level
           decided == IF acts THEN mem.decided \cup undecided ELSE mem.decided
           governed == mem.governed \cup open \cup fired
           still == StillGoverned(governed, threshold)
           kept == KeptDecisions(decided, seen) \ (governed \ still)
           over == {k \in Keys : IF k \in SLOs THEN seen[k] = "healthy"
                                 ELSE threshold[k] # "disarmed"}
<1>1. mem'.decided = kept /\ mem'.level = level
  BY DEF Govern
<1>2. PICK accepted \in BOOLEAN :
        /\ published' = IF acts /\ accepted THEN level ELSE published
        /\ acted' = [k \in Keys |-> IF k \in over THEN 0
                                    ELSE IF acts /\ accepted /\ k \in undecided
                                         THEN acted[k] + 1 ELSE acted[k]]
  BY DEF Govern
<1>3. /\ published \in Level /\ mem.level \in Level /\ acted \in [Keys -> Nat]
      /\ mem.governed \subseteq Thresholds
  BY DEF TypeOK, ModuleState
<1>4. level \in Level /\ level >= mem.level
  <2>1. Reduction(breaching, severity)
          \in [to : {FullyAutonomous, Advisor, Observer}, by : {1, 2}]
    BY ReductionType
  <2>2. LET l == ReduceAutonomy(mem.level, Reduction(breaching, severity))
        IN  l \in Level /\ l >= mem.level
    BY <1>3, <2>1, ReduceLowers
  <2>3. mem.level >= mem.level
    BY <1>3 DEF Level, FullyAutonomous, Observer
  <2> QED BY <1>3, <2>2, <2>3
<1>5. \A k \in Keys : k \in decided /\ k \notin over => k \in kept
  <2> SUFFICES ASSUME NEW k \in Keys, k \in decided, k \notin over PROVE k \in kept
    OBVIOUS
  <2>1. CASE k \in SLOs
    <3>1. k \notin governed
      BY <1>3, <2>1, MeasureAssumption
    <3> QED BY <2>1, <3>1 DEF KeptDecisions
  <2>2. CASE k \notin SLOs
    BY <2>2 DEF KeptDecisions, StillGoverned
  <2> QED BY <2>1, <2>2
<1>6. \A k \in undecided : k \notin mem.decided
  BY DEF Undecided
<1> HIDE DEF level, over, kept, undecided
<1>7. ASSUME NEW k \in Keys
      PROVE  acted'[k] <= 1 /\ (acted'[k] > 0 => k \in mem'.decided)
  <2>1. acted[k] \in Nat /\ acted[k] <= 1 /\ (acted[k] > 0 => k \in mem.decided)
    BY <1>3 DEF Recorded
  <2>2. CASE k \in over
    BY <1>2, <2>2
  <2>3. CASE k \notin over /\ acts /\ accepted /\ k \in undecided
    <3>1. acted[k] = 0 /\ acted'[k] = acted[k] + 1
      BY <1>2, <1>6, <2>1, <2>3
    <3>2. k \in kept
      BY <1>5, <2>3
    <3> QED BY <1>1, <3>1, <3>2
  <2>4. CASE k \notin over /\ ~(acts /\ accepted /\ k \in undecided)
    <3>1. acted'[k] = acted[k]
      BY <1>2, <2>4
    <3>2. acted[k] > 0 => k \in kept
      BY <1>5, <2>1, <2>4
    <3> QED BY <1>1, <2>1, <3>1, <3>2
  <2> QED BY <2>2, <2>3, <2>4
<1>8. published' <= mem'.level /\ published' >= published
  BY <1>1, <1>2, <1>3, <1>4 DEF Recorded, Level, FullyAutonomous, Observer
<1> QED BY <1>7, <1>8 DEF Recorded

LEMMA InitRecord == Init => RecordInv
BY DEF Init, RecordInv, Recorded, Empty, FullyAutonomous

LEMMA NextRecord ==
  ASSUME TypeOK, RecordInv, [Next]_vars
  PROVE  RecordInv' /\ (faults' = 0 => published' >= published)
<1>1. published >= published /\ (faults' = 0 => faults = 0)
  BY DEF TypeOK, Level, FullyAutonomous, Observer, Next, Cycle, IdleCycle, Persist, Put,
         GracefulStop, Crash, Start, vars
<1>2. CASE Cycle
  <2>1. PICK value \in [SLOs -> Readings], threshold \in [Thresholds -> ThresholdState] :
          Govern(Observe(value), value, threshold)
    BY <1>2 DEF Cycle
  <2>2. faults' = faults /\ pc' = "ran"
    BY <1>2 DEF Cycle
  <2>3. Recorded => Recorded' /\ published' >= published
    BY <2>1, RecordCycle
  <2> QED BY <2>2, <2>3 DEF RecordInv
<1>3. CASE IdleCycle
  BY <1>1, <1>3 DEF IdleCycle, RecordInv, Recorded
<1>4. CASE Persist \/ GracefulStop
  <2>1. faults' = 0 => stored' = mem
    BY <1>4 DEF Persist, GracefulStop, Put, TypeOK
  <2>2. UNCHANGED <<mem, published, acted>>
    BY <1>4 DEF Persist, GracefulStop
  <2> QED BY <1>1, <2>1, <2>2 DEF RecordInv, Recorded
<1>5. CASE Crash
  BY <1>5 DEF Crash, RecordInv, TypeOK
<1>6. CASE Start
  <2>1. faults' = 0 => mem' = mem /\ stored' = stored /\ stored = mem
    BY <1>1, <1>6 DEF Start, RecordInv, TypeOK
  <2>2. UNCHANGED <<published, acted>>
    BY <1>6 DEF Start
  <2> QED BY <1>1, <2>1, <2>2 DEF RecordInv, Recorded
<1>7. CASE UNCHANGED vars
  BY <1>1, <1>7 DEF vars, RecordInv, Recorded
<1> QED BY <1>2, <1>3, <1>4, <1>5, <1>6, <1>7 DEF Next

LEMMA RecordInvariant == Spec => [](TypeOK /\ RecordInv)
<1>1. GovernanceInv => TypeOK
  BY DEF GovernanceInv
<1> QED BY <1>1, GovernanceInvariant, InitRecord, NextRecord, PTL DEF Spec

----------------------------------------------------------------------------
(* The theorems *)

\* Every variable of the measure module's model keeps its type.
THEOREM TypeCorrect == Spec => []TypeOK
<1>1. GovernanceInv => TypeOK
  BY DEF GovernanceInv
<1> QED BY <1>1, GovernanceInvariant, PTL

\* _detect_transitions compares with a status that is never a breach nobody
\* decided on, whatever cycle, store or restore went wrong before.
THEOREM EveryBreachGoverned == Spec => []BreachGoverned
<1>1. GovernanceInv => BreachGoverned
  BY DEF GovernanceInv, Governed, BreachGoverned
<1> QED BY <1>1, GovernanceInvariant, PTL

\* No decision outlives its breach, so _breach_decisions silences no later one.
THEOREM DecisionsFresh == Spec => []DecisionFresh
<1>1. GovernanceInv => DecisionFresh
  BY DEF GovernanceInv, Governed, DecisionFresh, TypeOK, ModuleState, Keys
<1> QED BY <1>1, GovernanceInvariant, PTL

\* A service with a governed breach has lost some autonomy.
THEOREM GovernedReduced == Spec => []GovernedIsReduced
<1>1. GovernanceInv => GovernedIsReduced
  BY DEF GovernanceInv, Governed, GovernedIsReduced
<1> QED BY <1>1, GovernanceInvariant, PTL

\* The ratchet of a running process: _autonomy_levels never goes back up
\* between two starts.
THEOREM RatchetHolds == Spec => LevelRatchet
<1>1. GovernanceInv /\ [Next]_vars
        => [pc # "off" /\ pc' # "off" => mem'.level >= mem.level]_vars
  <2> SUFFICES ASSUME GovernanceInv, Next, pc # "off", pc' # "off"
               PROVE  mem'.level >= mem.level
    BY DEF vars
  <2>1. mem.level \in Level /\ mem.level >= mem.level
    BY DEF GovernanceInv, TypeOK, ModuleState, Level, FullyAutonomous, Observer
  <2>2. CASE Cycle
    <3>1. PICK value \in [SLOs -> Readings], threshold \in [Thresholds -> ThresholdState] :
            Govern(Observe(value), value, threshold)
      BY <2>2 DEF Cycle
    <3> QED BY <3>1, GovernStep DEF GovernanceInv
  <2>3. CASE IdleCycle \/ Persist
    BY <2>1, <2>3 DEF IdleCycle, Persist
  <2>4. CASE GracefulStop \/ Crash \/ Start
    BY <2>4 DEF GracefulStop, Crash, Start
  <2> QED BY <2>2, <2>3, <2>4 DEF Next
<1> QED BY <1>1, GovernanceInvariant, PTL DEF Spec, LevelRatchet

\* Without a fault core accepts at most one autonomy_change verdict for one breach of
\* one key, over graceful restarts and changes of threshold_autonomy too.
THEOREM OneVerdictPerKey == Spec => []OncePerBreach
<1>1. TypeOK /\ RecordInv => OncePerBreach
  BY DEF RecordInv, Recorded, OncePerBreach
<1> QED BY <1>1, RecordInvariant, PTL

\* Without a fault the level that the accepted verdicts announce never goes back up.
THEOREM PublishedNeverRises == Spec => PublishedRatchet
<1>1. TypeOK /\ RecordInv /\ [Next]_vars => [faults' = 0 => published' >= published]_vars
  BY NextRecord
<1> QED BY <1>1, RecordInvariant, PTL DEF Spec, PublishedRatchet

\* If the restore at start-up never fails, no store of the runner raises the level in
\* core, whichever cycles and writes a crash loses.
THEOREM StoredNeverRises ==
  ASSUME ~RestoreMayFail
  PROVE  Spec => StoredRatchet
<1> DEFINE Above == stored.level <= mem.level
<1>1. Init => Above
  BY DEF Init, Empty, FullyAutonomous
<1>2. GovernanceInv /\ Above /\ [Next]_vars => Above' /\ stored'.level >= stored.level
  <2> SUFFICES ASSUME GovernanceInv, Above, [Next]_vars
               PROVE  Above' /\ stored'.level >= stored.level
    OBVIOUS
  <2>1. /\ stored.level \in Level /\ mem.level \in Level /\ stored.level >= stored.level
        /\ mem.level >= mem.level
    BY DEF GovernanceInv, TypeOK, ModuleState, Level, FullyAutonomous, Observer
  <2>2. CASE Cycle
    <3>1. PICK value \in [SLOs -> Readings], threshold \in [Thresholds -> ThresholdState] :
            Govern(Observe(value), value, threshold)
      BY <2>2 DEF Cycle
    <3>2. mem'.level >= mem.level /\ mem' \in ModuleState
      BY <3>1, GovernStep DEF GovernanceInv
    <3>3. stored' = stored /\ mem'.level \in Level
      BY <2>2, <3>2 DEF Cycle, ModuleState
    <3> QED BY <2>1, <3>2, <3>3 DEF Level, FullyAutonomous, Observer
  <2>3. CASE IdleCycle \/ Crash \/ UNCHANGED vars
    BY <2>1, <2>3 DEF IdleCycle, Crash, vars
  <2>4. CASE Persist \/ GracefulStop
    BY <2>1, <2>4 DEF Persist, GracefulStop, Put
  <2>5. CASE Start
    BY <2>1, <2>5 DEF Start
  <2> QED BY <2>2, <2>3, <2>4, <2>5 DEF Next
<1>3. GovernanceInv /\ Above /\ [Next]_vars => [stored'.level >= stored.level]_vars
  BY <1>2
<1> QED BY <1>1, <1>2, <1>3, GovernanceInvariant, PTL DEF Spec, StoredRatchet
==============================================================================
