-------------------------------- MODULE Answers --------------------------------
(***************************************************************************)
(* What the functions that answer from their arguments promise together,   *)
(* one property for each part of the system: each conjunct is about the    *)
(* function its own module describes, and about the call now made of it.   *)
(***************************************************************************)
EXTENDS DeployGate, ObserveCycle, Dependencies, Hysteresis, AgentQuality, Correlation,
        CorrelateEvidence, LearnApply

\* What is put together from parts comes out right in whatever order they come: a
\* condition has the value it is meant to have, a worse trend is no milder, dependencies
\* are found from either side whatever fails and merged without regard to order, and
\* events are kept once, in groups that share them out, with urgencies and a prompt that
\* follow the severity.
AssembledAnswers ==
  /\ ConditionsMeanWhatTheySay /\ LowerIsNoMilder
  /\ DiscoveryIsMerged /\ GraphHasWhatIsDeclared
  /\ EventsAreKeptOnce /\ GroupsPartition /\ UrgencyIsMonotone /\ PromptKeepsUrgent

\* Measure's figures mean what they say: a breach is raised once per episode and a
\* restored state never silences one by accident, quantiles and windows are counted
\* honestly, and what agents did is taken, scored, reported and corrected once.
MeasureAnswers ==
  /\ RaisedOncePerEpisode /\ CorruptNeverSilences /\ QuantileIsHonest
  /\ SampleKeepsBoundsApart /\ WindowsAreCounted
  /\ IntakeTakesEachOnce /\ AcknowledgedIsQueued /\ PipelineReportsWhatItStored
  /\ FailuresPromote /\ OverrideIsWhole /\ RatesAgree

\* Correlation explains what it was given: the situation follows the groups, evidence
\* is exact, blame and parents are grounded, and one failed query, reply or contract
\* spoils nothing else.
CorrelateAnswers ==
  /\ ServeFollowsSituation
  /\ DriftIsExact /\ ContractsStandAlone /\ BlameIsGrounded /\ ParentAfterChildren
  /\ GroupsAreExplained /\ GatherIsLocal

\* What an operator is told and decides: the gate follows the budgets and the suspicion
\* the burn, no service's failure or figures touch another's, the commands agree and the
\* blast radius is what can reach the service; what learn recommends follows from the
\* incident, what the operator decided is what is applied, the manifests are never
\* overwritten unasked, and a pull request comes last.
OperatorAnswers ==
  /\ GateClosesWithBudget /\ CloserScoresHigher
  /\ CycleKeepsServicesApart /\ SignalsKeepServicesApart /\ CommandsAgree /\ BlastIsReachability
  /\ RecommendationsAreGrounded /\ WalkKeepsDecisions /\ ApplyIsSafe /\ PullRequestIsLast
================================================================================
