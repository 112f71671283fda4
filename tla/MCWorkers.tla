------------------------------ MODULE MCWorkers ------------------------------
(* The workers' smaller protocols, one of them per behaviour: they share no   *)
(* variable, so their state spaces add up instead of multiplying.             *)
EXTENDS OnCall, SafeActions, CorrelateSession, LearnWorkers,
    ThresholdPhase

VARIABLE component

mcVars == <<component, onCallVars, safeVars, sessionVars, learnVars, thresholdVars>>

MCInit ==
    /\ component \in {"oncall", "actions", "correlate", "outcome", "retrospective", "thresholds"}
    /\ OnCallInit /\ SafeInit /\ SessionInit /\ LearnInit /\ ThresholdInit
    /\ component # "thresholds" => declared = {}
    /\ component \notin {"outcome", "retrospective"} => ~newestFirst

\* One component runs, the variables of the others stay.
OnCallRuns ==
    component = "oncall" /\ UNCHANGED <<component, safeVars, sessionVars, learnVars, thresholdVars>>
ActionsRun ==
    component = "actions" /\ UNCHANGED <<component, onCallVars, sessionVars, learnVars, thresholdVars>>
SessionRuns ==
    component = "correlate" /\ UNCHANGED <<component, onCallVars, safeVars, learnVars, thresholdVars>>
LearnRuns == UNCHANGED <<component, onCallVars, safeVars, sessionVars, thresholdVars>>
OutcomeRuns == component = "outcome" /\ LearnRuns /\ UNCHANGED shots
RetrospectiveRuns == component = "retrospective" /\ LearnRuns /\ UNCHANGED verdicts
ThresholdsRun ==
    component = "thresholds" /\ UNCHANGED <<component, onCallVars, safeVars, sessionVars, learnVars>>

MCNext ==
    \/ OnCallRuns /\ OnCallNext
    \/ ActionsRun /\ SafeNext
    \/ SessionRuns /\ SessionNext
    \/ (OutcomeRuns \/ RetrospectiveRuns) /\ LearnNext
    \/ ThresholdsRun /\ ThresholdNext

\* The components' fairness, for the component that runs.
MCFairness ==
    /\ WF_mcVars(\/ OnCallRuns /\ \E i \in Incidents : RunnerStep(i)
                 \/ SessionRuns /\ SessionStep
                 \/ OutcomeRuns /\ OutcomeStep
                 \/ RetrospectiveRuns /\ RetroStep
                 \/ ThresholdsRun /\ PhaseStep)
    /\ WF_mcVars(\/ OnCallRuns /\ ClockTick
                 \/ SessionRuns /\ SessionTick
                 \/ OutcomeRuns /\ Aging)
    /\ SF_mcVars(ThresholdsRun /\ StartRun)

MCSpec == MCInit /\ [][MCNext]_mcVars /\ MCFairness

\* Every variable of the five components keeps its type.
WorkersTypeOK == OnCallTypeOK /\ SafeTypeOK /\ SessionTypeOK /\ LearnTypeOK /\ ThresholdTypeOK

\* No escalation step fires before its delay, @here reaches the channel once, no POST
\* that was answered as done is repeated, a breach closes its window in the cycle that
\* reads it, and no snapshot gets two retrospectives in one life.
NothingEarlyOrTwice ==
    StepsInOrder /\ HereOnce /\ RetriesStop /\ BreachClosesWindow /\ RetrospectsOnce

Step(after, notify, target) ==
    [after |-> after, notify |-> notify, target |-> target, valid |-> TRUE]
Oncall(n, weekly, weekday, tick, overrides) ==
    [n |-> n, weekly |-> weekly, dayNamed |-> weekly, weekday |-> weekday, tick |-> tick,
     overrides |-> overrides, channel |-> TRUE, backends |-> {"ntfy", "slack_dm"}]
Override(start, end, user) == [start |-> start, end |-> end, user |-> user]

MCEscalations ==
    { <<Step(0, "ntfy", "none"), Step(0, "slack_channel", "none"),
        Step(2, "slack_channel", "none"), Step(1, "slack_dm", "next_oncall")>>,
      <<[Step(0, "ntfy", "none") EXCEPT !.valid = FALSE]>>,
      <<Step(0, "slack_dm", "none")>>,
      <<Step(1, "phone", "none"), Step(3, "ntfy", "engineering_manager")>> }

MCSchedules ==
    { Oncall(2, TRUE, 4, 1, << >>),
      Oncall(3, FALSE, 0, 1, <<Override(2, 4, 1), Override(3, 6, 2)>>),
      [Oncall(2, FALSE, 0, 0, <<Override(25, 27, 2)>>) EXCEPT !.dayNamed = TRUE],
      Oncall(0, FALSE, 0, 0, << >>) }

Webhook(cooldown, attempts, verify) ==
    [cooldown |-> cooldown, stub |-> FALSE, secretSet |-> TRUE, allowed |-> TRUE,
     attempts |-> attempts, verify |-> verify]

MCPolicies ==
    { Webhook(2, 2, FALSE), Webhook(1, 1, TRUE), Webhook(0, 1, FALSE),
      [Webhook(2, 1, FALSE) EXCEPT !.stub = TRUE] }
=============================================================================
