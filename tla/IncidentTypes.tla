---------------------------- MODULE IncidentTypes ----------------------------
(***************************************************************************)
(* The vocabulary of the respond worker: incident states, agent roles, the *)
(* pipeline and the part of IncidentContext its control flow reads.        *)
(* Indices start at 1 here: step k is PIPELINE[k - 1] of the code, and     *)
(* `done' counts completed steps (last_completed_step_index + 1; None = 0).*)
(***************************************************************************)
EXTENDS Naturals, Sequences

TERMINAL_STATES == {"RESOLVED", "ESCALATED", "FAILED"}

IncidentState ==
  {"TRIGGERED", "TRIAGING", "INVESTIGATING", "REMEDIATING", "AWAITING_APPROVAL"}
    \cup TERMINAL_STATES

AgentRole == {"triage", "investigation", "communication", "remediation"}

\* The agents of each step; the two of step 2 run concurrently.
PIPELINE == << {"triage"}, {"investigation", "communication"},
               {"remediation"}, {"communication"} >>

LastStep == Len(PIPELINE)

\* _STEP_STATES: the state an incident shows while a step runs.
StepState == << "TRIAGING", "INVESTIGATING", "REMEDIATING", "REMEDIATING" >>

(***************************************************************************)
(* An IncidentContext.  `action' is the remediation result: "unset" when   *)
(* context.remediation is None, "none" when its proposed_action is None    *)
(* (nothing proposed, or a hallucinated name rejected), "act" otherwise.   *)
(* `takeover' says that the verdict chain holds a degraded verdict, which  *)
(* is tagged human-takeover-required; `pending' is                         *)
(* metadata["escalation_pending"].                                         *)
(***************************************************************************)
IncidentContext ==
  [state : IncidentState, done : 0..LastStep, pending : BOOLEAN,
   takeover : BOOLEAN, action : {"unset", "none", "act"},
   approval : BOOLEAN, executed : BOOLEAN]

NewContext ==
  [state |-> "TRIGGERED", done |-> 0, pending |-> FALSE, takeover |-> FALSE,
   action |-> "unset", approval |-> FALSE, executed |-> FALSE]

\* What an observer of the incident sees: working, paused, or how it ended.
PublicState(s) ==
  IF s \in TERMINAL_STATES \cup {"AWAITING_APPROVAL"} THEN s ELSE "OPEN"
==============================================================================
