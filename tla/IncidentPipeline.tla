--------------------------- MODULE IncidentPipeline ---------------------------
(***************************************************************************)
(* One incident in the hands of respond's Coordinator: the four-step agent *)
(* pipeline, the gates after each step, the step timeout, the safe action  *)
(* the remediation agent may execute, and what survives a crash.           *)
(*                                                                         *)
(* Two deployments of the same code are told apart by WorkerMode.          *)
(*   CLI     every save() goes to SQLite; an operator runs `respond' once  *)
(*           and `resume' afterwards; a safe-action registry is wired.     *)
(*   worker  save() is a no-op, the runner stores the whole module state   *)
(*           after the cycle, the incident is driven again every cycle     *)
(*           while it is neither terminal nor waiting; no registry.        *)
(***************************************************************************)
EXTENDS IncidentTypes

CONSTANTS WorkerMode,   \* which deployment
          MaxRuns,      \* bound: times the CLI is started on the incident
          MaxCrashes    \* bound: times the process dies

ASSUME PipelineAssumption ==
  WorkerMode \in BOOLEAN /\ MaxRuns \in Nat /\ MaxCrashes \in Nat

VARIABLES
  policy,   \* configuration: approval and cooldown of the action, threshold > 0
  mem,      \* the IncidentContext the coordinator works on
  db,       \* the stored one: SQLite row, or component_state in core
  pc,       \* "off" no process, "idle" loaded, "running" a step, "gates" after it
  step,     \* the step running or just completed
  agent,    \* where execute() of each agent of the step is
  effects,  \* times the safe-action handler was called
  cooling,  \* the cooldown row of (action, target) is younger than the cooldown
  runs, crashes

vars == <<policy, mem, db, pc, step, agent, effects, cooling, runs, crashes>>
bounds == <<runs, crashes>>

Policy == [requiresApproval : BOOLEAN, hasCooldown : BOOLEAN, escalates : BOOLEAN]

\* An agent waits for the model, for the safe-action handler or for the arbiter's
\* governance endpoint, or has left execute(), normally or by an exception.
AgentPhase == {"absent", "model", "handler", "governance", "returned", "raised"}
NoAgents == [r \in AgentRole |-> "absent"]

TypeOK ==
  /\ policy \in Policy
  /\ mem \in IncidentContext /\ db \in IncidentContext
  /\ pc \in {"off", "idle", "running", "gates"}
  /\ step \in 1..LastStep
  /\ agent \in [AgentRole -> AgentPhase]
  /\ effects \in Nat /\ cooling \in BOOLEAN
  /\ runs \in Nat /\ crashes \in Nat

Init ==
  /\ policy \in Policy
  /\ mem = NewContext /\ db = NewContext
  /\ pc = "off" /\ step = 1 /\ agent = NoAgents
  /\ effects = 0 /\ cooling = FALSE
  /\ runs = 0 /\ crashes = 0

----------------------------------------------------------------------------
(* Persistence and the life of the process *)

\* context_store.save: durable in the CLI, a no-op in the worker.
Save(c) == db' = IF WorkerMode THEN db ELSE c

\* The coordinator returns c: the CLI process ends, the worker keeps c.
Return(c) ==
  /\ mem' = c
  /\ pc' = IF WorkerMode THEN "idle" ELSE "off"
  /\ agent' = NoAgents

\* The process starts: `respond' or `resume' loads the row, the worker its state.
Load ==
  /\ pc = "off"
  /\ WorkerMode \/ runs < MaxRuns
  /\ runs' = IF WorkerMode THEN runs ELSE runs + 1
  /\ mem' = db
  /\ pc' = "idle"
  /\ UNCHANGED <<policy, db, step, agent, effects, cooling, crashes>>

\* The runner stores get_state() after the cycle.  A failed PUT is the action
\* not being taken.
Persist ==
  /\ WorkerMode /\ pc = "idle"
  /\ db' = mem
  /\ UNCHANGED <<policy, mem, pc, step, agent, effects, cooling, bounds>>

\* The process dies between any two steps; what was not stored is gone.
Crash ==
  /\ pc # "off" /\ crashes < MaxCrashes
  /\ crashes' = crashes + 1
  /\ pc' = "off" /\ mem' = db /\ agent' = NoAgents
  /\ UNCHANGED <<policy, db, step, effects, cooling, runs>>

----------------------------------------------------------------------------
(* Entering the pipeline: Coordinator.run / _run_pipeline before the loop *)

\* The worker drives only incidents that are neither terminal nor waiting;
\* `resume' has no such test.
MutDrivesTerminal(c) == WorkerMode => c.state # "AWAITING_APPROVAL"
Driven(c) == WorkerMode => c.state \notin TERMINAL_STATES \cup {"AWAITING_APPROVAL"}

BeginStep(k, c) ==
  /\ step' = k
  /\ mem' = [c EXCEPT !.state = StepState[k]]
  /\ agent' = [r \in AgentRole |-> IF r \in PIPELINE[k] THEN "model" ELSE "absent"]
  /\ pc' = "running"

\* The final communication is skipped when the incident is escalated or failed.
SkipsLastStep(c) == c.done + 1 = LastStep /\ c.state \in {"ESCALATED", "FAILED"}

\* Nothing to run: waiting for a human, all steps done, or the last one skipped.
EnterSettled ==
  /\ pc = "idle" /\ Driven(mem)
  /\ \/ mem.state = "AWAITING_APPROVAL"
     \/ SkipsLastStep(mem)
     \/ mem.done = LastStep /\ mem.state \in TERMINAL_STATES
  /\ Return(mem)
  /\ UNCHANGED <<policy, db, step, effects, cooling, bounds>>

\* All steps were done but the terminal state was never written.
EnterCompleted ==
  /\ pc = "idle" /\ Driven(mem)
  /\ mem.done = LastStep
  /\ mem.state \notin TERMINAL_STATES \cup {"AWAITING_APPROVAL"}
  /\ LET c == [mem EXCEPT !.state = "RESOLVED"] IN Return(c) /\ Save(c)
  /\ UNCHANGED <<policy, step, effects, cooling, bounds>>

MutRepeatsLastStep ==
  /\ pc = "idle" /\ Driven(mem)
  /\ mem.done < LastStep /\ mem.state # "AWAITING_APPROVAL" /\ ~SkipsLastStep(mem)
  /\ BeginStep(IF mem.done = 0 THEN 1 ELSE mem.done, mem)
  /\ UNCHANGED <<policy, db, effects, cooling, bounds>>

EnterStep ==
  /\ pc = "idle" /\ Driven(mem)
  /\ mem.done < LastStep /\ mem.state # "AWAITING_APPROVAL" /\ ~SkipsLastStep(mem)
  /\ BeginStep(mem.done + 1, mem)
  /\ UNCHANGED <<policy, db, effects, cooling, bounds>>

----------------------------------------------------------------------------
(* AgentBase.execute and RemediationAgent *)

\* What the model may propose, before the agent checks it.
Proposals == [proposed : {"none", "unknown", "known"}, approval : BOOLEAN]

MutTrustsModel(p) ==
  [action   |-> IF p.proposed # "none" /\ (WorkerMode \/ p.proposed = "known")
                THEN "act" ELSE "none",
   approval |-> p.approval \/ p.proposed = "unknown"]


\* RemediationAgent.parse_response.  Without a registry (worker) any proposal is
\* kept and needs approval; with one an unknown name is dropped and needs
\* approval, and a known action needs it when the model or the registry says so.
Parsed(p) ==
  [action   |-> IF p.proposed # "none" /\ (WorkerMode \/ p.proposed = "known")
                THEN "act" ELSE "none",
   approval |-> \/ p.approval
                \/ p.proposed = "unknown"
                \/ p.proposed = "known" /\ (WorkerMode \/ policy.requiresApproval)]

\* _apply_result of a proposal.
Apply(c, p) == [c EXCEPT !.action = Parsed(p).action, !.approval = Parsed(p).approval,
                         !.executed = FALSE]

\* _degraded_verdict: an escalate verdict of confidence 0.0, which asks for
\* escalation exactly when the threshold is above 0.
Degrade(c) == [c EXCEPT !.takeover = TRUE, !.pending = @ \/ policy.escalates]

\* _post_execute runs the safe action when no approval is required.
AutoExecutes(c) == ~WorkerMode /\ c.action = "act" /\ ~c.approval

\* An agent other than remediation gets its answer and emits a flag verdict,
\* which never asks for escalation.
AgentSucceeds(r) ==
  /\ pc = "running" /\ agent[r] = "model" /\ r # "remediation"
  /\ agent' = [agent EXCEPT ![r] = "returned"]
  /\ UNCHANGED <<policy, mem, db, pc, step, effects, cooling, bounds>>

\* Past the safe action the agent returns, or first asks the arbiter to reduce an
\* agent's autonomy; that request failing is only logged.
LeavesSafeAction ==
  \E next \in {"returned", "governance"} : agent' = [agent EXCEPT !["remediation"] = next]

GovernanceReturns ==
  /\ pc = "running" /\ agent["remediation"] = "governance"
  /\ agent' = [agent EXCEPT !["remediation"] = "returned"]
  /\ UNCHANGED <<policy, mem, db, pc, step, effects, cooling, bounds>>

\* The remediation agent gets a proposal that is not for it to execute, or that
\* the registry refuses (cooldown or blast radius), which is only recorded.
RemediationProposes ==
  /\ pc = "running" /\ agent["remediation"] = "model"
  /\ \E p \in Proposals : mem' = Apply(mem, p)
  /\ LeavesSafeAction
  /\ UNCHANGED <<policy, db, pc, step, effects, cooling, bounds>>

\* SafeActionRegistry.execute: past the cooldown check the handler is called.
RemediationExecutes ==
  /\ pc = "running" /\ agent["remediation"] = "model"
  /\ \E p \in Proposals : mem' = Apply(mem, p) /\ AutoExecutes(Apply(mem, p))
  /\ ~cooling
  /\ effects' = effects + 1
  /\ agent' = [agent EXCEPT !["remediation"] = "handler"]
  /\ UNCHANGED <<policy, db, pc, step, cooling, bounds>>

MutRetriesHandler ==
  /\ pc = "running" /\ agent["remediation"] = "handler"
  /\ agent' = [agent EXCEPT !["remediation"] = "model"]
  /\ UNCHANGED <<policy, mem, db, pc, step, effects, cooling, bounds>>

\* The handler returns and the execution is recorded for the cooldown, or it
\* raises, which is caught: nothing is recorded and the agent still returns.
HandlerReturns ==
  /\ pc = "running" /\ agent["remediation"] = "handler"
  /\ \E ok \in BOOLEAN :
       /\ mem' = [mem EXCEPT !.executed = ok]
       /\ cooling' = (cooling \/ (ok /\ policy.hasCooldown))
  /\ LeavesSafeAction
  /\ UNCHANGED <<policy, db, pc, step, effects, bounds>>

\* Prompt, model, parsing or persisting the verdict fails, the last two possibly
\* after the result was applied: a degraded verdict is emitted.  Persisting that
\* one may raise too (CLI), after the escalation flag was set.
AgentDegrades(r) ==
  /\ pc = "running" /\ agent[r] = "model"
  /\ \/ mem' = Degrade(mem)
     \/ r = "remediation" /\ \E p \in Proposals : mem' = Degrade(Apply(mem, p))
  /\ \E end \in IF WorkerMode THEN {"returned"} ELSE {"returned", "raised"} :
       agent' = [agent EXCEPT ![r] = end]
  /\ UNCHANGED <<policy, db, pc, step, effects, cooling, bounds>>

----------------------------------------------------------------------------
(* The end of a step and the gates *)

InFlight(r) == agent[r] \in {"model", "handler", "governance"}

Fail(c) == LET f == [c EXCEPT !.state = "FAILED"] IN Return(f) /\ Save(f)

MutTimesOutSerialStepsOnly ==
  /\ pc = "running" /\ \E r \in AgentRole : InFlight(r) /\ PIPELINE[step] = {r}
  /\ Fail(mem)
  /\ UNCHANGED <<policy, step, effects, cooling, bounds>>

\* asyncio.wait_for cancels the agents still running; the incident fails.
StepTimeout ==
  /\ pc = "running" /\ \E r \in AgentRole : InFlight(r)
  /\ Fail(mem)
  /\ UNCHANGED <<policy, step, effects, cooling, bounds>>

\* An exception out of a serial step reaches run(), which fails the incident;
\* the gather of the parallel step returns exceptions and only logs them.
StepRaises ==
  /\ pc = "running"
  /\ \E r \in AgentRole : PIPELINE[step] = {r} /\ agent[r] = "raised"
  /\ Fail(mem)
  /\ UNCHANGED <<policy, step, effects, cooling, bounds>>

StepDone ==
  /\ pc = "running"
  /\ \A r \in PIPELINE[step] :
       ~InFlight(r) /\ (PIPELINE[step] = {r} => agent[r] = "returned")
  /\ LET c == [mem EXCEPT !.done = step] IN mem' = c /\ Save(c)
  /\ pc' = "gates" /\ agent' = NoAgents
  /\ UNCHANGED <<policy, step, effects, cooling, bounds>>

MutSkipsLastGate == mem.pending /\ step < LastStep
MutSkipsParallelGate == mem.pending /\ step # 2

\* _check_escalation
EscalationDue == mem.pending

MutGatesActionsOnly == step = 3 /\ mem.action = "act" /\ mem.approval

\* The approval gate follows the remediation step.
ApprovalDue == step = 3 /\ mem.action # "unset" /\ mem.approval

GateEscalates ==
  /\ pc = "gates" /\ EscalationDue
  /\ LET c == [mem EXCEPT !.state = "ESCALATED"] IN Return(c) /\ Save(c)
  /\ UNCHANGED <<policy, step, effects, cooling, bounds>>

GateAwaitsApproval ==
  /\ pc = "gates" /\ ~EscalationDue /\ ApprovalDue
  /\ LET c == [mem EXCEPT !.state = "AWAITING_APPROVAL"] IN Return(c) /\ Save(c)
  /\ UNCHANGED <<policy, step, effects, cooling, bounds>>

GateContinues ==
  /\ pc = "gates" /\ ~EscalationDue /\ ~ApprovalDue /\ step < LastStep
  /\ BeginStep(step + 1, mem)
  /\ UNCHANGED <<policy, db, effects, cooling, bounds>>

GateResolves ==
  /\ pc = "gates" /\ ~EscalationDue /\ ~ApprovalDue /\ step = LastStep
  /\ LET c == [mem EXCEPT !.state = "RESOLVED"] IN Return(c) /\ Save(c)
  /\ UNCHANGED <<policy, step, effects, cooling, bounds>>

\* Time passes: the cooldown of the action ends.
CooldownElapses ==
  /\ cooling /\ cooling' = FALSE
  /\ UNCHANGED <<policy, mem, db, pc, step, agent, effects, bounds>>

Coordination ==
  \/ EnterSettled \/ EnterCompleted \/ EnterStep
  \/ StepTimeout \/ StepRaises \/ StepDone
  \/ GateEscalates \/ GateAwaitsApproval \/ GateContinues \/ GateResolves

Agents ==
  \/ \E r \in AgentRole : AgentSucceeds(r) \/ AgentDegrades(r)
  \/ RemediationProposes \/ RemediationExecutes \/ HandlerReturns \/ GovernanceReturns

Next == Load \/ Persist \/ Crash \/ CooldownElapses \/ Coordination \/ Agents

Spec == Init /\ [][Next]_vars

(***************************************************************************)
(* The step timeout bounds every await of a step, so the coordinator never *)
(* waits for ever; the agents themselves owe nothing.  In the worker the   *)
(* supervisor restarts the process and the runner stores the state again   *)
(* every cycle; in the CLI a restart is the operator's choice.             *)
(***************************************************************************)
Fairness == WF_vars(Coordination) /\ (WorkerMode => WF_vars(Load) /\ WF_vars(Persist))

FairSpec == Spec /\ Fairness

----------------------------------------------------------------------------
(* Properties *)

\* The approval gate is never bypassed: an incident the pipeline stored as
\* resolved has no remediation that required a human's approval (approve() is
\* not part of this module).  The gate and the step's result are two saves.
GateHolds == db.state = "RESOLVED" => ~db.approval

\* The approval ratchet: whatever the model answers, an action whose registry
\* entry requires approval is never executed by the remediation agent.
RatchetHolds == effects > 0 => ~policy.requiresApproval

\* An agent that could not judge asks for a human (tag human-takeover-required);
\* with a threshold above 0 no such incident is ever stored as resolved.
TakeoverHonoured == policy.escalates /\ db.state = "RESOLVED" => ~db.takeover

\* Once an agent has asked for escalation no further step begins before the
\* incident is escalated or failed: the flag drives the gate of the step that
\* raised it, also across a restart.
EscalationDrivesGate ==
  [][pc # "running" /\ pc' = "running" /\ mem.state \notin TERMINAL_STATES
       => ~mem.pending]_vars

\* A step stored as completed is never run again, whatever crashes and restarts
\* come between: every step that begins, on entry or past a gate, lies above the
\* stored progress, and the stored progress never goes back.
ProgressIsDurable ==
  [][/\ pc # "running" /\ pc' = "running" => step' > db'.done
     /\ db'.done >= db.done]_vars

\* However often an operator starts the pipeline on the incident, each start calls
\* the handler of the safe action at most once: neither its failure nor a refused
\* cooldown leads back to it.
ExecutesOncePerRun == effects <= runs

\* The incident the store knows ends, or waits for a human, and stays there.
Settles == <>[](db.state \in TERMINAL_STATES \cup {"AWAITING_APPROVAL"})

\* The stored incident follows the lifecycle an operator is promised.
Lifecycle == INSTANCE IncidentLifecycle
               WITH state <- PublicState(db.state), gated <- db.approval,
                    consent <- FALSE
ImplementsLifecycle == Lifecycle!Spec
==============================================================================
