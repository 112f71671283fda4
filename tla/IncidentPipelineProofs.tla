----------------------- MODULE IncidentPipelineProofs -----------------------
(***************************************************************************)
(* Theorems about IncidentPipeline for every value of its constants.       *)
(***************************************************************************)
EXTENDS IncidentPipeline, TLAPS

\* The pipeline has four steps and the remediation agent runs in the third only.
LEMMA PipelineShape ==
  /\ LastStep = 4
  /\ \A k \in 1..4 : PIPELINE[k] \subseteq AgentRole
  /\ \A k \in 1..4 : "remediation" \in PIPELINE[k] <=> k = 3
  /\ PIPELINE[3] = {"remediation"}
  /\ \A k \in 1..4 : StepState[k] \in {"TRIAGING", "INVESTIGATING", "REMEDIATING"}
  BY DEF LastStep, PIPELINE, AgentRole, StepState

\* What the remediation agent makes of a proposal is one of the three results.
LEMMA ParsedType ==
  ASSUME NEW p \in Proposals
  PROVE  /\ Parsed(p).action \in {"unset", "none", "act"}
         /\ Parsed(p).approval \in BOOLEAN
<1>1. Parsed(p).action \in {"unset", "none", "act"}
  BY Z3 DEF Parsed
<1>2. Parsed(p).approval \in BOOLEAN
  BY Z3 DEF Parsed
<1> QED
  BY <1>1, <1>2

(***************************************************************************)
(* Type correctness.                                                       *)
(***************************************************************************)

\* Every variable keeps its type: contexts stay IncidentContexts, whatever the
\* agents apply to them and whichever copy a crash leaves.
THEOREM TypeCorrect == Spec => []TypeOK
<1>1. Init => TypeOK
  <2>1. NewContext \in IncidentContext
    BY PipelineShape DEF NewContext, IncidentContext, IncidentState
  <2>2. NoAgents \in [AgentRole -> AgentPhase]
    BY DEF NoAgents, AgentPhase
  <2>3. 1 \in 1..LastStep
    BY PipelineShape
  <2>4. Init => cooling \in BOOLEAN
    BY Zenon DEF Init
  <2> QED
    BY <2>1, <2>2, <2>3, <2>4 DEF Init, TypeOK
<1>2. TypeOK /\ [Next]_vars => TypeOK'
  <2> SUFFICES ASSUME TypeOK, [Next]_vars
               PROVE  TypeOK'
    OBVIOUS
  <2> USE PipelineShape DEF TypeOK
  <2>1. ASSUME NEW c \in IncidentContext, NEW k \in 1..4, BeginStep(k, c)
        PROVE  /\ mem' \in IncidentContext /\ step' \in 1..4
               /\ agent' \in [AgentRole -> AgentPhase] /\ pc' = "running"
    BY <2>1 DEF BeginStep, IncidentContext, IncidentState, AgentPhase
  <2>2. ASSUME NEW c \in IncidentContext, Return(c)
        PROVE  /\ mem' \in IncidentContext /\ pc' \in {"idle", "off"}
               /\ agent' \in [AgentRole -> AgentPhase]
    BY <2>2 DEF Return, NoAgents, AgentPhase
  <2>3. ASSUME NEW c \in IncidentContext, NEW t \in TERMINAL_STATES \cup {"AWAITING_APPROVAL"}
        PROVE  [c EXCEPT !.state = t] \in IncidentContext
    BY DEF IncidentContext, IncidentState
  <2>4. ASSUME NEW c \in IncidentContext, NEW p \in Proposals
        PROVE  Apply(c, p) \in IncidentContext
    BY ParsedType DEF Apply, IncidentContext
  <2>5. ASSUME NEW c \in IncidentContext
        PROVE  Degrade(c) \in IncidentContext
    BY DEF Degrade, Policy, IncidentContext
  <2>6. CASE Load
    BY <2>6 DEF Load
  <2>7. CASE Persist
    BY <2>7 DEF Persist, bounds
  <2>8. CASE Crash
    BY <2>8 DEF Crash, NoAgents, AgentPhase
  <2>9. CASE CooldownElapses
    BY <2>9 DEF CooldownElapses, bounds
  <2>10. CASE EnterSettled
    BY <2>10, <2>2 DEF EnterSettled, bounds
  <2>11. CASE EnterCompleted
    BY <2>11, <2>2, <2>3 DEF EnterCompleted, Save, bounds, TERMINAL_STATES
  <2>12. CASE EnterStep
    <3>1. mem.done + 1 \in 1..4
      BY <2>12 DEF EnterStep, IncidentContext
    <3> QED
      BY <2>12, <3>1, <2>1 DEF EnterStep, bounds
  <2>13. CASE StepTimeout \/ StepRaises
    <3>1. [mem EXCEPT !.state = "FAILED"] \in IncidentContext
      BY <2>3 DEF TERMINAL_STATES
    <3>2. Fail(mem) /\ UNCHANGED <<policy, step, effects, cooling, bounds>>
      BY <2>13 DEF StepTimeout, StepRaises
    <3> QED
      BY <3>1, <3>2, <2>2 DEF Fail, Save, bounds
  <2>14. CASE StepDone
    <3>1. [mem EXCEPT !.done = step] \in IncidentContext
      BY DEF IncidentContext
    <3> QED
      BY <2>14, <3>1 DEF StepDone, Save, bounds, NoAgents, AgentPhase
  <2>15. CASE GateEscalates \/ GateAwaitsApproval \/ GateResolves
    <3>1. PICK t \in TERMINAL_STATES \cup {"AWAITING_APPROVAL"} :
            LET c == [mem EXCEPT !.state = t] IN Return(c) /\ Save(c)
      BY <2>15 DEF GateEscalates, GateAwaitsApproval, GateResolves, TERMINAL_STATES
    <3>2. UNCHANGED <<policy, step, effects, cooling, bounds>>
      BY <2>15 DEF GateEscalates, GateAwaitsApproval, GateResolves
    <3>3. [mem EXCEPT !.state = t] \in IncidentContext
      BY <2>3
    <3> QED
      BY <3>1, <3>2, <3>3, <2>2 DEF Save, bounds
  <2>16. CASE GateContinues
    BY <2>16, <2>1 DEF GateContinues, bounds
  <2>17. ASSUME NEW r \in AgentRole, AgentSucceeds(r)
         PROVE  TypeOK'
    BY <2>17 DEF AgentSucceeds, bounds, AgentPhase
  <2>18. ASSUME NEW r \in AgentRole, AgentDegrades(r)
         PROVE  TypeOK'
    <3>1. mem' \in IncidentContext
      BY <2>18, <2>4, <2>5 DEF AgentDegrades
    <3>2. agent' \in [AgentRole -> AgentPhase]
      BY <2>18 DEF AgentDegrades, AgentPhase
    <3> QED
      BY <2>18, <3>1, <3>2 DEF AgentDegrades, bounds
  <2>19. CASE RemediationProposes \/ RemediationExecutes
    <3>1. mem' \in IncidentContext
      BY <2>19, <2>4 DEF RemediationProposes, RemediationExecutes
    <3>2. agent' \in [AgentRole -> AgentPhase]
      BY <2>19 DEF RemediationProposes, RemediationExecutes, LeavesSafeAction,
         AgentPhase, AgentRole
    <3> QED
      BY <2>19, <3>1, <3>2 DEF RemediationProposes, RemediationExecutes, bounds
  <2>20. CASE HandlerReturns \/ GovernanceReturns
    <3>1. mem' \in IncidentContext
      BY <2>20 DEF HandlerReturns, GovernanceReturns, IncidentContext
    <3>2. agent' \in [AgentRole -> AgentPhase]
      BY <2>20 DEF HandlerReturns, GovernanceReturns, LeavesSafeAction, AgentPhase,
         AgentRole
    <3> QED
      BY <2>20, <3>1, <3>2 DEF HandlerReturns, GovernanceReturns, bounds, Policy
  <2>21. CASE UNCHANGED vars
    BY <2>21 DEF vars, bounds
  <2> QED
    BY <2>6, <2>7, <2>8, <2>9, <2>10, <2>11, <2>12, <2>13, <2>14, <2>15, <2>16, <2>17,
       <2>18, <2>19, <2>20, <2>21 DEF Next, Coordination, Agents
<1> QED
  BY <1>1, <1>2, PTL DEF Spec

(***************************************************************************)
(* The gates.                                                              *)
(***************************************************************************)

\* A context no coordinator is working on: its gates have been applied.
GatesApplied(c) ==
  /\ c.state = "RESOLVED" => ~c.approval /\ ~c.pending
  /\ c.state = "AWAITING_APPROVAL" => c.approval
  /\ c.done >= 3 /\ c.approval => c.state \in {"AWAITING_APPROVAL", "ESCALATED"}
  /\ c.pending => c.state \in TERMINAL_STATES

\* What an agent leaves behind: an approval belongs to a remediation result, and
\* a degraded verdict has raised the escalation flag if the threshold allows it.
Flagged(c) ==
  /\ c.action = "unset" => ~c.approval
  /\ policy.escalates /\ c.takeover => c.pending

\* Only the interval between the two saves of one step (CLI) holds a stored
\* context whose gates are not applied; it equals the one in memory.
GateInv ==
  /\ Flagged(mem) /\ Flagged(db)
  /\ pc \in {"off", "idle"} => GatesApplied(mem)
  /\ pc = "running" => /\ mem.done + 1 = step
                       /\ agent["remediation"] # "absent" => step = 3
                       /\ step = 4 => ~mem.approval
  /\ pc = "gates" => /\ mem.done = step
                     /\ step = 4 => ~mem.approval
                     /\ mem.state \notin TERMINAL_STATES \cup {"AWAITING_APPROVAL"}
                     /\ WorkerMode \/ db = mem
  /\ pc = "running" => mem.state \notin TERMINAL_STATES \cup {"AWAITING_APPROVAL"}
  /\ GatesApplied(db) \/ (pc = "gates" /\ ~WorkerMode)

\* Two contexts an agent's work leaves at the same place of the pipeline.
SamePlace(c, d) == d.state = c.state /\ d.done = c.done

\* Applying a proposal and degrading keep what GateInv says of one context; only
\* the former may change whether approval is required.
LEMMA AgentsKeepFlagged ==
  ASSUME NEW c \in IncidentContext, Flagged(c)
  PROVE  /\ Flagged(Degrade(c)) /\ SamePlace(c, Degrade(c))
         /\ Degrade(c).approval = c.approval
         /\ \A p \in Proposals : Flagged(Apply(c, p)) /\ SamePlace(c, Apply(c, p))
         /\ \A p \in Proposals : /\ Flagged(Degrade(Apply(c, p)))
                                 /\ SamePlace(c, Degrade(Apply(c, p)))
<1>1. ASSUME NEW d \in IncidentContext, Flagged(d)
      PROVE  /\ Flagged(Degrade(d)) /\ SamePlace(d, Degrade(d))
             /\ Degrade(d).approval = d.approval
  BY <1>1 DEF Flagged, Degrade, SamePlace, IncidentContext
<1>2. ASSUME NEW p \in Proposals
      PROVE  /\ Apply(c, p) \in IncidentContext
             /\ Flagged(Apply(c, p)) /\ SamePlace(c, Apply(c, p))
  BY DEF Flagged, Apply, Parsed, Proposals, SamePlace, IncidentContext
<1> QED
  BY <1>1, <1>2 DEF SamePlace

LEMMA GateInvInit == Init => GateInv
  BY DEF Init, GateInv, NewContext, Flagged, GatesApplied, TERMINAL_STATES

\* Without a crash between the two saves of a step, or in the worker, where a save
\* stores nothing, every step of the specification preserves the gates.
LEMMA GateInvStep ==
  ASSUME WorkerMode \/ MaxCrashes = 0, TypeOK, GateInv, [Next]_vars
  PROVE  GateInv'
<1> USE PipelineShape DEF GateInv
<1> mem \in IncidentContext /\ db \in IncidentContext /\ step \in 1..4
  BY DEF TypeOK
<1>2. CASE Load
  BY <1>2 DEF Load, Flagged, GatesApplied
<1>3. CASE Persist
  BY <1>3 DEF Persist, Flagged, GatesApplied, bounds
<1>4. CASE Crash
  <2>1. WorkerMode
    BY <1>4, PipelineAssumption DEF Crash, TypeOK
  <2> QED
    BY <1>4, <2>1 DEF Crash, Flagged, GatesApplied
<1>5. CASE CooldownElapses
  BY <1>5 DEF CooldownElapses, Flagged, GatesApplied, bounds
<1>6. CASE EnterSettled
  BY <1>6 DEF EnterSettled, Return, Flagged, GatesApplied, bounds
<1>7. ASSUME NEW t \in IncidentState, NEW c \in IncidentContext,
             c = [mem EXCEPT !.state = t], Return(c), Save(c), UNCHANGED policy,
             GatesApplied(c), GatesApplied(db) \/ ~WorkerMode
      PROVE  GateInv'
  <2>1. c.action = mem.action /\ c.approval = mem.approval /\ c.takeover = mem.takeover
        /\ c.pending = mem.pending
    BY <1>7 DEF IncidentContext
  <2>2. Flagged(c)
    BY <2>1 DEF Flagged
  <2>3. /\ mem' = c /\ pc' \in {"idle", "off"} /\ policy' = policy
        /\ db' = c \/ (db' = db /\ WorkerMode)
    BY <1>7 DEF Return, Save
  <2>4. Flagged(mem)' /\ GatesApplied(mem)'
    BY <1>7, <2>2, <2>3 DEF Flagged, GatesApplied
  <2>5. CASE db' = c
    BY <1>7, <2>2, <2>3, <2>4, <2>5 DEF Flagged, GatesApplied
  <2>6. CASE db' = db /\ WorkerMode
    <3>1. Flagged(db)' /\ GatesApplied(db)'
      BY <1>7, <2>3, <2>6 DEF Flagged, GatesApplied
    <3> QED
      BY <2>3, <2>4, <3>1
  <2> QED
    BY <2>3, <2>5, <2>6
<1>8. ASSUME NEW k \in 1..4, BeginStep(k, mem), mem.done + 1 = k, UNCHANGED <<policy, db>>,
             GatesApplied(db), k = 4 => ~mem.approval
      PROVE  GateInv'
  <2>1. /\ mem' = [mem EXCEPT !.state = StepState[k]]
        /\ pc' = "running" /\ step' = k /\ db' = db /\ policy' = policy
        /\ agent'["remediation"] # "absent" => "remediation" \in PIPELINE[k]
    BY <1>8 DEF BeginStep, AgentRole
  <2>2. Flagged(mem)' /\ Flagged(db)' /\ GatesApplied(db)'
    BY <1>8, <2>1 DEF Flagged, GatesApplied, IncidentContext
  <2>3. mem'.state \notin TERMINAL_STATES \cup {"AWAITING_APPROVAL"}
    BY <2>1 DEF TERMINAL_STATES, IncidentContext
  <2>4. mem'.done = mem.done /\ mem'.approval = mem.approval
    BY <2>1 DEF IncidentContext
  <2>5. agent'["remediation"] # "absent" => step' = 3
    BY <2>1
  <2>6. mem'.done + 1 = step' /\ (step' = 4 => ~mem'.approval)
    BY <1>8, <2>1, <2>4
  <2> QED
    BY Zenon, <2>1, <2>2, <2>3, <2>5, <2>6
<1>9. CASE EnterCompleted
  <2> DEFINE c == [mem EXCEPT !.state = "RESOLVED"]
  <2>1. c \in IncidentContext /\ "RESOLVED" \in IncidentState
    BY DEF IncidentContext, IncidentState, TERMINAL_STATES
  <2>2. ~mem.approval /\ ~mem.pending
    <3>1. /\ mem.done >= 3 /\ GatesApplied(mem)
          /\ mem.state \notin TERMINAL_STATES \cup {"AWAITING_APPROVAL"}
      BY <1>9 DEF EnterCompleted
    <3> QED
      BY <3>1 DEF GatesApplied, TERMINAL_STATES
  <2>3. GatesApplied(c)
    BY <2>2 DEF GatesApplied, IncidentContext, TERMINAL_STATES
  <2>4. Return(c) /\ Save(c) /\ UNCHANGED policy /\ GatesApplied(db)
    BY <1>9 DEF EnterCompleted
  <2> QED
    BY <1>7, <2>1, <2>3, <2>4
<1>10. CASE EnterStep
  <2>1. mem.done \in Nat /\ pc = "idle" /\ mem.state # "AWAITING_APPROVAL"
        /\ (mem.done + 1 = 4 => mem.state # "ESCALATED")
    BY <1>10 DEF EnterStep, SkipsLastStep, IncidentContext
  <2>2. mem.done >= 3 /\ mem.approval => mem.state \in {"AWAITING_APPROVAL", "ESCALATED"}
    BY <2>1 DEF GatesApplied
  <2>3. mem.done + 1 = 4 => mem.done >= 3
    BY <2>1
  <2>4. mem.done + 1 = 4 => ~mem.approval
    BY <2>1, <2>2, <2>3
  <2>5. mem.done + 1 \in 1..4 /\ BeginStep(mem.done + 1, mem) /\ UNCHANGED <<policy, db>>
    BY <1>10, <2>1 DEF EnterStep
  <2> QED
    BY <1>8, <2>1, <2>4, <2>5
<1>11. CASE StepTimeout \/ StepRaises
  <2> DEFINE c == [mem EXCEPT !.state = "FAILED"]
  <2>1. pc = "running" /\ Return(c) /\ Save(c) /\ UNCHANGED policy
    BY <1>11 DEF StepTimeout, StepRaises, Fail
  <2>2. c \in IncidentContext /\ "FAILED" \in IncidentState
    BY DEF IncidentContext, IncidentState, TERMINAL_STATES
  <2>3. mem.done >= 3 => ~mem.approval
    BY <2>1 DEF IncidentContext
  <2>4. GatesApplied(c)
    BY <2>3 DEF GatesApplied, IncidentContext, TERMINAL_STATES
  <2> QED
    BY <1>7, <2>1, <2>2, <2>4
<1>12. CASE GateEscalates \/ GateAwaitsApproval \/ GateResolves
  <2>1. PICK t \in {"ESCALATED", "AWAITING_APPROVAL", "RESOLVED"} :
          /\ LET c == [mem EXCEPT !.state = t] IN Return(c) /\ Save(c)
          /\ t = "AWAITING_APPROVAL" => mem.approval
          /\ t # "ESCALATED" => ~mem.pending
          /\ t = "RESOLVED" => ~mem.approval
    BY <1>12 DEF GateEscalates, GateAwaitsApproval, GateResolves, EscalationDue, ApprovalDue
  <2> DEFINE c == [mem EXCEPT !.state = t]
  <2>2. c \in IncidentContext /\ t \in IncidentState
    BY DEF IncidentContext, IncidentState, TERMINAL_STATES
  <2>3. GatesApplied(c)
    BY <2>1 DEF GatesApplied, IncidentContext, TERMINAL_STATES
  <2>4. UNCHANGED policy
    BY <1>12 DEF GateEscalates, GateAwaitsApproval, GateResolves
  <2> QED
    BY <1>7, <2>1, <2>2, <2>3, <2>4
<1>13. CASE GateContinues
  <2>1. /\ step + 1 \in 1..4 /\ mem.done + 1 = step + 1 /\ BeginStep(step + 1, mem)
        /\ UNCHANGED <<policy, db>> /\ pc = "gates" /\ ~mem.pending /\ ~ApprovalDue
    BY <1>13 DEF GateContinues, EscalationDue, bounds
  <2>2. step + 1 = 4 => ~mem.approval
    BY <2>1 DEF ApprovalDue, Flagged
  <2>3. mem.done >= 3 => ~mem.approval
    BY <2>1, <2>2 DEF IncidentContext
  <2>4. GatesApplied(db)
    BY <2>1, <2>3 DEF GatesApplied, TERMINAL_STATES
  <2> QED
    BY <1>8, <2>1, <2>2, <2>4
<1>14. CASE StepDone
  <2> DEFINE c == [mem EXCEPT !.done = step]
  <2>1. /\ pc = "running" /\ pc' = "gates" /\ mem' = c /\ step' = step /\ policy' = policy
        /\ GatesApplied(db)
        /\ \/ WorkerMode /\ db' = db
           \/ ~WorkerMode /\ db' = c
    BY <1>14 DEF StepDone, Save
  <2>2. /\ c.done = step /\ c.state = mem.state /\ c.approval = mem.approval
        /\ c.pending = mem.pending /\ c.action = mem.action /\ c.takeover = mem.takeover
    BY DEF IncidentContext
  <2>3. Flagged(mem)' /\ mem'.state = mem.state /\ mem'.approval = mem.approval
        /\ mem'.done = step'
    BY <2>1, <2>2 DEF Flagged
  <2>4. Flagged(db)' /\ (GatesApplied(db)' \/ ~WorkerMode) /\ (WorkerMode \/ db' = mem')
    BY <2>1, <2>3 DEF Flagged, GatesApplied
  <2>5. step' = 4 => ~mem'.approval
    BY <2>1, <2>3
  <2> QED
    BY <2>1, <2>3, <2>4, <2>5
<1>15. ASSUME pc = "running", pc' = "running", step' = step, policy' = policy, db' = db,
              agent'["remediation"] # "absent" => agent["remediation"] # "absent",
              Flagged(mem)', mem'.state = mem.state, mem'.done = mem.done,
              mem'.approval = mem.approval \/ step = 3
       PROVE  GateInv'
  <2>1. Flagged(db)' /\ GatesApplied(db)'
    BY <1>15 DEF Flagged, GatesApplied
  <2>2. mem'.done + 1 = step' /\ (step' = 4 => ~mem'.approval)
    BY <1>15
  <2>3. mem'.state \notin TERMINAL_STATES \cup {"AWAITING_APPROVAL"}
    BY <1>15
  <2>4. agent'["remediation"] # "absent" => step' = 3
    BY <1>15
  <2> QED
    BY Zenon, <1>15, <2>1, <2>2, <2>3, <2>4
<1>16. ASSUME NEW r \in AgentRole, AgentSucceeds(r)
       PROVE  GateInv'
  <2>1. Flagged(mem)'
    BY <1>16 DEF AgentSucceeds, Flagged
  <2> QED
    BY <1>15, <1>16, <2>1 DEF AgentSucceeds, TypeOK
<1>17. ASSUME NEW r \in AgentRole, AgentDegrades(r)
       PROVE  GateInv'
  <2>1. /\ Flagged(mem') /\ SamePlace(mem, mem')
        /\ mem'.approval = mem.approval \/ step = 3
    <3>1. \/ mem' = Degrade(mem)
          \/ step = 3 /\ \E p \in Proposals : mem' = Degrade(Apply(mem, p))
      BY <1>17 DEF AgentDegrades
    <3> QED
      BY <3>1, AgentsKeepFlagged
  <2>2. policy' = policy
    BY <1>17 DEF AgentDegrades
  <2>3. Flagged(mem)'
    BY <2>1, <2>2 DEF Flagged
  <2> QED
    BY <1>15, <1>17, <2>1, <2>3 DEF AgentDegrades, TypeOK, SamePlace
<1>18. CASE RemediationProposes \/ RemediationExecutes
  <2>1. Flagged(mem') /\ SamePlace(mem, mem') /\ step = 3
    <3>1. step = 3 /\ \E p \in Proposals : mem' = Apply(mem, p)
      BY <1>18 DEF RemediationProposes, RemediationExecutes
    <3> QED
      BY <3>1, AgentsKeepFlagged
  <2>2. policy' = policy
    BY <1>18 DEF RemediationProposes, RemediationExecutes
  <2>3. Flagged(mem)'
    BY <2>1, <2>2 DEF Flagged
  <2> QED
    BY <1>15, <1>18, <2>1, <2>3 DEF RemediationProposes, RemediationExecutes, SamePlace
<1>19. CASE HandlerReturns \/ GovernanceReturns
  <2>1. /\ mem'.state = mem.state /\ mem'.done = mem.done /\ mem'.approval = mem.approval
        /\ mem'.action = mem.action /\ mem'.takeover = mem.takeover
        /\ mem'.pending = mem.pending
    BY <1>19 DEF HandlerReturns, GovernanceReturns, IncidentContext
  <2>2. policy' = policy
    BY <1>19 DEF HandlerReturns, GovernanceReturns
  <2>3. Flagged(mem)'
    BY <2>1, <2>2 DEF Flagged
  <2> QED
    BY <1>15, <1>19, <2>1, <2>3 DEF HandlerReturns, GovernanceReturns
<1>20. CASE UNCHANGED vars
  BY <1>20 DEF vars, bounds, Flagged, GatesApplied
<1> QED
  BY <1>2, <1>3, <1>4, <1>5, <1>6, <1>9, <1>10, <1>11, <1>12, <1>13, <1>14, <1>16, <1>17,
     <1>18, <1>19, <1>20 DEF Next, Coordination, Agents

\* GateInv is invariant wherever no crash can come between a step's result and the
\* gate's decision.
LEMMA GateInvariant ==
  ASSUME WorkerMode \/ MaxCrashes = 0
  PROVE  Spec => []GateInv
<1>1. Init => GateInv
  BY GateInvInit
<1>2. TypeOK /\ GateInv /\ [Next]_vars => GateInv'
  BY GateInvStep
<1> QED
  BY <1>1, <1>2, TypeCorrect, PTL DEF Spec

\* No incident is stored as resolved with a remediation that required approval:
\* in the worker whatever crashes, in the CLI as long as it does not crash.
THEOREM ApprovalGate ==
  ASSUME WorkerMode \/ MaxCrashes = 0
  PROVE  Spec => []GateHolds
<1>1. GateInv => GateHolds
  <2> SUFFICES ASSUME GateInv, db.state = "RESOLVED"
               PROVE  ~db.approval
    BY DEF GateHolds
  <2>1. GatesApplied(db)
    BY DEF GateInv, TERMINAL_STATES
  <2> QED
    BY <2>1 DEF GatesApplied
<1> QED
  BY <1>1, GateInvariant, PTL

\* With a threshold above 0, no incident for which an agent asked for a human is
\* stored as resolved, under the same condition.
THEOREM TakeoverGate ==
  ASSUME WorkerMode \/ MaxCrashes = 0
  PROVE  Spec => []TakeoverHonoured
<1>1. GateInv => TakeoverHonoured
  <2> SUFFICES ASSUME GateInv, policy.escalates, db.state = "RESOLVED"
               PROVE  ~db.takeover
    BY DEF TakeoverHonoured
  <2>1. GatesApplied(db) /\ Flagged(db)
    BY DEF GateInv, TERMINAL_STATES
  <2> QED
    BY <2>1 DEF GatesApplied, Flagged
<1> QED
  BY <1>1, GateInvariant, PTL

\* A step begins only when no agent's request for escalation is outstanding, under
\* the same condition.
THEOREM EscalationGate ==
  ASSUME WorkerMode \/ MaxCrashes = 0
  PROVE  Spec => EscalationDrivesGate
<1>1. TypeOK /\ GateInv /\ [Next]_vars =>
        [pc # "running" /\ pc' = "running" /\ mem.state \notin TERMINAL_STATES
           => ~mem.pending]_vars
  <2> SUFFICES ASSUME GateInv, Next, pc # "running", pc' = "running",
                      mem.state \notin TERMINAL_STATES
               PROVE  ~mem.pending
    OBVIOUS
  <2>1. EnterStep \/ GateContinues
    BY DEF Next, Load, Persist, Crash, CooldownElapses, Coordination, Agents, EnterSettled,
       EnterCompleted, StepTimeout, StepRaises, StepDone, GateEscalates,
       GateAwaitsApproval, GateResolves, Return, AgentSucceeds, AgentDegrades,
       RemediationProposes, RemediationExecutes, HandlerReturns, GovernanceReturns
  <2>2. CASE EnterStep
    <3>1. GatesApplied(mem)
      BY <2>2 DEF EnterStep, GateInv
    <3> QED
      BY <3>1 DEF GatesApplied
  <2>3. CASE GateContinues
    BY <2>3 DEF GateContinues, EscalationDue
  <2> QED
    BY <2>1, <2>2, <2>3
<1> QED
  BY <1>1, TypeCorrect, GateInvariant, PTL DEF Spec, EscalationDrivesGate

(***************************************************************************)
(* The approval ratchet.                                                   *)
(***************************************************************************)

\* Whatever the model answers and whatever crashes, an action whose registry entry
\* requires approval is never executed by the remediation agent.
THEOREM ApprovalRatchet == Spec => []RatchetHolds
<1>1. Init => RatchetHolds
  BY DEF Init, RatchetHolds
<1>2. RatchetHolds /\ [Next]_vars => RatchetHolds'
  <2> SUFFICES ASSUME RatchetHolds, [Next]_vars
               PROVE  RatchetHolds'
    OBVIOUS
  <2>1. policy' = policy
    BY DEF Next, Load, Persist, Crash, CooldownElapses, Coordination, Agents, EnterSettled,
       EnterCompleted, EnterStep, StepTimeout, StepRaises, StepDone, GateEscalates,
       GateAwaitsApproval, GateContinues, GateResolves, AgentSucceeds, AgentDegrades,
       RemediationProposes, RemediationExecutes, HandlerReturns, GovernanceReturns, vars
  <2>2. CASE RemediationExecutes
    <3>1. PICK p \in Proposals : AutoExecutes(Apply(mem, p))
      BY <2>2 DEF RemediationExecutes
    <3>2. ~policy.requiresApproval
      BY <3>1 DEF AutoExecutes, Apply, Parsed, Proposals
    <3> QED
      BY <2>1, <3>2 DEF RatchetHolds
  <2>3. CASE effects' = effects
    BY <2>1, <2>3 DEF RatchetHolds
  <2>4. RemediationExecutes \/ effects' = effects
    BY DEF Next, Load, Persist, Crash, CooldownElapses, Coordination, Agents, EnterSettled,
       EnterCompleted, EnterStep, StepTimeout, StepRaises, StepDone, GateEscalates,
       GateAwaitsApproval, GateContinues, GateResolves, AgentSucceeds, AgentDegrades,
       RemediationProposes, HandlerReturns, GovernanceReturns, vars
  <2> QED
    BY <2>2, <2>3, <2>4
<1> QED
  BY <1>1, <1>2, PTL DEF Spec

(***************************************************************************)
(* The worker implements the lifecycle.                                    *)
(***************************************************************************)

Settled(c) == c.state \in TERMINAL_STATES \cup {"AWAITING_APPROVAL"}

\* A settled incident the runner has stored is never touched again, so what is in
\* memory is what is stored.
StoredEndIsFinal == Settled(db) => mem = db /\ pc \in {"off", "idle"}

LEMMA StoredEndStep ==
  ASSUME WorkerMode, TypeOK, GateInv, StoredEndIsFinal, [Next]_vars
  PROVE  StoredEndIsFinal'
<1>1. CASE UNCHANGED <<mem, db, pc>>
  BY <1>1 DEF StoredEndIsFinal, Settled
<1>2. CASE Persist
  BY <1>2 DEF Persist, StoredEndIsFinal, Settled
<1>3. CASE Load \/ Crash
  BY <1>3 DEF Load, Crash, StoredEndIsFinal, Settled
<1>4. CASE ~Settled(db) /\ db' = db
  BY <1>4 DEF StoredEndIsFinal, Settled
<1>5. ASSUME Coordination
      PROVE  ~Settled(db)
  <2>1. pc \in {"running", "gates"} \/ (pc = "idle" /\ Driven(mem))
    BY <1>5 DEF Coordination, EnterSettled, EnterCompleted, EnterStep, StepTimeout,
       StepRaises, StepDone, GateEscalates, GateAwaitsApproval, GateContinues, GateResolves
  <2> QED
    BY <2>1 DEF StoredEndIsFinal, Settled, Driven
<1>6. ASSUME Coordination
      PROVE  db' = db
  BY <1>6 DEF Coordination, EnterSettled, EnterCompleted, EnterStep, StepTimeout, Fail, Save,
     StepRaises, StepDone, GateEscalates, GateAwaitsApproval, GateContinues, GateResolves
<1>7. ASSUME Agents
      PROVE  ~Settled(db) /\ db' = db
  BY <1>7 DEF Agents, AgentSucceeds, AgentDegrades, RemediationProposes, RemediationExecutes,
     HandlerReturns, GovernanceReturns, StoredEndIsFinal, Settled
<1> QED
  BY <1>1, <1>2, <1>3, <1>4, <1>5, <1>6, <1>7 DEF Next, CooldownElapses, vars

\* What the runner stores of an incident follows the lifecycle: the stored end is
\* final, and it is not "RESOLVED" while the remediation still needs consent.
THEOREM WorkerImplementsLifecycle ==
  ASSUME WorkerMode
  PROVE  Spec => ImplementsLifecycle
<1>1. Init => Lifecycle!Init /\ StoredEndIsFinal
  BY DEF Init, Lifecycle!Init, StoredEndIsFinal, Settled, NewContext, PublicState,
     TERMINAL_STATES
<1>2. TypeOK /\ GateInv /\ StoredEndIsFinal /\ [Next]_vars => StoredEndIsFinal'
  BY StoredEndStep
<1>3. TypeOK /\ GateInv /\ StoredEndIsFinal /\ [Next]_vars => [Lifecycle!Next]_(Lifecycle!vars)
  <2> SUFFICES ASSUME TypeOK, GateInv, StoredEndIsFinal, [Next]_vars
               PROVE  [Lifecycle!Next]_(Lifecycle!vars)
    OBVIOUS
  <2>1. CASE db' = db
    BY <2>1 DEF Lifecycle!vars
  <2>2. CASE Persist
    <3> DEFINE from == PublicState(db.state)
               to   == PublicState(mem.state)
    <3>1. db' = mem /\ GatesApplied(mem) /\ mem \in IncidentContext
      BY <2>2 DEF Persist, GateInv, TypeOK
    <3>2. CASE Settled(db)
      BY <3>1, <3>2, <2>1 DEF StoredEndIsFinal
    <3>3. CASE ~Settled(db)
      <4>1. from = "OPEN"
        BY <3>3 DEF PublicState, Settled
      <4>2. mem.approval \in BOOLEAN
        BY <3>1 DEF IncidentContext
      <4>3. to = "RESOLVED" => mem.approval = FALSE
        BY <3>1, <4>2 DEF PublicState, GatesApplied, TERMINAL_STATES
      <4>4. to = "AWAITING_APPROVAL" => mem.approval = TRUE
        BY <3>1, <4>2 DEF PublicState, GatesApplied, TERMINAL_STATES
      <4>5. to \in {"OPEN", "AWAITING_APPROVAL", "RESOLVED", "ESCALATED", "FAILED"}
        BY DEF PublicState, TERMINAL_STATES
      <4>6. Lifecycle!Next
        BY <3>1, <4>1, <4>2, <4>3, <4>4, <4>5
           DEF Lifecycle!Next, Lifecycle!Work, Lifecycle!Pause, Lifecycle!Resolve,
               Lifecycle!Escalate, Lifecycle!Fail
      <4> QED
        BY <4>6
    <3> QED
      BY <3>2, <3>3
  <2>3. db' = db \/ Persist
    BY DEF Next, Load, Crash, CooldownElapses, Coordination, Agents, EnterSettled, Fail, Save,
       EnterCompleted, EnterStep, StepTimeout, StepRaises, StepDone, GateEscalates,
       GateAwaitsApproval, GateContinues, GateResolves, AgentSucceeds, AgentDegrades,
       RemediationProposes, RemediationExecutes, HandlerReturns, GovernanceReturns, vars
  <2> QED
    BY <2>1, <2>2, <2>3
<1> QED
  BY <1>1, <1>2, <1>3, TypeCorrect, GateInvariant, PTL
     DEF Spec, ImplementsLifecycle, Lifecycle!Spec

(***************************************************************************)
(* One execution per start, and durable progress.                          *)
(***************************************************************************)

\* The remediation agent of this start has not reached the handler yet.
NotYetActed ==
  \/ pc = "idle"
  \/ pc \in {"running", "gates"} /\ step < 3
  \/ pc = "running" /\ step = 3 /\ agent["remediation"] = "model"

\* A start is counted before it can act, and acts at most once.
CountInv ==
  /\ agent["remediation"] = "model" => step = 3
  /\ WorkerMode => effects = 0
  /\ effects <= runs
  /\ ~WorkerMode /\ NotYetActed => effects < runs

\* The step that runs is the one after the progress in memory, the gates follow the
\* last one, and what is stored never runs ahead of memory.
ProgressInv ==
  /\ db.done <= mem.done
  /\ pc = "running" => step = mem.done + 1
  /\ pc = "gates" => step = mem.done

\* No agent and no return of the coordinator touches the progress.
LEMMA ProgressKept ==
  ASSUME TypeOK, NEW c \in IncidentContext, NEW p \in Proposals, NEW s
  PROVE  /\ Apply(c, p).done = c.done /\ Degrade(c).done = c.done
         /\ Degrade(Apply(c, p)).done = c.done /\ [c EXCEPT !.state = s].done = c.done
BY DEF Apply, Degrade, IncidentContext

LEMMA ProgressStep ==
  ASSUME TypeOK, ProgressInv, [Next]_vars
  PROVE  ProgressInv' /\ db'.done >= db.done
         /\ (pc # "running" /\ pc' = "running" => step' > db'.done)
<1> USE PipelineShape DEF TypeOK
<1>1. mem.done \in Nat /\ db.done \in Nat
  BY DEF IncidentContext
<1>2. CASE pc' \in {"off", "idle"} /\ mem'.done = mem.done /\ db'.done \in {db.done, mem.done}
  BY <1>1, <1>2 DEF ProgressInv
<1>3. CASE Load \/ Crash
  BY <1>1, <1>3 DEF Load, Crash, ProgressInv
<1>4. CASE Persist \/ EnterSettled
  BY <1>2, <1>4 DEF Persist, EnterSettled, Return
<1>5. CASE EnterCompleted \/ StepTimeout \/ StepRaises \/ GateEscalates \/ GateAwaitsApproval \/ GateResolves
  <2>1. \E s : LET c == [mem EXCEPT !.state = s] IN Return(c) /\ Save(c)
    BY <1>5 DEF EnterCompleted, StepTimeout, StepRaises, Fail, GateEscalates,
       GateAwaitsApproval, GateResolves
  <2>2. \E s : mem' = [mem EXCEPT !.state = s] /\ pc' \in {"off", "idle"} /\ (db' = db \/ db' = mem')
    BY <2>1 DEF Return, Save
  <2>3. mem'.done = mem.done
    BY <2>2 DEF IncidentContext
  <2> QED
    BY <1>2, <2>2, <2>3
<1>6. CASE EnterStep \/ GateContinues
  <2>1. \E s : mem' = [mem EXCEPT !.state = s]
    BY <1>6 DEF EnterStep, GateContinues, BeginStep
  <2>2. mem'.done = mem.done
    BY <2>1 DEF IncidentContext
  <2>3. pc' = "running" /\ step' = mem.done + 1 /\ db' = db
    BY <1>6 DEF EnterStep, GateContinues, BeginStep, ProgressInv
  <2> QED
    BY <1>1, <2>2, <2>3 DEF ProgressInv
<1>7. CASE StepDone
  <2>1. mem'.done = step /\ pc' = "gates" /\ step' = step /\ (db' = db \/ db' = mem')
    BY <1>7 DEF StepDone, Save, IncidentContext
  <2>2. step = mem.done + 1
    BY <1>7 DEF StepDone, ProgressInv
  <2> QED
    BY <1>1, <2>1, <2>2 DEF ProgressInv
<1>8. CASE Agents
  <2>1. mem'.done = mem.done
    <3>1. \A p \in Proposals : Apply(mem, p).done = mem.done /\ Degrade(mem).done = mem.done
                               /\ Degrade(Apply(mem, p)).done = mem.done
      BY ProgressKept
    <3>2. CASE \E r \in AgentRole : AgentDegrades(r)
      BY <3>1, <3>2 DEF AgentDegrades, Degrade, IncidentContext
    <3>3. CASE RemediationProposes \/ RemediationExecutes
      BY <3>1, <3>3 DEF RemediationProposes, RemediationExecutes
    <3>4. CASE HandlerReturns
      BY <3>4 DEF HandlerReturns, IncidentContext
    <3>5. CASE GovernanceReturns \/ \E r \in AgentRole : AgentSucceeds(r)
      BY <3>5 DEF GovernanceReturns, AgentSucceeds
    <3> QED
      BY <1>8, <3>2, <3>3, <3>4, <3>5 DEF Agents
  <2>2. UNCHANGED <<db, pc, step>>
    BY <1>8 DEF Agents, AgentSucceeds, AgentDegrades, RemediationProposes,
       RemediationExecutes, HandlerReturns, GovernanceReturns
  <2> QED
    BY <1>1, <2>1, <2>2 DEF ProgressInv
<1>9. CASE CooldownElapses \/ UNCHANGED vars
  BY <1>1, <1>9 DEF CooldownElapses, vars, ProgressInv
<1> QED
  BY <1>3, <1>4, <1>5, <1>6, <1>7, <1>8, <1>9 DEF Next, Coordination

\* Whatever crashes and however often the pipeline is started, a step stored as
\* completed is not run again: each step begins above the stored progress, which
\* never goes back.
THEOREM ProgressDurable == Spec => ProgressIsDurable
<1>1. Init => ProgressInv
  BY DEF Init, ProgressInv, NewContext
<1>2. TypeOK /\ ProgressInv /\ [Next]_vars
      => /\ ProgressInv'
         /\ [/\ pc # "running" /\ pc' = "running" => step' > db'.done
             /\ db'.done >= db.done]_vars
  BY ProgressStep
<1> QED
  BY <1>1, <1>2, TypeCorrect, PTL DEF Spec, ProgressIsDurable

LEMMA CountStep ==
  ASSUME TypeOK, CountInv, [Next]_vars
  PROVE  CountInv'
<1> USE PipelineShape DEF TypeOK, bounds
<1>0. agent'["remediation"] = "model" => step' = 3
  <2>1. CASE UNCHANGED step /\ (agent'["remediation"] = "model" => agent["remediation"] = "model")
    BY <2>1 DEF CountInv
  <2>2. CASE EnterStep \/ GateContinues
    <3>1. PICK k \in 1..4 : \E c \in IncidentContext : BeginStep(k, c)
      BY <2>2 DEF EnterStep, GateContinues, IncidentContext
    <3> QED
      BY <3>1 DEF BeginStep, AgentRole
  <2>3. CASE Load \/ Persist \/ CooldownElapses \/ UNCHANGED vars
    BY <2>1, <2>3 DEF Load, Persist, CooldownElapses, vars
  <2>4. CASE \/ Crash \/ EnterSettled \/ EnterCompleted \/ StepTimeout \/ StepRaises \/ StepDone
             \/ GateEscalates \/ GateAwaitsApproval \/ GateResolves
    BY <2>4 DEF Crash, EnterSettled, EnterCompleted, StepTimeout, StepRaises, Fail, StepDone,
       GateEscalates, GateAwaitsApproval, GateResolves, Return, NoAgents, AgentRole
  <2>5. CASE Agents
    BY <2>1, <2>5 DEF Agents, AgentSucceeds, AgentDegrades, RemediationProposes,
       RemediationExecutes, HandlerReturns, GovernanceReturns, LeavesSafeAction
  <2> QED
    BY <2>2, <2>3, <2>4, <2>5 DEF Next, Coordination
<1>1. CASE UNCHANGED <<effects, runs>> /\ (NotYetActed' => NotYetActed)
  BY <1>0, <1>1 DEF CountInv
<1>2. CASE Load
  BY <1>0, <1>2 DEF Load, CountInv
<1>3. CASE Persist \/ Crash \/ CooldownElapses \/ UNCHANGED vars
  BY <1>1, <1>3 DEF Persist, Crash, CooldownElapses, vars, NotYetActed
<1>4. CASE WorkerMode /\ UNCHANGED <<effects, runs>>
  BY <1>0, <1>4 DEF CountInv
<1>5. CASE ~WorkerMode /\ UNCHANGED <<effects, runs>> /\ pc' = "off"
  BY <1>1, <1>5 DEF NotYetActed
<1>6. CASE \/ EnterSettled \/ EnterCompleted \/ StepTimeout \/ StepRaises
           \/ GateEscalates \/ GateAwaitsApproval \/ GateResolves
  <2>1. UNCHANGED <<effects, runs>> /\ (~WorkerMode => pc' = "off")
    BY <1>6 DEF EnterSettled, EnterCompleted, StepTimeout, StepRaises, Fail, GateEscalates,
       GateAwaitsApproval, GateResolves, Return
  <2> QED
    BY <1>4, <1>5, <2>1
<1>7. CASE EnterStep
  BY <1>1, <1>7 DEF EnterStep, BeginStep, NotYetActed
<1>8. CASE GateContinues
  <2>1. /\ pc = "gates" /\ pc' = "running" /\ step' = step + 1
        /\ agent' = [r \in AgentRole |-> IF r \in PIPELINE[step + 1] THEN "model" ELSE "absent"]
        /\ UNCHANGED <<effects, runs>>
    BY <1>8 DEF GateContinues, BeginStep
  <2> QED
    BY <1>1, <2>1 DEF NotYetActed
<1>9. CASE StepDone
  BY <1>1, <1>9 DEF StepDone, NotYetActed, NoAgents
<1>10. CASE RemediationExecutes
  <2>1. /\ pc = "running" /\ pc' = "running" /\ step' = step /\ runs' = runs
        /\ agent["remediation"] = "model" /\ effects' = effects + 1
        /\ agent'["remediation"] = "handler" /\ ~WorkerMode
    BY <1>10 DEF RemediationExecutes, AutoExecutes, AgentRole
  <2>2. step = 3
    BY <2>1 DEF CountInv
  <2> QED
    BY <1>0, <2>1, <2>2 DEF CountInv, NotYetActed
<1>11. CASE RemediationProposes \/ HandlerReturns \/ GovernanceReturns
  <2>1. /\ UNCHANGED <<effects, runs, pc, step>>
        /\ agent'["remediation"] # "model"
    BY <1>11 DEF RemediationProposes, HandlerReturns, GovernanceReturns, LeavesSafeAction, AgentRole
  <2> QED
    BY <1>1, <2>1 DEF NotYetActed
<1>12. ASSUME NEW r \in AgentRole, AgentSucceeds(r) \/ AgentDegrades(r)
       PROVE  CountInv'
  <2>1. /\ UNCHANGED <<effects, runs, pc, step>>
        /\ agent'["remediation"] = "model" => agent["remediation"] = "model"
    BY <1>12 DEF AgentSucceeds, AgentDegrades
  <2> QED
    BY <1>1, <2>1 DEF NotYetActed
<1> QED
  BY <1>2, <1>3, <1>6, <1>7, <1>8, <1>9, <1>10, <1>11, <1>12 DEF Next, Coordination, Agents

\* However often the pipeline is started on the incident, and whatever it stored of
\* the earlier starts, each start calls the handler of the safe action at most once.
THEOREM OneExecutionPerStart == Spec => []ExecutesOncePerRun
<1>1. Init => CountInv
  BY DEF Init, CountInv, NotYetActed, NoAgents, AgentRole
<1>2. TypeOK /\ CountInv /\ [Next]_vars => CountInv'
  BY CountStep
<1>3. CountInv => ExecutesOncePerRun
  BY DEF CountInv, ExecutesOncePerRun
<1> QED
  BY <1>1, <1>2, <1>3, TypeCorrect, PTL DEF Spec
==============================================================================
