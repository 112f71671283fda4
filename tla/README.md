# nthlayer-workers: specifications and proofs

TLA+ modules, TLC configurations and TLAPS proofs for the workers of nthlayer
(`src/nthlayer_workers/`; paths below are relative to that directory).

## The system

One process, started by `cli.py`, runs a `ModuleRunner` (`runner.py`) over the
worker modules observe, measure, correlate, respond and learn. The runner calls
`process_cycle()` of one module after the other; the modules talk to each other
only through nthlayer-core, an HTTP service outside this repository that stores
verdicts, assessments, cases, manifests and each module's `component_state`.
respond also exists as a command line program of its own (`respond/cli.py`) with
SQLite stores and an approval server.

| Component | State | Operations | Interaction | What is hard |
|---|---|---|---|---|
| runner (`runner.py`) | last run of each module, shutdown flag | restore all, run a cycle, store the state after it, store all at shutdown, heartbeat | GET/PUT `component_state` in core | crash between a cycle's effects and the PUT; failed GET or PUT |
| respond pipeline (`respond/coordinator.py`, `respond/agents/`) | `IncidentContext`, safe-action cooldowns | run, resume, four steps of agents, step timeout, gates | model calls, verdicts, context store or runner, webhooks | two agents at once on one context, failures after half a change, two saves per step, re-entry |
| approval server (`respond/server.py`, `respond/coordinator.py`) | lock table, timeout tasks, the incident's row | approve, reject, Slack action, timeout, recovery at start-up | HTTP, the CLI beside it, the safe action's webhook | races between requests, timeout and CLI; failing stores; locks that leave the table |
| respond ingestion (`respond/worker.py`) | incidents, two cursors | read snapshots and orphan breaches, open incidents and cases, drive incidents | core | deduplication under failed polls, replay after a crash |
| on-call (`respond/oncall/`) | escalation states and tasks, rotation | start, acknowledge, step, resolve on-call | notification backends | acknowledgement against a step in flight, end of the chain |
| measure (`measure/worker.py`, `measure/thresholds/`) | SLO status, decisions, severities, autonomy levels, threshold states | evaluate, detect, govern, clear, release | Prometheus, verdicts, runner | once per breach and one-way, across missing data, restarts and lost writes |
| correlate worker (`correlate/worker.py`, `correlate/session.py`) | session windows, one cursor | poll, group, close, submit a snapshot, topology drift | core, Tempo | one cursor over several polls, windows without events after a restore |
| correlate engine (`correlate/correlation/`, `snapshot/`, `traces/`, `state.py`) | event store, situation state, snapshot cache | deduplicate, group, link, prioritise, ask the model, gather evidence | webhook, Prometheus, Tempo, model | the cache, the calm period and the model's failures meet in one loop; each query fails alone |
| learn workers (`learn/worker.py`) | two cursors | resolve outcomes, expire, retrospectives | core | cursors that pass unfinished work |
| learn commands (`learn/recommendations.py`, `_interactive.py`, `_apply.py`, `_gh.py`) | manifests on disk | recommend, walk, apply, open a pull request | operator, git, gh | several edits of one file, an operator who goes back, writes that fail half way |
| observe (`observe/`) | none between cycles | collect SLOs, drift, discovery, portfolio, deployment gate | Prometheus, service registries, core | decisions at their boundaries; the failure of one service, query or provider |

What would make each correct: the pipeline never finishes an incident past a gate
and always settles; an approval's action runs once, alone, and never after a
rejection; autonomy is lost once per breach and never regained; no trigger opens
two incidents or none; an escalation ends acknowledged or exhausted; no event or
pending verdict is skipped by a cursor; the gate's decision equals its policy.
`PROJECT.json` lists every component with its status and every hazard with its line.

## Plan

Written, in order of importance: the respond pipeline, the approval decision and the
measure governance, with their theorems; then the workers that ingest, escalate,
group, resolve and evaluate; then the functions that answer from their arguments.

Left, in this order:

1. `ModuleRunner` as one loop over several modules: today each module's model has the
   runner's restore and store as actions of its own, and the heartbeat and the graceful
   stop are missing.
2. `VerdictLineage`: the parents that the two parallel agents record.
3. The topology drift of the correlate worker with the time between its polls (its
   divergence is in `CorrelateEvidence`, once per call).
4. Theorems about the functions of `AssembledAnswers`, the only property of `commands` without
   one: the condition evaluator, drift, the merge of what was discovered, the groups of the
   correlation engine.

## Modules

### IncidentTypes, IncidentPipeline, IncidentLifecycle

`IncidentPipeline` follows one incident through `Coordinator.run`/`resume`. `mem` is
the `IncidentContext` in memory and `db` the stored one. `WorkerMode` tells the two
deployments of the same code apart: in the CLI `save()` writes SQLite, in the worker
it does nothing and the runner stores the state after the cycle (`Persist`).

* `EnterSettled`, `EnterCompleted`, `EnterStep` are the ways into `_run_pipeline`;
  `Driven` is the worker's own filter, which `resume` lacks.
* Each agent of a step is somewhere in `execute()` (`agent`), and the two of step 2
  interleave. `AgentDegrades` covers a failed model call, parse or submission, also
  after the result was applied. `RemediationProposes` and `RemediationExecutes`
  follow `parse_response` with the registry's approval ratchet, the cooldown and the handler.
* `StepTimeout` is `asyncio.wait_for`; `StepRaises` is an exception out of a serial
  step; `StepDone` stores the step index, and only after it come the gates
  (`GateEscalates`, `GateAwaitsApproval`, `GateContinues`, `GateResolves`), with
  saves of their own. `Crash` may fall between any two of these.

A `step_timeout_seconds` of 0, which the configuration admits, switches the timeout off; what
`Settles` says does not hold of an agent that hangs then, and the models do not have it.

Data is abstracted to what the gates read: whether an action is proposed, whether it
needs approval, whether an agent asked for a human. Steps count from 1.

`IncidentLifecycle` is the promise: open until resolved, escalated, failed or paused;
final afterwards; never resolved without a consent it needs.

### ApprovalServer

One waiting incident, a set of requests, the timeout task and CLI invocations. A
client goes from `idle` (or `sleeping`) to `queued` at a lock of the table to
`handler` to `done`. `reject()` never awaits and `approve()` awaits only the safe action's
handler, so within the server both are one step up to that await. A CLI user is another
process: where there are any, each side loads the incident (`Load`) and saves it in two steps,
and the other may write in between. `endings` records how the calls of the handler
ended: `effects` counts calls, which may raise or die with their process. `Queue` is `_get_lock`; `Finish` is
`cancel_timeout`, which
also drops the lock from the table although others may queue for it; `Conclude` holds
the failure paths of the verdict and context stores. `StartServer` is
`recover_pending_approvals`. The pipeline is one action here (`AwaitApproval`), being
another process.

`start_timeout` (`respond/server.py:289`) has no caller in the sources and is not a step.

### MeasureGovernance

One service with its judgment SLOs and thresholds. `mem` is the module's state,
`stored` core's copy. `Cycle` is the whole of `process_cycle`: nothing else in the process
reads the state during it. What Prometheus answers, which thresholds fire, re-arm or retire
and whether core takes the verdict are free choices here; `ThresholdPhase` and `Hysteresis` say
which of them the code makes. `ClassifySeverity`, `Reduction`
(`_compute_governance`) and `ReduceAutonomy` are the code's functions over percentages
and ladder positions. `published` and `acted` record what core was told; they decide nothing.
Threshold re-keying is in `ThresholdPhase`; a restore of another `threshold_state_version` is left out.

### RespondIngest

Core's two logs, the worker's cursors and incidents, and core's copy of them. One action
per await that others can reach between: `PollSnapshots`, `IngestSnapshot` (one turn
of the loop, the case it creates in core included), `PollBreaches`, `IngestBreach`,
`Drive`, `Persist`. Producers publish at any moment, so a snapshot may arrive between the
two polls. A failed poll is an empty page, as in the code. A snapshot may be one that no incident
can be opened from, or one that cannot be read at all: looking for its `parent_ids` then
raises out of `process_cycle` (`FallbackRaises`). A breach may be one that no incident can be built from.
What `Drive` does to an incident is `IncidentPipeline`'s subject; here it ends waiting or terminal.
`Persist` may leave out any terminal incident, also one that was never stored, since the retention may
be 0. `settled` is the history of the triggers of incidents driven to their end;
with what core has stored they are what `CursorCovered` counts as not lost.

### OnCall, SafeActions, CorrelateSession, LearnWorkers, ThresholdPhase

Five protocols that share no variable. `MCWorkers` checks them in one run, one
component per behaviour.

* `OnCall`: the rotation as the code computes it (the primary counted from the year 2000,
  the hand-off walked back from today), overrides, `start_escalation` with its immediate
  steps, the loop with its sleeps, a send as two steps around its await, acknowledgement
  and shutdown at any point. The code tests the rotation's type twice, by `type` (for the
  period) and by whether the handoff names a weekday; both tests are kept apart (`weekly`, `dayNamed`), and
  `RotationHandsOver` is asked of schedules where they agree. An empty roster raises, as in the code; a policy is any
  sequence of `PolicySteps`.
* `SafeActions`: `execute` for one action and target with several calls under way: the
  check of the cooldown and its record are separate steps with the handler's attempts,
  back-off and verification between them; `Cancel` is the remediation step's timeout.
* `CorrelateSession`: four polls behind one cursor, each of a page of at most `PollLimit` records
  (of assessments cut before the cursor is applied), records that raise out of the poll or, half-way, out of
  the ingestion, `Ingest` into windows by domain,
  closing by gap, duration or breach, one snapshot per closed window, and the state stored
  without the windows' events (`SaveState`, `RestoreSession`).
* `LearnWorkers`: both modules with their pages, cursors, refusals and the runner's
  store. Evidence may arrive between a query and the resolution. The order in which core lists
  is open (`newestFirst`): the code neither asks for one nor sorts. The retrospective module polls
  without cursor or limit, so it sees core's first `ListLimit` snapshots, and one that cannot be
  read raises out of the cycle (`RetrospectRaises`).
* `ThresholdPhase`: the entries that share a threshold key. The queue of a run gives every
  entry its place, and the next run starts with the first that was not reached (`Rotated`). `Migrated` is the
  re-keying by
  digest, `StartRun` ... `Finish` the bounded concurrency with its rotation, `PhaseTimeout`
  the cut-off with verdicts in flight, or during the retention query that precedes the first evaluation,
  `GovernThresholds` what reaches governance.

### The functions that answer from their arguments

`DeployGate`, `ObserveCycle`, `Dependencies`, `Hysteresis`, `AgentQuality`, `Correlation`,
`CorrelateEvidence` and `LearnApply` model code that keeps no state between calls, or whose
state is rebuilt in a call (a walk of the operator, the phases of `correlate serve`, the polls
of an adapter). Such a call goes through a sequence, most often as a recursive function of the
place in it: `States`, `CountAt` and `Reported` of `Hysteresis`, `Received` and `Queued` of `AgentQuality`,
`Consumed` of `DeployGate`, `Reached` of `Dependencies`, `History` of `Correlation`, `Traverse`, `RootCauses`
and `Confidences` of `CorrelateEvidence`, `Walked`, `Classified` and `LogsAfter` of `LearnApply`;
elsewhere it is a fold. `Decision` declares the one variable,
`call`: the function called and its arguments, chosen initially from the `CallsOf...` set
of that function. Each property compares the code's algorithm (named as in the code)
with what it is for, stated without the algorithm. What fails is in the arguments: the cycles of `correlate serve`
that end in `correlation_error` (`failed`), an answer with more, fewer or untagged assessments than
there were groups, a query whose answer raises, a manifest that the failing write has already
emptied (`opened`):

| Module | Properties |
|---|---|
| `DeployGate` | `GateClosesWithBudget`: neither more consumed nor a stricter policy opens the gate; `ConditionsMeanWhatTheySay`: the evaluator against the conditions' meaning, where the code's grammar holds (see below); `CloserScoresHigher` |
| `ObserveCycle` | `CycleKeepsServicesApart`, `SignalsKeepServicesApart`: adding a service or failing its query changes nothing of another; `CommandsAgree`: status, portfolio and collection; `LowerIsNoMilder` for drift |
| `Dependencies` | `DiscoveryIsMerged`: independent of the providers' order and failures; `GraphHasWhatIsDeclared`; `BlastIsReachability` against reachability in the graph: what depends on a member is one, and what depends only on services apart is none |
| `Hysteresis` | `RaisedOncePerEpisode` over every sequence of samples with a clock that may stand or go back; `CorruptNeverSilences`; `QuantileIsHonest`; `SampleKeepsBoundsApart`; `WindowsAreCounted` |
| `AgentQuality` | `IntakeTakesEachOnce`; `AcknowledgedIsQueued`; `PipelineReportsWhatItStored` with every step failing; `FailuresPromote`; `OverrideIsWhole`; `RatesAgree` |
| `Correlation` | `EventsAreKeptOnce`; `GroupsPartition`; `UrgencyIsMonotone`; `ServeFollowsSituation`; `PromptKeepsUrgent` |
| `CorrelateEvidence` | `DriftIsExact`; `ContractsStandAlone`; `BlameIsGrounded`; `ParentAfterChildren`; `GroupsAreExplained`; `GatherIsLocal` |
| `LearnApply` | `RecommendationsAreGrounded`; `WalkKeepsDecisions`; `ApplyIsSafe`; `PullRequestIsLast` |

`MCCommands` composes them with `ApprovalServer` (a behaviour is either some requests to the
server or one call of a function) and groups the properties by the part that answers:
`MeasureAnswers` for measure's figures, `CorrelateAnswers` for the situation and the evidence,
`OperatorAnswers` for what an operator reads and decides (the gate, the suspicion of a deployment, the
observe commands, the blast radius, learn), and `AssembledAnswers` for what is put together from a text or
by folding over sets: conditions, drift, discovery, deduplication, groups and prompts.

## Runs

| Run | Checks | Shows |
|---|---|---|
| `pipeline_worker` | GateHolds, TakeoverHonoured, EscalationDrivesGate, Settles, ImplementsLifecycle | the worker, two crashes anywhere: gates hold, the incident settles, the stored incident implements the lifecycle |
| `pipeline_cli` | RatchetHolds, ExecutesOncePerRun, ProgressIsDurable | the CLI with three starts in any state and two crashes: no step begins that is stored as completed |
| `approval_server` | ResolvedMeansActed, TimeoutDecides, RequestsAnswered | two requests, the timeout, a CLI user who takes no lock, two server lives, failing stores: every request is answered, and an incident is resolved only when its action's handler has answered |
| `measure_faults` | BreachGoverned, DecisionFresh, LevelRatchet, OncePerBreach, PublishedRatchet | missing data and a crash, lost write or failed restore |
| `respond_ingest` | CursorCovered, FallbackYields, EveryBreachOpens | two failed polls, refused cases, bad or repeated records, lost writes, crashes, failed restores, and any retention |
| `workers` | RotationHandsOver, AckSilences, EveryStepFires; CooldownSpacing; EventsReportedOnce, HeldIsReported; SignalsTruthful, EvidenceIsUsed, EverySnapshotRetrospected; GovernedAreOpen, OneVerdictPerBreach, EveryEntryReached; WorkersTypeOK, NothingEarlyOrTwice | on-call; safe actions; session windows; learn; thresholds; all five |
| `commands` | HandlerExclusive, ActsAsDecided, ImplementsLifecycle; AssembledAnswers, MeasureAnswers, CorrelateAnswers, OperatorAnswers | the approval server with four requests, healthy stores and one server life: the action takes effect at most once, never after a rejection; the functions above |

Bounds. One incident, service or action per behaviour; `MaxRuns` starts of the CLI,
`MaxCrashes` crashes, `MaxStarts` of the server, `MaxFaults`, `MaxMishaps` and `MaxSlips` failures of any kind.
A crash of the pipeline matters by where it falls in the two saves of a
step, and two crashes already let one hit the recovery of another; more starts repeat
the same states. Three requests are a holder, a waiter that keeps a dropped lock and a
newcomer that makes a new one; four add another waiter. Two SLOs are the fewest with
several breaches at once; readings lie on each side of the target and of the
severity limits, one exactly on a limit. In `respond_ingest` two breaches and two
snapshots can be one anchored, one overlapping and one late; two faults let a failed
poll meet a crash. In `workers`, two executions overlap or follow each other inside and
outside the cooldown; `Gap`, `MaxDuration` and `MaxNow` let a window close each way and open
again; the page of one record (`PollLimit`) and the
list of two (`ListLimit`) are exceeded, `PageSize` holds all verdicts; three bounds are the fewest with an entry
that keeps, one that loses and one that
takes over a shared key; `Starts` are the epoch and a day in a later week, and `MaxRun` crosses a hand-off.

In `commands` `RearmIntervals`, `MaxChain` and `MaxDepth` are the code's own values; `MaxEvaluations` is
long enough to raise, re-arm and raise again; `MaxSeen` and `MaxQueue` are smaller than the code's and
are exceeded; three services give chains, diamonds and cycles; two recommendations share a
document or an id; five keys let the operator decide, go back and decide again. Numbers
lie on, above and below each of the code's limits. Logs of the gate that differ in the names of the SLOs,
and evaluations that differ in their first instant, are taken once; so are the permutations of
the lock objects (`LockSymmetry`), which no step tells apart.

Fairness: in the worker every await of a step is inside `wait_for`, the supervisor
restarts the process and the runner stores the state each cycle, so coordinator, restart and
store are weakly fair; agents owe nothing. In the server asyncio runs what is
ready and the webhook's HTTP calls have timeouts and counted retries, so requests in
progress and the timeout task are weakly fair; no user, CLI or start owes anything.
In `RespondIngest`, `CorrelateSession`, `LearnWorkers` and `ThresholdPhase` the runner calls every module
again and again, so the worker's next step is weakly fair, its restart included, and so is
the passing of time; producers, faults and edits owe nothing. A threshold run is due
only on some cycles, so its start is strongly fair; a run that is cut off during the retention query every
time reaches no entry, and `EveryEntryReached` says so. In `OnCall` the escalation tasks
and the clock are weakly fair, people and backends are not.
`CHECK_DEADLOCK FALSE` is given where an incident that is decided needs no further step.

### Disagreements found

| Run | What the code does |
|---|---|
| `gate_bypassed` | the step index is saved before `AWAITING_APPROVAL`; a CLI crash between the two saves and a resume finish the incident without approval (the same window loses an agent's request for escalation) |
| `approval_failure` | `approve()` ignores `success: False` of the handler and resolves the incident |
| `measure_restore_lost` | a failed GET at start-up starts measure empty and the next PUT restores full autonomy |
| `learn_expiry` | the outcome cursor passes a verdict that is not old enough to expire; it stays pending |
| `threshold_malformed` | an entry that does not parse for one cycle while a sibling appears loses its state to it, and its open breach is raised again |

Met while modelling, without a run of their own:

* respond: with the threshold 0.0 the strict comparison ignores degraded verdicts;
  `start_timeout` (`respond/server.py:289`) has no caller; the comment at `respond/worker.py:442`
  does not hold after a failed snapshot poll (`TriggerOpensOnce`, stated in
  `RespondIngest`, is false; `FallbackYields` is what remains of it); a snapshot that
  cannot be opened takes its breaches with it; one whose data is no mapping raises out of `process_cycle` in every
  cycle that finds orphan breaches while it is in the page, though the code elsewhere logs a bad record and goes
  on; a strict `created_at` cursor misses an equal
  timestamp; an exhausted escalation reaches nobody; `resume()` accepts a terminal incident; a weekly
  rotation whose handoff names no weekday, or a daily one whose does, is accepted, and
  `rotation_handoff` is then not when the primary changes (`oncall/schedule.py:152` and `:220`).
* measure: an open breach whose query fails in a cycle is not counted with a new one; a
  refused `quality_breach` is not sent again; a restore of another
  `threshold_state_version` clears the governed set and keeps the decisions;
  `check_agent` passes `since=None` to a store that calls `since.strftime`, and the SQLite
  store never stores the tier, so a tier cannot be promoted by it; `_trigger_chain`
  takes the newest verdict although its comment says the most recent breach;
  `tiering restore` only prints; a Devin session whose detail GET fails is lost; the
  evaluation pipeline has no live caller; an override whose resolution fails stays stored
  with its verdict pending.
* observe: the condition evaluator takes a call inside brackets for false and a leading
  NOT for the negation of all the rest; `require_approval` gives WARNING at 0 %; an
  unreadable newest reading hides an older exhausted one; an objective of 100 is always
  HEALTHY; `verify` ignores `indicator_query`; drift with no budget left and a
  non-negative slope is NONE; a topology built by worker or CLI has no tiers, so its critical count is 0;
  the Prometheus provider's downstream filter names only the first label and Backstage types
  its downstream edges SERVICE.
* correlate: the divergence reports edges to services without a profile as undeclared although
  `traces/topology.py:12` says such edges are ignored; `correlate` never fetches change
  events, so its heuristic causes are empty; DEGRADED is left in the next cycle;
  a full webhook queue is not reported; a failing `store.insert` ends the loop of `serve` (not modelled);
  assessments are polled as a page of 100 without `created_after`, so if core lists the oldest first
  the newer ones are never reached, where `correlate/worker.py:115` leaves them to the next cycle; an answer with
  `tags: null` stores the children and no parent; a contract
  promise above 1.0 skips its latency promise; the verdict chain has no caller.
* learn: `tighten_slo` proposes the midpoint below the target, which is looser; ids
  omit the service, so two services share one; `--force` on an append to a list that
  drifted raises and ends the run; manifests are written before the checks of the pull
  request; the writes are not atomic although the docstring of `_apply.py` says so: a write that fails leaves an
  empty manifest, and the next run raises on it; a snapshot without readable data stops the
  retrospective module for all snapshots after it; a page of fifty
  resolved verdicts stalls the outcome module.

## Proofs

All for every value of the constants.

`IncidentPipelineProofs`: `TypeCorrect`; `ApprovalGate`, `TakeoverGate` and
`EscalationGate` when `WorkerMode \/ MaxCrashes = 0` (without it they are false:
`gate_bypassed`); `ApprovalRatchet` without condition;
`WorkerImplementsLifecycle` for the worker. `GateHolds` is not inductive: it looks at the
stored record, while the decision is taken from memory. `GateInv` says of both
records that a flagged takeover is still pending, that a context at rest has had the
gates of its last step applied, and, step by step, how far a run may have got while
approval is due. Only the CLI between its two saves has a stored record whose gates
are not applied; the condition removes the crash that would expose it.
`OneExecutionPerStart` (ExecutesOncePerRun) counts a start before it can act (`CountInv`), and
`ProgressDurable` (ProgressIsDurable) rests on `ProgressInv`: the step that runs is the one after
the progress in memory, and what is stored never runs ahead of it. Both hold in both deployments,
whatever crashes: a step begins above the progress in memory, and the stored one is no more than that.

`CommandsProofs`, the approval server: `TypeCorrect`; `OneHandler` (HandlerExclusive) and
`ServerImplementsLifecycle` when nobody decides through the CLI, for any number of
requests, restarts and failing stores. `LockInv` carries the argument: while the
incident is undecided all clients that hold or queue hold the table's lock, so a second lock can
exist only when no approval can be executed any more. `ResolvedActed` (ResolvedMeansActed) needs
no such condition and is inductive with the types: the only step to `RESOLVED` is the one that notes how
the handler ended, and what is noted stays.
`ActedOnceAsDecided` (ActsAsDecided) assumes what the `commands` run has: healthy stores, one
server life and nobody at the CLI; `OnceInv` says that an undecided incident whose action took
effect has a handler running, or had one in the server that died.

`CommandsProofs` and `AnswersProofs`, the functions: `OperatorAnswered`, `MeasureAnswered` and
`CorrelateAnswered` state the three properties of `commands` whole, for arguments of any length where
the run has short ones; their hypotheses (`OperatorCall`, `MeasureCall`, `CorrelateCall`) give the
arguments' types and what is named below. A function that goes through a sequence is a recursive function of
the place; `IterationExists` shows that the function so defined exists, and `IntervalInduction` carries
an invariant from one place to the next. Both come from `Induction`, which speaks of a set of numbers
and rests on the least number of a non-empty set. In `CommandsProofs`:

* `GateFollowsBudget` (GateClosesWithBudget): sums of budgets that grow term by term. `ScoresGrow`: each
  part of the suspicion of a deployment is a capped quotient, and quotients grow.
* `CycleApart` and `SignalsApart`: a cycle's results are those of each service's own.
  `CommandsConcur` (CommandsAgree): the worst of the statuses is what store, portfolio, score,
  explanation, record and exit codes all look at. It assumes that the SLOs of a service have different
  names: the store keeps the newest reading of a name, so with two SLOs of one name the stored status may differ
  from the collected one.
* `BlastReaches` (BlastIsReachability): each step of the search adds a service or none, so after as many steps
  as there are services it is closed; hence `MaxDepth` must be no less than their number.
  The code stops at 10 steps: a service farther than that is missed.
* `RaisedOnce` (RaisedOncePerEpisode): the count is the number of within evaluations since the run began,
  and the run began with one. `SituationServed` (SituationFollowed) carries since when it has been calm and
  since when the cached groups have been there; `PhasesServed` asks it of every `serve` call.
* `TakenOnce` (IntakeTakesEachOnce): the seen set is the newest part of what was taken, without
  repetition and all of it until it is full, so what comes back has a whole set of others behind it.
* `RecommendationsGrounded`, `PullRequestLast`, and `WalkDecided` (WalkKeepsDecisions), whose invariant is that
  the state kept of an id is the last key pressed on it, the edit included.
* `PlanApplied` (ApplyIsSafe): a run that raises before it writes changes nothing, and failing writes cost one
  manifest at most; without force a second run adds nothing to one that succeeded. When a recommendation is
  classified, its value in the documents in memory is
  the manifest's or what an earlier one proposed. It assumes `FromOneState`: a plan is made from one state of the
  manifests, so nothing in it is proposed that another says it found; a plan put together from two states
  may undo itself when it is applied twice.

In `AnswersProofs`:

* `QuantileHonest`: cumulative counts do not depend on the buckets' order, and made monotonic they cross every
  rank once.
* `WindowsCounted`: the log after every window has one verdict for each SLO with data. It assumes
  `WithinReach`: the history that `count_consecutive_breaches` reads is a page of the verdicts of all SLOs, so
  an SLO with
  so little data that its last verdicts have left the page is counted short (the code's own limit).
* The rest of `MeasureAnswered`: what a state file says, readable or not, silences no breach by accident; the
  samples of two bounds stay apart; an event follows a stored score; what was answered 200 is what the
  queue grew by; another failing sample only moves a mean down (for a quality above the failing
  sample's); an override is stored whole or not at all; rates are shares.
* `BlameGrounded`: by induction over the depth left, each chain follows overridden verdicts; that a service
  got worse is an argument about means (if one fell, some verdict is below one from before). It
  needs finitely many services and a depth of at least one.
* `GroupsExplained`, `DriftReported`, `ContractsApart`, `ParentsLast` and `GatheredLocally`, the last with the
  same argument about closed searches as the blast radius.
`MeasureGovernanceProofs`: `TypeCorrect`, `EveryBreachGoverned`, `DecisionsFresh`,
`GovernedReduced`, `RatchetHolds`, for any SLOs, thresholds, targets and number of faults.
`GovernanceInv` states the same four facts of the state in memory and of the one in core,
since a restart exchanges them; the empty state satisfies them too, so a failed
restore does no harm to these properties. `OneVerdictPerKey` (OncePerBreach) and
`PublishedNeverRises` (PublishedRatchet) speak of what core was told. They hold until the first
fault, as the properties do; `RecordInv` says that until then a verdict sent is a decision in memory, that the
level announced is not above the one held, and that a restart finds the state it left.
`StoredNeverRises` (StoredRatchet) assumes that no restore fails; `measure_restore_lost` shows
that it is false otherwise.

`SafeActionsProofs`: `SafeTypeCorrect`; `CooldownKept` (CooldownSpacing) and
`NoRepeatAfterSuccess`, for any cooldown, blast radius, attempts and number of overlapping
calls. The property looks at an action when it acts, long after its check; `SafeInv`
therefore says that every call which may still act is already spaced from all recorded ends
that lie before its beginning, and that the registry's row is the latest of them.

`SafeActionsProofs`, on-call: `OnCallTypeCorrect`, `StepsFireInOrder` (StepsInOrder), `ChannelPagedOnce`
(HereOnce), `AcknowledgedIsSilent` (AckSilences) and `RotationAgrees` (RotationHandsOver), for any
incidents, policies and schedules. `RunnerInv` ties the log to the index:
the log has one entry for every step begun, none before its delay; no thread is anchored while a
page with @here waits for its answer, and once one was delivered there is a thread. The theorem about the
rotation is arithmetic: the days since the epoch divided by the length of a turn
change exactly where the walk back from today finds the hand-off, if the schedule is `WellWritten`.

`RespondIngestProofs`: `IngestTypeCorrect`; `NothingPassedUnheld` (CursorCovered) and
`FallbackNeverRepeats` (FallbackYields), for any number of breaches, snapshots and mishaps.
`IngestInv` treats the two copies differently: what the cursors in memory have passed is in
an incident held in memory or one that was driven to its end, what the stored cursors have passed is in a
stored one or one driven to its end, and the two are exchanged only together with their incidents.
Nothing is assumed of the retention: `AllEnded` says that the triggers of a terminal incident are in
`settled`, so pruning it, stored or not, takes nothing away. For the fallback it adds
that an incident opened from a snapshot holds that snapshot's breaches with it.

`WorkersProofs`, the session windows: `ReportedOnce` (EventsReportedOnce), for any domains, kinds, gaps
and number of failed polls. The cursor separates events taken from events to come, and
a window holds only events of its own domain, also after an ingestion that raised half-way; the first makes new
events disjoint from
those reported, the second makes windows disjoint from each other. The invariant holds until a
restart, as does the property: a restart replays a cycle whose state was not stored.
`SessionTypeCorrect` and `BreachCloses` (BreachClosesWindow) hold across restarts: by `WindowInv` every
window kept, in memory or stored, has not seen a breach, because the step that ingests one closes it.

`WorkersProofs`, learn: `SignalsTrue` (SignalsTruthful), for any number of verdicts, refusals
and crashes and any page size. `LearnInv` says that the page still agrees with core, since nobody
else resolves a verdict; that the verdict in work is pending until core has its
resolution, so a replayed page cannot reach it again; and that it has no signal before then.
`NoEvidencePassed` (EvidenceIsUsed) needs `CursorInv`: the rest of a page continues the
verdict in work without a gap, and between the cursor and it nothing is left that could have been
resolved; this holds of a core that lists the oldest verdicts first, as the property says. `OneRetrospective`
(RetrospectsOnce) needs `RetroInv`, that while the module keeps its
cursor all retrospectives lie behind it; `LearnTypeCorrect` rests on all three.

`ThresholdPhaseProofs`: `OpenAreGoverned` (GovernedAreOpen), for any bounds, concurrency, edits and
unreadable manifests. Within a cycle the two sides differ; `GovernInv` says that by then every
disarmed key is governed or noted as accepted, and `MigrationKeeps` that a state under a new key
comes from an old key that governance renames in the same way. `ThresholdTypeCorrect` holds of
the same inputs. `ToldOnce` (OneVerdictPerBreach) holds while every manifest parses and every run
ends, the property's own condition (`threshold_malformed` shows the other case): `ToldInv` says that
the state under an entry's key has the entry's digest, that an entry whose breach core knows of is
disarmed, and that a whole cycle leaves no state of another key for the next re-keying to confuse.

`WorkersTypeCorrect` (WorkersTypeOK) and `WorkersNeverEarlyOrTwice` (NothingEarlyOrTwice), in the same module,
are about
`MCWorkers` whole: a step of one component is a step of its own specification and
leaves the others' variables, so the five invariants hold together.

The theorems hold for every value of the constants whether or not a run checks the same
formula; `GovernedReduced`, `StoredNeverRises` and the type theorems of the single modules are in
no passing run under their own name, and the parts of `NothingEarlyOrTwice` (`StepsInOrder`, `HereOnce`,
`RetriesStop`, `BreachClosesWindow`, `RetrospectsOnce`) and of the `...Answers` only as parts.

Only model-checked: liveness (`Settles`, `TimeoutDecides`, `RequestsAnswered`, `EveryBreachOpens`,
`EveryStepFires`, `HeldIsReported`, `EverySnapshotRetrospected`, `EveryEntryReached`),
because the prover has neither ENABLED nor fairness; and `AssembledAnswers`. The condition evaluator is a
recursive descent over nested conditions, which is induction over data; drift is a regression whose sums are
products of variables; and discovery, deduplication, groups and prompts go through folds and sorts
of the community modules, which take operators, so that the prover's library could not state
a theorem about them. No module has a RECURSIVE operator.

## Not modelled

* Prompts, model answers and their parsing, rendering, SQL, HTTP, metrics and
  logging: no property is about them, and their failure is a choice of the models.
* The command line's arguments and the construction of the modules; respond's SRE
  commands, which format stored verdicts; the wording of notifications.
* The verdict lineage of the parallel agents, the decision records of observe
  (`_write_decision_record` reads a chain and writes its end without a lock), search and
  expiry of the correlate store, learn's trends and terminal user interface.
* The runner's loop over several modules, its heartbeat and its graceful stop.
* nthlayer-core: modelled only by how the workers use it: a request succeeds or fails.
* The hazards of `PROJECT.json` that no property covers, each with its reason there: the count of open breaches
  when one is unread, overlapping executions past the cooldown's check, restored windows
  without events, and the page the consecutive breaches are counted in.
* Code without a caller in the sources: `start_timeout`, `declare_incident` and
  `resolve_incident`, stored template assessments, the `--incident` stub of learn.
