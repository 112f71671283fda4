------------------------------- MODULE OnCall -------------------------------
(***************************************************************************)
(* On-call escalation (respond/oncall/): the rotation schedule, the        *)
(* escalation state machine and the runner that sends its steps through    *)
(* the notification backends.  Time is a natural number of ticks of the    *)
(* schedule's wall clock since Monday 2000-01-03 00:00, the date the       *)
(* rotation is counted from; a roster member is its position.              *)
(***************************************************************************)
EXTENDS Integers, Sequences, FiniteSets

CONSTANTS
    Incidents,      \* incidents an escalation is started for
    Escalations,    \* escalation policies: sequences of manifest steps
    Schedules,      \* on-call configurations
    Starts,         \* instants the process may be started at
    MaxRun,         \* bound on the clock, counted from that instant
    TicksPerDay

ASSUME OnCallBounds == MaxRun \in Nat /\ TicksPerDay \in Nat \ {0} /\ Starts \subseteq Nat

PolicySteps == [after : Nat, notify : STRING, target : STRING, valid : BOOLEAN]

ASSUME OnCallInputs ==
    /\ \A policy \in Escalations : policy \in Seq(PolicySteps)
    /\ \A c \in Schedules :
           /\ c.n \in Nat /\ c.weekly \in BOOLEAN /\ c.dayNamed \in BOOLEAN
           /\ c.weekday \in 0..6 /\ c.tick \in 0..(TicksPerDay - 1)

VARIABLES
    schedule,       \* the oncall configuration
    clock, base,    \* now, and the instant the process started
    esc,            \* incident -> EscalationState and where its coroutine is
    anchored,       \* incidents whose channel thread _thread_anchors knows
    log,            \* history: incident -> the steps begun
    up

onCallVars == <<schedule, clock, base, esc, anchored, log, up>>

Statuses == {"active", "acknowledged", "exhausted"}
\* "start": start_escalation between two steps; "loop", "asleep": _run_loop.
EscalationPhases == {"none", "start", "startSend", "loop", "loopSend", "asleep", "done"}
NoEscalation == [steps |-> << >>, index |-> 0, status |-> "active",
                 started |-> 0, phase |-> "none"]
\* No configuration yet: no configuration hands over on day 7 of the week.
Unset == [n |-> 0, weekly |-> FALSE, dayNamed |-> FALSE, weekday |-> 7, tick |-> 0,
          overrides |-> << >>, channel |-> FALSE, backends |-> {}]

OnCallTypeOK ==
    /\ clock \in base..(base + MaxRun)
    /\ \A i \in Incidents :
           /\ esc[i].status \in Statuses /\ esc[i].phase \in EscalationPhases
           /\ esc[i].index \in 0..Len(esc[i].steps)
           /\ Len(log[i]) = esc[i].index
    /\ anchored \subseteq Incidents
    /\ up \in BOOLEAN

OnCallInit ==
    /\ schedule = Unset /\ clock = 0 /\ base = 0 /\ up = FALSE
    /\ esc = [i \in Incidents |-> NoEscalation]
    /\ anchored = {}
    /\ log = [i \in Incidents |-> << >>]

-----------------------------------------------------------------------------
(* schedule.py *)

\* The rotation's type gives its period; whether the handoff names a day of the week
\* is tested apart, on the handoff's own text.
RotationPeriod(c) == IF c.weekly THEN 7 * TicksPerDay ELSE TicksPerDay
HandoffEpoch(c) == (IF c.dayNamed THEN c.weekday * TicksPerDay ELSE 0) + c.tick

\* Mutant: a handoff that is still ahead today is taken for the last one.
MutFindLastHandoff(c, now) ==
    LET day == now \div TicksPerDay
        back == IF c.dayNamed THEN (day - c.weekday) % 7 ELSE 0
    IN  (day - back) * TicksPerDay + c.tick

\* The handoff of today, walked back to its weekday, and one week or day more
\* when that is still ahead.
FindLastHandoff(c, now) ==
    LET day == now \div TicksPerDay
        back == IF c.dayNamed THEN (day - c.weekday) % 7 ELSE 0
        candidate == (day - back) * TicksPerDay + c.tick
    IN  IF candidate > now
        THEN candidate - (IF c.dayNamed THEN 7 * TicksPerDay ELSE TicksPerDay)
        ELSE candidate

Covers(o, now) == o.start <= now /\ now < o.end

\* The first override that covers now wins; otherwise the periods elapsed since
\* the epoch, modulo the roster.  An empty roster raises, and so does an override of
\* a user who is not in the roster.
ResolveOncall(c, now) ==
    LET covering == {k \in DOMAIN c.overrides : Covers(c.overrides[k], now)}
        first == c.overrides[CHOOSE k \in covering : \A j \in covering : k <= j]
        elapsed == now - HandoffEpoch(c)
        position == IF elapsed < 0 THEN 0 ELSE (elapsed \div RotationPeriod(c)) % c.n
    IN  IF c.n = 0
        THEN [primary |-> 0, secondary |-> 0, handoff |-> now, source |-> "none",
              raises |-> TRUE]
        ELSE IF covering # {}
        THEN [primary |-> first.user, secondary |-> (first.user + 1) % c.n,
              handoff |-> first.end, source |-> "override",
              raises |-> first.user >= c.n]
        ELSE [primary |-> position, secondary |-> (position + 1) % c.n,
              handoff |-> IF elapsed < 0 THEN HandoffEpoch(c)
                          ELSE FindLastHandoff(c, now) + RotationPeriod(c),
              source |-> "rotation", raises |-> FALSE]

-----------------------------------------------------------------------------
(* escalation.py *)

IsActive(e) == e.status = "active"

\* Mutant: the delay of the step before.
MutPreviousDelay(e, now) ==
    /\ IsActive(e) /\ e.index < Len(e.steps)
    /\ now >= e.started + (IF e.index = 0 THEN 0 ELSE e.steps[e.index].after)

\* Mutant: the status is not looked at.
MutAnyStatus(e, now) ==
    /\ e.index < Len(e.steps)
    /\ now >= e.started + e.steps[e.index + 1].after

NextDueStep(e, now) ==
    /\ IsActive(e) /\ e.index < Len(e.steps)
    /\ now >= e.started + e.steps[e.index + 1].after

\* Mutant: an exhausted escalation starts over.
MutPolled(e) == IF IsActive(e) /\ e.index >= Len(e.steps)
                THEN [e EXCEPT !.index = 0] ELSE e

\* next_due_step called past the last step.
Polled(e) == IF IsActive(e) /\ e.index >= Len(e.steps)
             THEN [e EXCEPT !.status = "exhausted"] ELSE e

\* time_until_next_step returns None: the loop ends.
NothingLeft(e) == ~IsActive(e) \/ e.index >= Len(e.steps)

-----------------------------------------------------------------------------
(* coordinator.py and runner.py *)

\* _maybe_start_escalation keeps the steps whose delay it can parse, in their order:
\* a set of the one sequence of them.
ParseSteps(policy) ==
    LET valid == {k \in DOMAIN policy : policy[k].valid}
        rising == {p \in [1..Cardinality(valid) -> valid] :
                      \A j, k \in DOMAIN p : j < k => p[j] < p[k]}
    IN  {[k \in DOMAIN p |-> policy[p[k]]] : p \in rising}

Configure ==
    /\ schedule = Unset
    /\ schedule' \in Schedules
    /\ base' \in Starts /\ clock' = base' /\ up' = TRUE
    /\ UNCHANGED <<esc, anchored, log>>

ClockTick ==
    /\ up /\ clock < base + MaxRun
    /\ clock' = clock + 1
    /\ UNCHANGED <<schedule, base, esc, anchored, log, up>>

StartEscalation(i) ==
    /\ up /\ esc[i].phase = "none"
    /\ clock = base
    /\ \E policy \in Escalations : \E steps \in ParseSteps(policy) :
           /\ policy # << >>
           /\ esc' = [esc EXCEPT ![i] = [steps |-> steps, index |-> 0,
                          status |-> "active", started |-> clock, phase |-> "start"]]
    /\ UNCHANGED <<schedule, clock, base, anchored, log, up>>

\* Whom _execute_step addresses; "skipped" when no backend takes the step.
Recipient(step) ==
    CASE step.notify = "slack_channel" ->
             IF schedule.channel /\ "slack_dm" \in schedule.backends
             THEN "channel" ELSE "skipped"
      [] step.notify # "slack_channel" /\ step.notify \notin schedule.backends -> "skipped"
      [] OTHER -> IF step.target \in {"next_oncall", "engineering_manager"}
                  THEN step.target ELSE "primary"

\* A channel is paged with @here until its thread is anchored.
PagesHere(i, to) == to = "channel" /\ i \notin anchored

\* The step at the head of e is taken and its send begins; a schedule that
\* raises ends the coroutine, and the rest of the escalation with it.
BeginStep(i, e, sending) ==
    LET step == e.steps[e.index + 1]
        raises == ResolveOncall(schedule, clock).raises
        to == IF raises THEN "raised" ELSE Recipient(step)
    IN  /\ esc' = [esc EXCEPT ![i] = [e EXCEPT !.index = @ + 1,
                       !.phase = IF raises THEN "done" ELSE sending]]
        /\ log' = [log EXCEPT ![i] = Append(@,
                     [at |-> clock, to |-> to, here |-> PagesHere(i, to),
                      result |-> IF to \in {"raised", "skipped"} THEN to ELSE "pending"])]

\* start_escalation compares with the instant it began at.
StartPoll(i) ==
    /\ up /\ esc[i].phase = "start"
    /\ LET e == Polled(esc[i]) IN
       IF NextDueStep(esc[i], esc[i].started)
       THEN BeginStep(i, esc[i], "startSend")
       ELSE /\ esc' = [esc EXCEPT ![i] = [e EXCEPT !.phase =
                                  IF IsActive(e) THEN "loop" ELSE "done"]]
            /\ UNCHANGED log
    /\ UNCHANGED <<schedule, clock, base, anchored, up>>

\* One turn of _run_loop up to its send or its sleep.
LoopPoll(i) ==
    /\ up /\ esc[i].phase = "loop"
    /\ LET e == Polled(esc[i]) IN
       IF NextDueStep(esc[i], clock)
       THEN BeginStep(i, esc[i], "loopSend")
       ELSE /\ esc' = [esc EXCEPT ![i] = [e EXCEPT !.phase =
                                  IF NothingLeft(e) THEN "done" ELSE "asleep"]]
            /\ UNCHANGED log
    /\ UNCHANGED <<schedule, clock, base, anchored, up>>

\* Mutant: an exception of a backend ends the loop.
MutSendRaises(i, delivered) ==
    /\ up /\ esc[i].phase \in {"startSend", "loopSend"}
    /\ esc' = [esc EXCEPT ![i].phase = IF ~delivered THEN "done"
                                       ELSE IF esc[i].phase = "startSend" THEN "start"
                                       ELSE IF NothingLeft(esc[i]) THEN "done" ELSE "asleep"]
    /\ UNCHANGED <<schedule, clock, base, anchored, log, up>>

\* The backend answers: _safe_send turns every exception into an undelivered
\* result, and the first message delivered to a channel anchors its thread.
SendReturns(i, delivered) ==
    /\ up /\ esc[i].phase \in {"startSend", "loopSend"}
    /\ LET k == Len(log[i])
           to == log[i][k].to IN
       /\ log' = IF to = "skipped" THEN log
                 ELSE [log EXCEPT ![i][k].result = IF delivered THEN "delivered" ELSE "failed"]
       /\ anchored' = IF to = "channel" /\ delivered
                      THEN anchored \union {i} ELSE anchored
    /\ esc' = [esc EXCEPT ![i].phase = IF esc[i].phase = "startSend" THEN "start"
                                       ELSE IF NothingLeft(esc[i]) THEN "done"
                                       ELSE "asleep"]
    /\ UNCHANGED <<schedule, clock, base, up>>

Wake(i) ==
    /\ up /\ esc[i].phase = "asleep"
    /\ esc' = [esc EXCEPT ![i].phase = "loop"]
    /\ UNCHANGED <<schedule, clock, base, anchored, log, up>>

InTask == {"loop", "loopSend", "asleep"}

\* acknowledge cancels the loop, in the middle of a send too; a send that
\* start_escalation awaits goes on.
Acknowledge(i) ==
    /\ up /\ esc[i].phase # "none" /\ IsActive(esc[i])
    /\ esc' = [esc EXCEPT ![i].status = "acknowledged",
                          ![i].phase = IF @ \in InTask THEN "done" ELSE @]
    /\ UNCHANGED <<schedule, clock, base, anchored, log, up>>

\* shutdown, or the end of the process: nothing restores an escalation.
Shutdown ==
    /\ up
    /\ up' = FALSE
    /\ UNCHANGED <<schedule, clock, base, esc, anchored, log>>

RunnerStep(i) ==
    StartPoll(i) \/ LoopPoll(i) \/ Wake(i) \/ \E delivered \in BOOLEAN : SendReturns(i, delivered)

OnCallNext ==
    \/ Configure \/ ClockTick \/ Shutdown
    \/ \E i \in Incidents : StartEscalation(i) \/ RunnerStep(i) \/ Acknowledge(i)

OnCallFairness ==
    /\ WF_onCallVars(ClockTick)
    /\ \A i \in Incidents : WF_onCallVars(RunnerStep(i))

OnCallSpec == OnCallInit /\ [][OnCallNext]_onCallVars /\ OnCallFairness

-----------------------------------------------------------------------------
(* Properties. *)

\* A handoff names a day of the week exactly when the rotation is weekly, as
\* _parse_handoff describes the two formats; nothing in the code compares them.
WellWritten(c) == c.dayNamed = c.weekly

\* Of a well-written schedule the two computations of the rotation agree at every
\* instant: who is primary (counted from the epoch by the rotation's type) changes
\* exactly when rotation_handoff (walked back from today by the handoff's own day)
\* says, and then the secondary takes over.
RotationHandsOver ==
    LET now == ResolveOncall(schedule, clock)
        then == ResolveOncall(schedule, now.handoff)
    IN  WellWritten(schedule) /\ now.source = "rotation" =>
            /\ now.handoff > clock
            /\ \A t \in clock..(now.handoff - 1) :
                   LET at == ResolveOncall(schedule, t)
                   IN  at.source = "rotation" => at.primary = now.primary
            /\ (then.source = "rotation" /\ clock >= HandoffEpoch(schedule))
                   => then.primary = now.secondary

\* Steps fire in the order of the policy, each once and none before its delay,
\* even when a later step has the shorter delay.
StepsInOrder ==
    \A i \in Incidents : \A k \in DOMAIN log[i] :
        log[i][k].at >= esc[i].started + esc[i].steps[k].after

\* The whole channel is paged with @here only until one message got through.
HereOnce ==
    \A i \in Incidents :
        Cardinality({k \in DOMAIN log[i] :
                        log[i][k].here /\ log[i][k].result = "delivered"}) <= 1

\* Once somebody has acknowledged, no further step is begun, whether the
\* acknowledgement came while a message was being sent, between two steps of
\* start_escalation or during the loop's sleep.
AckSilences ==
    [][\A i \in Incidents :
          esc[i].status = "acknowledged" => Len(log'[i]) = Len(log[i])]_onCallVars

\* Unless acknowledged, an escalation gets through its whole policy: refused or
\* undeliverable messages do not hold up the steps after them.
EveryStepFires ==
    \A i \in Incidents :
        esc[i].phase # "none" ~>
            \/ Len(log[i]) = Len(esc[i].steps)
            \/ esc[i].status = "acknowledged"
            \/ ~up
            \/ \E k \in DOMAIN log[i] : log[i][k].result = "raised"
=============================================================================
