----------------------------- MODULE AgentQuality -----------------------------
(***************************************************************************)
(* The evaluation of agents' outputs in measure: intake by the adapters,   *)
(* the pipeline (pipeline/router.py, tiering), the score store, and what   *)
(* calibration, trends and detection compute from it.                      *)
(*                                                                         *)
(* Scores are in tenths.  An evaluation is [at, dims], dims a sequence of  *)
(* the scores of its dimensions; an override is [eval, original, corrected,*)
(* at], of one dimension.                                                  *)
(***************************************************************************)
EXTENDS Decision, Integers, Sequences, FiniteSets, SequencesExt, FiniteSetsExt

CONSTANTS
    MaxSeen,       \* _MAX_SEEN of BoundedSeenSet
    MaxPolls,      \* bound on the polls of an adapter
    MaxQueue       \* _MAX_QUEUE_SIZE of the webhook

ASSUME SeenAssumption == MaxSeen \in Nat \ {0}
ASSUME QueueAssumption == MaxQueue \in Nat

-----------------------------------------------------------------------------
(* Intake *)

\* BoundedSeenSet, oldest first: the oldest is forgotten when it is full.
Add(seen, item) ==
    IF item \in ToSet(seen) THEN seen
    ELSE Append(IF Len(seen) >= MaxSeen THEN Tail(seen) ELSE seen, item)

\* receive of devin and gastown: a session is seen before its detail is fetched.  A poll
\* is a sequence of [id, complete, detail]; gastown's items are complete and in detail.
Receive(st, x) ==
    IF x.id \in ToSet(st.seen) \/ ~x.complete THEN st
    ELSE [seen |-> Add(st.seen, x.id),
          took |-> Append(st.took, x.id),
          yielded |-> IF x.detail THEN Append(st.yielded, x.id) ELSE st.yielded]
NothingSeen == [seen |-> << >>, took |-> << >>, yielded |-> << >>]
\* What every item leaves behind; after the last it is what the polls come to.
Received(items) ==
    LET after[i \in 0..Len(items)] ==
            IF i = 0 THEN NothingSeen ELSE Receive(after[i - 1], items[i])
    IN  after
ReceiveAll(items) == Received(items)[Len(items)]

\* The webhook: a request is [size, body, method, valid], the queue its length.
Response(r, queued) ==
    CASE r.header > 1 -> 431 [] r.header <= 1 /\ r.body > 1 -> 413
      [] r.header <= 1 /\ r.body <= 1 /\ r.method # "POST" -> 405
      [] r.header <= 1 /\ r.body <= 1 /\ r.method = "POST" /\ (~r.valid \/ r.cut) -> 400
      [] OTHER -> IF queued >= MaxQueue THEN 503 ELSE 200
Intake(queued, r) == IF Response(r, queued) = 200 THEN queued + 1 ELSE queued
Queued(requests, queued) ==
    LET after[i \in 0..Len(requests)] ==
            IF i = 0 THEN queued ELSE Intake(after[i - 1], requests[i])
    IN  after

-----------------------------------------------------------------------------
(* PipelineRouter.run, one output *)

Tier(o) ==
    CASE o.override # "none" -> o.override
      [] o.override = "none" /\ o.manifest # "none" -> o.manifest
      [] OTHER -> IF o.default # "none" THEN o.default ELSE "standard"
ShouldSample(o) == Tier(o) = "minimal" /\ o.drawn
AutoApproved(o) == o.tiering /\ Tier(o) = "minimal" /\ ~ShouldSample(o)

\* The verdict: approve iff the mean reaches the threshold; an output without
\* dimensions scores nothing.
Mean10(dims) == IF dims = << >> THEN 0 ELSE (10 * FoldSeq(+, 0, dims)) \div Len(dims)
CreateVerdict(o) == IF Mean10(o.dims) >= 10 * o.threshold THEN "approve" ELSE "reject"

\* o.fails names the step that raises, where it is reached; a verdict that cannot be
\* made or stored is done without, every other failure ends the pipeline's loop.
VerdictFails == {"create", "put", "link"}
Fault(o) == IF AutoApproved(o) /\ o.fails # "save" THEN "none" ELSE o.fails
RouteOutput(o) ==
    LET stored == Fault(o) \notin {"evaluate", "save"}
        judged == stored /\ ~AutoApproved(o)
        checked == judged /\ Fault(o) # "window"
        graders == IF checked THEN [i \in DOMAIN o.dims |-> "grader"] ELSE << >>
    IN  [scores |-> IF stored THEN 1 ELSE 0,
         events |-> IF stored /\ (AutoApproved(o) \/ checked)
                    THEN Append(graders, "completed") ELSE << >>,
         verdict |-> IF judged /\ Fault(o) \notin {"create", "put"}
                     THEN CreateVerdict(o) ELSE "none",
         linked |-> judged /\ Fault(o) \notin VerdictFails,
         governed |-> checked,
         runs |-> Fault(o) \in {"none"} \union VerdictFails]

\* TierPromotionChecker.check_agent, newest score first: sampled minimal scores within
\* the newest windowful; a score is [auto, tier, dims].
CheckAgent(scores, size, quality, tolerated) ==
    LET newest == {k \in DOMAIN scores : k <= size}
        sampled == {k \in newest : scores[k].tier = "minimal" /\ ~scores[k].auto}
        failed == {k \in sampled : \E i \in DOMAIN scores[k].dims : scores[k].dims[i] < quality}
        n == Cardinality(sampled)
    IN  n >= size /\ n > 0 /\ 10 * Cardinality(failed) > tolerated * n

-----------------------------------------------------------------------------
(* SQLiteScoreStore: a write is a transaction, fails names the step that raises. *)

\* _rolled_back_on_error: what a failed write did is not kept for the next commit.
Kept(fails) == fails \in {"none", "events", "resolve"}
\* save_score and set_autonomy: the row, its dimensions or its log entry, or nothing.
SaveScore(fails) == Kept(fails)
SetAutonomy(fails) == Kept(fails)
\* save_override: the events go out after the commit, the verdict is resolved last.
SaveOverride(w) ==
    [rows |-> IF w.known /\ Kept(w.fails) THEN w.dims ELSE 0,
     events |-> IF w.known /\ Kept(w.fails) /\ w.fails # "events" THEN w.dims ELSE 0,
     resolved |-> w.known /\ w.linked /\ w.fails = "none"]

\* get_scores and get_overrides: what was created since then.
GetScores(c) == {i \in DOMAIN c.evals : c.evals[i].at >= c.since}
GetOverrides(c) == {i \in DOMAIN c.overrides : c.overrides[i].at >= c.since}

-----------------------------------------------------------------------------
(* Calibration, in shares [num, den] of a whole; Whole for the empty one. *)

Share(S, T) == [num |-> Cardinality(S), den |-> Cardinality(T)]
OverridesOf(c, e) == {i \in GetOverrides(c) : c.overrides[i].eval = e}
Overridden(c) == {c.overrides[i].eval : i \in GetOverrides(c)}
Downward(c) ==
    {e \in Overridden(c) :
        \E i \in OverridesOf(c, e) : c.overrides[i].corrected < c.overrides[i].original}
Upward(c) ==
    {e \in Overridden(c) :
        \E i \in OverridesOf(c, e) : c.overrides[i].corrected > c.overrides[i].original}
Scored(c) == {e \in GetScores(c) : c.evals[e].dims # << >>}
Low(c) == {e \in Scored(c) : Mean10(c.evals[e].dims) < 10 * c.threshold}

ReversalRate(c) == Share(Overridden(c), GetScores(c))
FalseAcceptRate(c) == Share(Downward(c) \cap (Scored(c) \ Low(c)), Downward(c))
Precision(c) == Share(Low(c) \ Upward(c), Low(c))
Recall(c) == Share(Downward(c) \cap Low(c), Downward(c))
Abs(x) == IF x < 0 THEN -x ELSE x
ErrorSum(c) ==
    MapThenSumSet(LAMBDA i : Abs(c.overrides[i].original - c.overrides[i].corrected),
                  GetOverrides(c))
\* JudgmentSLOChecker.check and OverrideCalibration.calibrate over one agent.
CheckSLO(c) ==
    [reversal |-> ReversalRate(c), error |-> [num |-> ErrorSum(c),
     den |-> Cardinality(GetOverrides(c))],
     compliant |-> 10 * ReversalRate(c).num <= c.target * ReversalRate(c).den]
Calibrate(c) == [num |-> ErrorSum(c), den |-> Cardinality(GetOverrides(c))]

\* StoreTrendTracker.compute_window: a dimension is averaged over those who have it.
ComputeWindow(c) ==
    [count |-> Cardinality(GetScores(c)),
     reversal |-> Share(Overridden(c), GetScores(c)),
     average |-> [num |-> MapThenSumSet(LAMBDA e : Head(c.evals[e].dims), Scored(c)),
                  den |-> Cardinality(Scored(c))]]
\* ThresholdDetector.check.
Alerts(c) ==
    LET w == ComputeWindow(c) IN
    IF w.count = 0 THEN {}
    ELSE (IF 10 * w.reversal.num > c.target * w.reversal.den THEN {"reversal_rate"} ELSE {})
         \union (IF w.average.den > 0 /\ w.average.num < c.threshold * w.average.den
                 THEN {"dimension"} ELSE {})

-----------------------------------------------------------------------------
(* The calls, and what the answers must be. *)

Items == [id : 1..(MaxSeen + 1), complete : BOOLEAN, detail : BOOLEAN]
CallsOfPolling == [about : {"polling"}, items : UNION {[1..n -> Items] : n \in 0..MaxPolls}]
CallsOfWebhook ==
    [about : {"webhook"},
     requests : [1..2 -> [header : {1, 2}, body : {1, 2}, method : {"POST", "GET"},
                          valid : BOOLEAN, cut : BOOLEAN]],
     queued : 0..MaxQueue]
TierNames == {"none", "minimal", "standard"}
CallsOfPipeline ==
    [about : {"pipeline-output"}, tiering : BOOLEAN, override : TierNames, manifest : TierNames,
     default : TierNames, drawn : BOOLEAN, dims : {<< >>, <<4>>, <<4, 8>>}, threshold : {5},
     fails : {"none", "evaluate", "save", "create", "put", "link", "window"}]
CallsOfPromotion ==
    [about : {"promotion"}, size : {2}, quality : {6}, tolerated : {1, 5},
     scores : UNION {[1..n -> [auto : BOOLEAN, tier : {"minimal", "standard"},
                               dims : {<<3>>, <<6>>}]] : n \in 0..3}]
CallsOfOverride ==
    [about : {"override"}, known : BOOLEAN, linked : BOOLEAN, dims : {1, 2},
     fails : {"none", "insert", "commit", "events", "resolve"}]
CallsOfCalibration ==
    [about : {"calibration"}, since : {1}, threshold : {5}, target : {5},
     evals : UNION {[1..n -> [at : {0, 1}, dims : {<< >>, <<4>>, <<4, 8>>}]] : n \in 1..2},
     overrides : UNION {[1..n -> [eval : {1, 2}, original : {4, 8}, corrected : {2, 6},
                                  at : {0, 1}]] : n \in 0..2}]

\* Every completed item is taken, and no item a second time unless a whole seen set of
\* others was taken in between; what the detail fetch loses is lost, and nothing else.
IntakeTakesEachOnce ==
    call.about = "polling" =>
        LET r == ReceiveAll(call.items)
            known == {call.items[i].id : i \in {j \in DOMAIN call.items : call.items[j].complete}}
        IN  /\ ToSet(r.took) = known
            /\ \A i, j \in DOMAIN r.took :
                   (i < j /\ r.took[i] = r.took[j])
                       => Cardinality(ToSet(SubSeq(r.took, i + 1, j - 1)) \ {r.took[i]}) >= MaxSeen
            /\ (\A k \in DOMAIN call.items : call.items[k].detail) => r.yielded = r.took

\* A sender is told 200 exactly for the outputs that entered the queue.
AcknowledgedIsQueued ==
    call.about = "webhook" =>
        LET queued == Queued(call.requests, call.queued)
            ok == {i \in DOMAIN call.requests :
                      Response(call.requests[i], queued[i - 1]) = 200}
            last == queued[Len(call.requests)]
        IN  /\ last = call.queued + Cardinality(ok) /\ last <= MaxQueue
            /\ \A i \in ok : call.requests[i].valid /\ ~call.requests[i].cut

\* An output whose verdict fails is scored, reported and governed as any other; no event
\* speaks of a score that was not stored, no grader of one nobody graded; and only a
\* stored verdict is linked.
PipelineReportsWhatItStored ==
    call.about = "pipeline-output" =>
        LET r == RouteOutput(call)
            fine == RouteOutput([call EXCEPT !.fails = "none"])
        IN  /\ r.events # << >> => r.scores = 1
            /\ "grader" \in ToSet(r.events) => ~AutoApproved(call)
            /\ r.linked => r.verdict # "none" /\ r.scores = 1
            /\ call.fails \in VerdictFails =>
                   /\ r.scores = fine.scores /\ r.events = fine.events
                   /\ r.governed = fine.governed /\ r.runs

\* Another failing sample never turns a promotion off, and one passing in the place of
\* a failing one never turns it on.
FailuresPromote ==
    call.about = "promotion" =>
        \A i \in DOMAIN call.scores :
            LET worse == [call.scores EXCEPT ![i].dims = <<3>>]
            IN  CheckAgent(call.scores, call.size, call.quality, call.tolerated)
                    => CheckAgent(worse, call.size, call.quality, call.tolerated)

\* An override that is not stored sends no event and resolves nothing; a failure before
\* the commit stores none of its dimensions, one after it all of them.
OverrideIsWhole ==
    call.about = "override" =>
        LET w == SaveOverride(call) IN
        /\ w.rows \in {0, call.dims} /\ w.events <= w.rows
        /\ w.resolved => w.events = call.dims
        /\ (call.fails \in {"insert", "commit"} \/ ~call.known) => w.rows = 0

\* Where every override is of an evaluation in the window, the rates are shares of one,
\* false accepts and catches share out the corrections downwards of scored evaluations,
\* and the trend, its alert and the report agree on the reversals.
RatesAgree ==
    call.about = "calibration" =>
        LET inWindow == Overridden(call) \subseteq GetScores(call)
            graded == Downward(call) \subseteq Scored(call)
        IN  /\ inWindow => ReversalRate(call).num <= ReversalRate(call).den
            /\ (Downward(call) # {} /\ graded) =>
                   FalseAcceptRate(call).num + Recall(call).num = Cardinality(Downward(call))
            /\ Precision(call).num <= Precision(call).den
            /\ ComputeWindow(call).reversal = CheckSLO(call).reversal
            /\ (GetScores(call) # {} =>
                   ("reversal_rate" \in Alerts(call) <=> ~CheckSLO(call).compliant))
            /\ CheckSLO(call).error = Calibrate(call)
=============================================================================
