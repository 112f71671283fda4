------------------------------ MODULE Hysteresis ------------------------------
(***************************************************************************)
(* How measure reads Prometheus and when a bad reading becomes a breach:   *)
(* the re-arming of a judgment threshold (thresholds/state.py), quantiles  *)
(* from bucket counts (thresholds/sampler.py), and the windows that        *)
(* evaluate-once counts (adapters/prometheus.py, cli.py).                  *)
(***************************************************************************)
EXTENDS Decision, Integers, Sequences, FiniteSets, SequencesExt, FiniteSetsExt

CONSTANTS
    RearmIntervals,    \* REARM_INTERVALS
    RearmSeconds,      \* the age a within run needs, in ticks of the clock
    MaxEvaluations,    \* bound on the evaluations of one threshold
    MaxWindows         \* bound on the starts of evaluate-once

ASSUME RearmAssumption == RearmIntervals \in Nat \ {0} /\ RearmSeconds \in Nat

-----------------------------------------------------------------------------
(* KeyState and advance *)

None == -1
Corrupt == -2
KeyState(last, armed, since, count) ==
    [last |-> last, armed |-> armed, since |-> since, count |-> count]
Fresh == KeyState("none", TRUE, None, 0)

\* A field of the wrong type takes its default.
FromDict(raw) ==
    KeyState(IF raw.last \in {"within", "breach"} THEN raw.last ELSE Fresh.last,
             raw.armed # "no",
             IF raw.since = Corrupt THEN None ELSE raw.since,
             IF raw.count = Corrupt THEN 0 ELSE raw.count)

\* A run that seems to start in the future is not restarted.
MutRestarts(st, now) == st.since = None
Restarts(st, now) == st.since = None \/ st.since > now

\* advance: an evaluation e is [status, at].
Fires(st, e) == e.status = "breach" /\ st.armed /\ st.last # "breach"
Advance(st, e) ==
    CASE e.status = "not_evaluable" -> st
      [] e.status = "within" ->
            LET since == IF Restarts(st, e.at) THEN e.at ELSE st.since
                count == IF Restarts(st, e.at) THEN 1 ELSE st.count + 1
            IN  KeyState("within",
                         st.armed \/ (e.at - since >= RearmSeconds /\ count >= RearmIntervals),
                         since, count)
      [] OTHER -> KeyState("breach", st.armed /\ ~Fires(st, e), None, 0)

\* The states before each evaluation and after the last.
States(st, evals) ==
    LET before[i \in 1..(Len(evals) + 1)] ==
            IF i = 1 THEN st ELSE Advance(before[i - 1], evals[i - 1])
    IN  before
FiredAt(st, evals) ==
    LET before == States(st, evals) IN {i \in DOMAIN evals : Fires(before[i], evals[i])}

-----------------------------------------------------------------------------
(* The sampler.  A bucket is [le, count]; quantiles are in quarters. *)

Inf == 99
Quarters == 4
CountAt(bs, le) ==
    LET sum[i \in 0..Len(bs)] ==
            IF i = 0 THEN 0 ELSE sum[i - 1] + (IF bs[i].le = le THEN bs[i].count ELSE 0)
    IN  sum[Len(bs)]
Edges(bs) == {bs[i].le : i \in DOMAIN bs}
\* Counts of equal edges are summed, then made monotonic.
Cumulative(bs, le) == Max({0} \union {CountAt(bs, l) : l \in {m \in Edges(bs) : m <= le}})
Total(bs) == Cumulative(bs, Inf)

Nothing == [kind |-> "none", num |-> 0, den |-> 1]
Value(num, den) == [kind |-> "value", num |-> num, den |-> den]
AtLeast(le) == [kind |-> "atLeast", num |-> le, den |-> 1]

\* The quantile within cum, the cumulative counts by edge.
Upper(q, cum) == Min({l \in DOMAIN cum : Quarters * cum[l] >= q * cum[Inf]})
Interpolated(q, cum) ==
    LET upper == Upper(q, cum)
        lesser == {l \in DOMAIN cum : l < upper}
        lower == IF lesser = {} THEN 0 ELSE Max(lesser)
        below == IF lesser = {} THEN 0 ELSE cum[lower]
        here == cum[upper] - below
    IN  CASE upper = Inf -> IF lower = -Inf THEN Nothing ELSE AtLeast(lower)
          [] upper # Inf /\ lesser = {} /\ upper <= 0 ->
                IF upper = -Inf THEN Nothing ELSE Value(upper, 1)
          [] OTHER ->
                IF here = 0 \/ lower = -Inf THEN Nothing
                ELSE Value(lower * Quarters * here
                             + (upper - lower) * (q * cum[Inf] - Quarters * below),
                           Quarters * here)
Quantile(q, bs) ==
    IF Cardinality(Edges(bs)) < 2 \/ Inf \notin Edges(bs) \/ Total(bs) <= 0 THEN Nothing
    ELSE Interpolated(q, [l \in Edges(bs) |-> Cumulative(bs, l)])

\* sample: each bound is "none" (no series), "gauge" or "histogram"; a query's answer
\* is a figure, or Missed for an error, an empty or a non-finite one.
Missed == [kind |-> "missing", num |-> 0, den |-> 1]
NeedsRetention(bounds) == \E b \in DOMAIN bounds : bounds[b] = "histogram"
\* An oldest sample in the future is the mark of an empty store.
FetchRetention(c) == IF c.oldest \in 0..c.now THEN c.oldest ELSE None
TooYoung(c) ==
    /\ NeedsRetention(c.bounds) /\ c.check
    /\ FetchRetention(c) # None /\ c.now - FetchRetention(c) < c.window - c.slack
Gauge(c, b) == IF c.answers[b] THEN Value(1, 1) ELSE Missed
Histogram(c, b) == IF c.answers[b] THEN AtLeast(1) ELSE Missed
Sample(c) ==
    [b \in DOMAIN c.bounds |->
        CASE c.bounds[b] = "none" -> Nothing
          [] c.bounds[b] = "gauge" -> Gauge(c, b)
          [] OTHER -> IF TooYoung(c) THEN Nothing ELSE Histogram(c, b)]

-----------------------------------------------------------------------------
(* evaluate-once.  An SLO is [kind, target]; a value is in tenths, None without one. *)

QueryKinds == {"judgment_rate", "ratio", "error_budget", "not_evaluable"}
\* _query_for: judgment types with a builder yield a rate, the others a ratio; only
\* classical kinds that have a budget are queried.
QueryFor(judgment, built, budgeted) ==
    CASE judgment /\ built -> "judgment_rate" [] judgment /\ ~built -> "ratio"
      [] ~judgment /\ budgeted -> "error_budget" [] OTHER -> "not_evaluable"
IsJudgment(slo) == slo.kind \in {"judgment_rate", "ratio"}

RawBreach(slo, value) ==
    CASE slo.kind = "judgment_rate" -> (10 - value) * 10 < slo.target
      [] slo.kind = "error_budget" -> value < 0
      [] OTHER -> value * 10 < slo.target

HistoryLimit(slos, h) == (h + 1) * Max({Len(slos), 1}) * 2

\* count_consecutive_breaches over the newest verdicts of the log.
Consecutive(log, s, limit) ==
    LET own == {i \in DOMAIN log : i <= limit /\ log[i].slo = s}
        good == {i \in own : ~log[i].rawBreach}
    IN  Cardinality({i \in own : \A j \in good : i < j})

\* evaluate_slos: one window, its values by SLO.
Evaluated(slos, values) ==
    {s \in DOMAIN slos : slos[s].kind # "not_evaluable" /\ values[s] # None}
Result(log, slos, windows, k, h, s) ==
    LET raw == RawBreach(slos[s], windows[k][s])
        n == IF raw THEN Consecutive(log, s, HistoryLimit(slos, h)) + 1 ELSE 0
    IN  [slo |-> s, at |-> k, rawBreach |-> raw,
         breach |-> IF IsJudgment(slos[s]) THEN n >= h ELSE raw]

\* The verdicts of window k are stored, newest first, after all of it is evaluated.
Stacked(log, slos, windows, k, h) ==
    LET upTo[s \in 0..Len(slos)] ==
            IF s = 0 THEN log
            ELSE IF s \in Evaluated(slos, windows[k])
                 THEN <<Result(log, slos, windows, k, h, s)>> \o upTo[s - 1]
                 ELSE upTo[s - 1]
    IN  upTo
Window(log, slos, windows, k, h) == Stacked(log, slos, windows, k, h)[Len(slos)]
\* The log after each window.
LogsAfter(slos, windows, h) ==
    LET after[k \in 0..Len(windows)] ==
            IF k = 0 THEN << >> ELSE Window(after[k - 1], slos, windows, k, h)
    IN  after

Unevaluated(slos, values) ==
    [notEvaluable |-> {s \in DOMAIN slos : slos[s].kind = "not_evaluable"},
     noData |-> {s \in DOMAIN slos : slos[s].kind = "error_budget"} \ Evaluated(slos, values)]

\* cmd_evaluate_once; _trigger_chain starts the correlation of the newest verdict.
EvaluateOnce(slos, windows, h) ==
    IF h < 1 THEN [exit |-> 2, trigger |-> << >>]
    ELSE IF slos = << >> THEN [exit |-> 1, trigger |-> << >>]
    ELSE LET logs == LogsAfter(slos, windows, h)
             log == logs[Len(windows)]
             new == Len(log) - Len(logs[Len(windows) - 1])
         IN  IF \E i \in 1..new : log[i].breach
             THEN [exit |-> 2, trigger |-> <<Head(log)>>]
             ELSE [exit |-> 0, trigger |-> << >>]

-----------------------------------------------------------------------------
(* The calls, and what the answers must be. *)

Statuses == {"within", "breach", "not_evaluable"}
\* The clock may stand still or go back; times are only compared, so the first is fixed.
EvaluationsAt(ticks) ==
    {[i \in DOMAIN w |-> [status |-> w[i].status,
                          at |-> 5 + FoldLeft(LAMBDA t, x : t + x.tick, 0, SubSeq(w, 1, i))]] :
        w \in {v \in UNION {[1..n -> [status : Statuses, tick : ticks]] : n \in 1..MaxEvaluations} :
                  v[1].tick = 0}}
CallsOfRearm == [about : {"rearm"}, evals : EvaluationsAt({-1, 0, 1})]
Raws == [last : {"within", "breach", "other"}, armed : {"yes", "no", "other"},
         since : {None, Corrupt, 3, 9}, count : {0, RearmIntervals, Corrupt}]
CallsOfRestored == [about : {"restored"}, raw : Raws]

CallsOfQuantile ==
    [about : {"quantile"}, q : 0..(Quarters - 1),
     buckets : UNION {[1..n -> [le : {-Inf, 0, 1, 3, Inf}, count : {0, 1, 3}]] : n \in 0..3}]
CallsOfSample ==
    [about : {"sample"}, bounds : [1..2 -> {"none", "gauge", "histogram"}],
     answers : [1..2 -> BOOLEAN], check : BOOLEAN, now : {10}, oldest : {None, 0, 2, 8, 11},
     window : {6}, slack : {1}]

ValuesOf(kind) ==
    {None} \union CASE kind = "judgment_rate" -> {1, 5} [] kind = "ratio" -> {5, 9}
                    [] OTHER -> {-1, 1}
SloOf(kind) == [kind |-> kind, target |-> 70]
CallsOfWindows ==
    UNION {[about : {"windows"}, slos : {<<SloOf(k), SloOf(l)>>}, h : 0..3,
            windows : UNION {[1..n -> ValuesOf(k) \X ValuesOf(l)] : n \in {MaxWindows}}] :
        k, l \in QueryKinds}

\* A breach is raised once: before it is raised again the threshold was within for
\* RearmIntervals evaluations and RearmSeconds without a breach between them; and after
\* such a stretch the next breach is raised, even if the clock went back earlier.
Calm(evals, i, j) ==
    \E a, b \in (i + 1)..(j - 1) :
        /\ \A k \in a..b : evals[k].status # "breach"
        /\ evals[a].status = "within" /\ evals[b].status = "within"
        /\ Cardinality({k \in a..b : evals[k].status = "within"}) >= RearmIntervals
        /\ evals[b].at - evals[a].at >= RearmSeconds
SteadyCalm(evals, i, j) ==
    \E a, b \in (i + 1)..(j - 1) :
        /\ Calm(evals, a - 1, b + 1)
        /\ \A k \in (i + 1)..(j - 1) : evals[k].status # "breach"
        /\ \A k \in a..b : \A m \in a..k : evals[m].at <= evals[k].at
RaisedOncePerEpisode ==
    call.about = "rearm" =>
        LET fired == FiredAt(Fresh, call.evals) IN
        /\ \A i, j \in fired : i < j => Calm(call.evals, i, j)
        /\ \A j \in DOMAIN call.evals :
               call.evals[j].status = "breach" =>
                   \/ j \in fired
                   \/ \E i \in fired : i < j /\ ~SteadyCalm(call.evals, i, j)

\* A restored state silences a breach only if it says, in readable fields, that the
\* threshold is disarmed or in breach; and its clock cannot keep it disarmed.
CorruptNeverSilences ==
    call.about = "restored" =>
        LET st == FromDict(call.raw)
            run == [i \in 1..(RearmIntervals + RearmSeconds) |-> [status |-> "within", at |-> 4 + i]]
            breach == [status |-> "breach", at |-> 20]
        IN  /\ ~Fires(st, breach) => call.raw.armed = "no" \/ call.raw.last = "breach"
            /\ Fires(States(st, run)[Len(run) + 1], breach)

\* A quantile does not depend on the order of the buckets, grows with the rank, never
\* passes the edges it lies between, and is open upwards exactly where the rank is
\* not reached by a finite bucket.
AsLeast(x, y) == x.num * y.den <= y.num * x.den
QuantileIsHonest ==
    call.about = "quantile" =>
        LET bs == call.buckets
            v == Quantile(call.q, bs)
            more == Quantile(call.q + 1, bs)
        IN  /\ Quantile(call.q, Reverse(bs)) = v
            /\ v.kind # "none" /\ more.kind # "none" => AsLeast(v, more)
            /\ v.kind = "atLeast" <=>
                   /\ Edges(bs) \cap {-Inf, Inf} = {Inf} \/ Cardinality(Edges(bs)) > 2
                   /\ Inf \in Edges(bs) /\ Cardinality(Edges(bs)) > 1
                   /\ Total(bs) > 0
                   /\ \A l \in Edges(bs) \ {Inf} : Quarters * Cumulative(bs, l) < call.q * Total(bs)
            /\ v.kind = "value" =>
                   \E l \in Edges(bs) \ {Inf} : AsLeast(v, Value(l, 1))

\* A retention that is too short leaves out what needs it and nothing else; unknown,
\* it leaves out nothing.
SampleKeepsBoundsApart ==
    call.about = "sample" =>
        \A b \in DOMAIN call.bounds :
            /\ (call.bounds[b] = "gauge" /\ call.answers[b]) => Sample(call)[b].kind = "value"
            /\ (call.bounds[b] = "histogram" /\ call.answers[b])
                   => (Sample(call)[b].kind = "atLeast"
                         <=> ~call.check \/ call.oldest \in {None, 0, 2, 11})

\* A judgment SLO is in breach when its last windows with data, h or more, were bad, whatever
\* the other SLOs' verdicts in the same log; a worse value never passes where a better
\* one fails; every SLO is evaluated or listed, judgment SLOs without data excepted; and
\* the command stops the deployment exactly when something is in breach.
LastBad(slos, windows, s, h) ==
    \E first \in DOMAIN windows :
        LET had == {k \in DOMAIN windows : k >= first /\ windows[k][s] # None}
        IN  Cardinality(had) >= h /\ \A k \in had : RawBreach(slos[s], windows[k][s])
Worsens(kind, v, w) == IF kind = "judgment_rate" THEN w > v ELSE w < v
WindowsAreCounted ==
    call.about = "windows" =>
        LET slos == call.slos
            now == Last(call.windows)
            done == Evaluated(slos, now)
            log == LogsAfter(slos, call.windows, call.h)[Len(call.windows)]
            result(s) == CHOOSE v \in ToSet(SubSeq(log, 1, Cardinality(done))) : v.slo = s
        IN  /\ call.h >= 1 => \A s \in done :
                   result(s).breach <=>
                       LastBad(slos, call.windows, s, IF IsJudgment(slos[s]) THEN call.h ELSE 1)
            /\ \A s \in done : \A w \in ValuesOf(slos[s].kind) \ {None} :
                   (Worsens(slos[s].kind, now[s], w) /\ RawBreach(slos[s], now[s]))
                       => RawBreach(slos[s], w)
            /\ \A s \in DOMAIN slos \ done :
                   \/ IsJudgment(slos[s])
                   \/ s \in Unevaluated(slos, now).notEvaluable \union Unevaluated(slos, now).noData
            /\ EvaluateOnce(slos, call.windows, call.h).exit = 0 <=>
                   call.h >= 1 /\ \A s \in done : ~result(s).breach
=============================================================================
