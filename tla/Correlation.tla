----------------------------- MODULE Correlation -----------------------------
(***************************************************************************)
(* The correlation engine: events are deduplicated, grouped by service and *)
(* window, linked along the dependencies, and assembled into groups with a *)
(* priority (correlation/*.py); the situation state and the snapshot cache *)
(* decide when the model sees them (state.py, snapshot/generator.py).      *)
(* Times are in ticks, severities in tenths.                               *)
(***************************************************************************)
EXTENDS Decision, Integers, Sequences, FiniteSets, SequencesExt, FiniteSetsExt

CONSTANTS
    Correlated,         \* services, numbered
    MaxEvents,          \* bound on the events of one call
    MaxPhases           \* bound on the phases of `correlate serve`

ToOrder(S) == SetToSortSeq(S, LAMBDA i, j : i < j)

-----------------------------------------------------------------------------
(* deduplicate: es is as the store returns it, newest first. *)

DedupKey(e) == <<e.service, e.alert>>
Alike(es, i) == {j \in DOMAIN es : DedupKey(es[j]) = DedupKey(es[i])}
Deduplicate(es) ==
    LET firsts == ToOrder({i \in DOMAIN es : i = Min(Alike(es, i))})
    IN  [k \in DOMAIN firsts |->
            [event |-> es[firsts[k]], count |-> Cardinality(Alike(es, firsts[k])),
             spread |-> Max({es[j].at : j \in Alike(es, firsts[k])})
                          - Min({es[j].at : j \in Alike(es, firsts[k])})]]
Survivors(es) == LET kept == Deduplicate(es) IN [k \in DOMAIN kept |-> kept[k].event]

-----------------------------------------------------------------------------
(* group_temporal *)

ByTime(es) == SortSeq(es, LAMBDA x, y : x.at < y.at)
\* A window is anchored at its first event.
AddToWindows(ws, e, window) ==
    IF ws = << >> \/ e.at - Head(Last(ws)).at > window THEN Append(ws, <<e>>)
    ELSE [ws EXCEPT ![Len(ws)] = Append(@, e)]
MakeGroup(es) ==
    [service |-> Head(es).service, first |-> Head(es).at, last |-> Last(es).at,
     events |-> es, peak |-> Max({es[i].severity : i \in DOMAIN es})]
GroupTemporal(es, window) ==
    LET sorted == ByTime(es)
        services == FoldLeft(LAMBDA seen, e :
                        IF Contains(seen, e.service) THEN seen ELSE Append(seen, e.service),
                        << >>, sorted)
        windows(s) == FoldLeft(LAMBDA ws, e : AddToWindows(ws, e, window), << >>,
                               SelectSeq(sorted, LAMBDA e : e.service = s))
    IN  FlattenSeq([k \in DOMAIN services |->
            LET ws == windows(services[k]) IN [w \in DOMAIN ws |-> MakeGroup(ws[w])]])

-----------------------------------------------------------------------------
(* group_topology: a topology is [known, deps, tier]. *)

TierRank == [critical |-> 3, standard |-> 2, low |-> 1]
DependsOn(t, a, b) == b \in t.deps[a]
Pair(gs, p) == {gs[p[1]].service, gs[p[2]].service}
Earlier(p, q) == p[1] < q[1] \/ (p[1] = q[1] /\ p[2] < q[2])
\* Each pair of services is linked once, by its first pair of groups.
LinkedPairs(gs, t) ==
    LET related == {p \in (DOMAIN gs) \X (DOMAIN gs) :
                      /\ p[1] < p[2] /\ gs[p[1]].service # gs[p[2]].service
                      /\ \/ DependsOn(t, gs[p[1]].service, gs[p[2]].service)
                         \/ DependsOn(t, gs[p[2]].service, gs[p[1]].service)}
    IN  {p \in related : \A q \in related : Pair(gs, q) = Pair(gs, p) => ~Earlier(q, p)}
IsPrimary(t, a, b) ==
    a.peak > b.peak \/ (a.peak = b.peak /\ TierRank[t.tier[a.service]] >= TierRank[t.tier[b.service]])
Link(t, a, b) ==
    IF IsPrimary(t, a, b) THEN [primary |-> a.service, secondary |-> b.service]
    ELSE [primary |-> b.service, secondary |-> a.service]
GroupTopology(gs, t) ==
    IF ~t.known THEN << >>
    ELSE LET ps == SetToSortSeq(LinkedPairs(gs, t), Earlier)
         IN  [k \in DOMAIN ps |-> Link(t, gs[ps[k][1]], gs[ps[k][2]])]
Involved(link) == {link.primary, link.secondary}

-----------------------------------------------------------------------------
(* find_change_candidates: changes is a set of [service, at]. *)

Lookback(window) == Max({window, 3})
RecentChanges(changes, s, ref, window) ==
    {c \in changes : c.service = s /\ c.at \in (ref - window)..ref}
CandidatesOf(g, changes, t, window) ==
    LET upstream == IF t.known THEN t.deps[g.service] ELSE {}
    IN  UNION {{[change |-> c, own |-> s = g.service, away |-> g.first - c.at] :
                    c \in RecentChanges(changes, s, g.first, window)} : s \in {g.service} \union upstream}
\* A later group of the same service replaces the candidates of an earlier one.
ChangesByService(gs, changes, t, window) ==
    [s \in Correlated |->
        LET found == {i \in DOMAIN gs : gs[i].service = s /\ CandidatesOf(gs[i], changes, t, window) # {}}
        IN  IF found = {} THEN {} ELSE CandidatesOf(gs[Max(found)], changes, t, window)]

-----------------------------------------------------------------------------
(* assemble_groups *)

Peak(signals) == Max({signals[i].peak : i \in DOMAIN signals})
Priority(peak, services, t, links) ==
    LET critical(S) == t.known /\ \E s \in S : t.tier[s] = "critical"
        linked == \E i \in DOMAIN links :
                      Involved(links[i]) \cap services # {} /\ critical(Involved(links[i]))
    IN  IF peak > 8 /\ critical(services) THEN 0
        ELSE IF peak > 6 \/ linked THEN 1
        ELSE IF peak > 3 THEN 2 ELSE 3
CorrelationGroup(signals, services, changes, t, links) ==
    [services |-> services, signals |-> signals, changes |-> changes,
     priority |-> Priority(Peak(signals), services, t, links)]

\* First pass: a link takes the groups of its two services that no earlier link took.
TakeLink(acc, link, gs, byService, t, links) ==
    LET taken == ToOrder({i \in (DOMAIN gs) \ acc.assigned : gs[i].service \in Involved(link)})
        group == CorrelationGroup([k \in DOMAIN taken |-> gs[taken[k]]], Involved(link),
                                  UNION {byService[s] : s \in Involved(link)}, t, links)
    IN  IF taken = << >> THEN acc
        ELSE [assigned |-> acc.assigned \union Range(taken), groups |-> Append(acc.groups, group)]
AssembleGroups(gs, links, byService, t) ==
    LET linked == FoldLeft(LAMBDA acc, l : TakeLink(acc, l, gs, byService, t, links),
                           [assigned |-> {}, groups |-> << >>], links)
        rest == ToOrder((DOMAIN gs) \ linked.assigned)
        alone == [k \in DOMAIN rest |->
                    CorrelationGroup(<<gs[rest[k]]>>, {gs[rest[k]].service},
                                     byService[gs[rest[k]].service], t, links)]
    IN  SortSeq(linked.groups \o alone,
                LAMBDA x, y : \/ x.priority < y.priority
                              \/ x.priority = y.priority /\ Peak(x.signals) > Peak(y.signals))

\* correlate
Correlate(es, changes, t, window) ==
    LET gs == GroupTemporal(Survivors(es), window)
    IN  AssembleGroups(gs, GroupTopology(gs, t), ChangesByService(gs, changes, t, Lookback(window)), t)

-----------------------------------------------------------------------------
(* correlate serve: the situation state and the snapshot of each cycle.  A cycle is *)
(* [groups, model, failed], groups a bag of priorities [p0, p1, other]; st is the loop's *)
(* memory: state, calm, the cached groups (their hash) and when, clock in seconds.   *)

Interval == [watching |-> 300, alert |-> 60, incident |-> 30, degraded |-> 120]
CacheTtl == [watching |-> 900, alert |-> 300, incident |-> 0, degraded |-> 600]
Unset == -1
Start == [state |-> "watching", calm |-> Unset, hash |-> <<>>, cached |-> Unset, now |-> 0, asked |-> FALSE]

Elevated(g) == g.p0 > 0 \/ g.p1 >= 2
\* update with a healthy model
Updated(st, g) ==
    CASE st.state = "degraded" -> [st EXCEPT !.state = "watching", !.calm = st.now]
      [] st.state = "watching" /\ Elevated(g) -> [st EXCEPT !.state = "alert", !.calm = Unset]
      [] st.state = "alert" /\ Elevated(g) -> [st EXCEPT !.calm = Unset]
      [] st.state = "alert" /\ ~Elevated(g) /\ st.calm = Unset -> [st EXCEPT !.calm = st.now]
      [] st.state = "alert" /\ ~Elevated(g) /\ st.calm # Unset /\ st.now - st.calm >= 600 ->
            [st EXCEPT !.state = "watching", !.calm = Unset]
      [] OTHER -> st
\* update with a failed model
ModelFailed(st) == IF st.state = "incident" THEN st ELSE [st EXCEPT !.state = "degraded", !.calm = Unset]

\* generate: the cache is keyed by services, counts and priorities of the groups.
CacheHit(st, g) ==
    /\ st.state # "incident" /\ st.cached # Unset /\ st.hash = <<g>>
    /\ st.now - st.cached < CacheTtl[st.state]
Cached(st, g) == [st EXCEPT !.hash = <<g>>, !.cached = st.now]

\* c.failed cycles before this one end in correlation_error and leave all but the clock
\* as it was.
Waited(st, c) == (c.failed + 1) * Interval[st.state]
\* The model's answer (or its template, kept nowhere) ends the cycle; interpret raises
\* when its store does, or when no roll-up can be made of the answer.
ServeCycle(st, c) ==
    LET at == [st EXCEPT !.now = @ + Waited(st, c), !.asked = FALSE]
        now == Updated(at, c.groups)
        empty == c.groups.p0 + c.groups.p1 + c.groups.other = 0
    IN  IF CacheHit(now, c.groups) THEN now
        ELSE IF empty THEN Cached(now, c.groups)
        ELSE LET asked == [Cached(now, c.groups) EXCEPT !.asked = TRUE]
             IN  IF c.model = "raises" THEN ModelFailed(asked) ELSE asked
History(cycles) ==
    LET after[i \in 0..Len(cycles)] ==
            IF i = 0 THEN Start ELSE ServeCycle(after[i - 1], cycles[i])
    IN  after

\* _apply_budget over groups [priority, tokens] in order of priority
ApplyBudget(gs, budget) ==
    FoldLeft(LAMBDA acc, i :
        IF gs[i].priority = 0 \/ acc.used + gs[i].tokens <= budget
        THEN [used |-> acc.used + gs[i].tokens, taken |-> acc.taken \union {i}] ELSE acc,
        [used |-> 0, taken |-> {}], [i \in DOMAIN gs |-> i]).taken
SortedByPriority(gs) == SortSeq(gs, LAMBDA x, y : x.priority < y.priority)

-----------------------------------------------------------------------------
(* The calls, and what the answers must be. *)

UpTo(n, S) == UNION {[1..k -> S] : k \in 0..n}
NewestFirst(es) == \A i \in 1..(Len(es) - 1) : es[i].at >= es[i + 1].at
Events(times, severities, alerts) ==
    [service : Correlated, at : times, severity : severities, alert : alerts]

NoTopology == [known |-> FALSE, deps |-> [s \in Correlated |-> {}],
               tier |-> [s \in Correlated |-> "standard"]]
First == Min(Correlated)
Star == [s \in Correlated |-> IF s = First THEN Correlated \ {s} ELSE {}]
Ring == [s \in Correlated |-> IF s + 1 \in Correlated THEN {s + 1} ELSE {First}]
Tiered(s) == [u \in Correlated |-> IF u = s THEN "critical" ELSE IF u = First THEN "low" ELSE "standard"]
Topologies ==
    {NoTopology} \union [known : {TRUE}, deps : {Star, Ring}, tier : {Tiered(First), Tiered(Max(Correlated))}]

CallsOfEngine ==
    [about : {"engine"}, window : {2}, topology : Topologies,
     events : {es \in UpTo(MaxEvents, Events({10, 12}, {2, 7, 9}, {1})) : NewestFirst(es)},
     changes : {{}, {[service |-> First, at |-> 9], [service |-> First + 1, at |-> 11]}}]
\* Windows are split only when a caller asks for more than one window of events.
CallsOfDedup ==
    [about : {"dedup"}, window : {1},
     events : {es \in UpTo(MaxEvents + 1, [service : {1, 2}, at : 0..3, severity : {5}, alert : {1, 2}]) :
                 NewestFirst(es)}]
Loads0 == [p0 |-> 0, p1 |-> 0, other |-> 0]
Loads == {Loads0, [p0 |-> 1, p1 |-> 0, other |-> 0],
          [p0 |-> 0, p1 |-> 1, other |-> 1]}
\* The cycles of `serve` come in phases; six alert cycles are too few for calm, twelve are not.
Phases == [groups : Loads, model : {"answers"}, failed : {0}, times : {1, 6}]
            \union [groups : Loads \ {Loads0}, model : {"raises"}, failed : {0}, times : {1}]
            \union [groups : {Loads0}, model : {"answers"}, failed : {9}, times : {1}]
            \union [groups : {[p0 |-> 1, p1 |-> 0, other |-> 0]}, model : {"answers"},
                    failed : {15}, times : {1}]
CallsOfServe == [about : {"serve"}, phases : [1..MaxPhases -> Phases]]
CyclesOf(phases) == FlattenSeq([p \in DOMAIN phases |-> [i \in 1..phases[p].times |-> phases[p]]])
CallsOfBudget ==
    [about : {"budget"}, groups : UpTo(3, [priority : 0..3, tokens : {1, 2, 4}]), budget : {0, 3, 5}]

\* No event is lost or counted twice: each stands behind exactly one survivor, the
\* newest of its kind, and each survivor is in exactly one group, whose events lie
\* within the window of its first.
EventsAreKeptOnce ==
    call.about \in {"dedup", "engine"} =>
        LET es == call.events
            kept == Deduplicate(es)
            gs == GroupTemporal(Survivors(es), call.window)
            all == FlattenSeq([i \in DOMAIN gs |-> gs[i].events])
        IN  /\ \A i \in DOMAIN es : \E k \in DOMAIN kept :
                   /\ DedupKey(kept[k].event) = DedupKey(es[i])
                   /\ kept[k].event.at >= es[i].at /\ kept[k].event.at - es[i].at <= kept[k].spread
            /\ MapThenSumSet(LAMBDA k : kept[k].count, DOMAIN kept) = Len(es)
            /\ Len(all) = Len(kept) /\ Range(all) = Range(Survivors(es))
            /\ \A i \in DOMAIN gs :
                   /\ \A e \in Range(gs[i].events) : e.service = gs[i].service
                   /\ gs[i].last - gs[i].first <= call.window
            /\ \A i, j \in DOMAIN gs : (i < j /\ gs[i].service = gs[j].service)
                   => gs[j].first - gs[i].first > call.window

\* Every window is in exactly one correlation group; a severe event on a critical
\* service makes its group P0 whatever links took it; what is next to a failing critical
\* service is at least P1; the groups are in order; and every change that is blamed came
\* before a window of the group, on that window's service or one it depends on.
PriorityOf(groups, s) ==
    Min({groups[k].priority : k \in {k \in DOMAIN groups :
            \E g \in Range(groups[k].signals) : g.service = s}})
Holding(groups, g) == {k \in DOMAIN groups : g \in Range(groups[k].signals)}
GroupsPartition ==
    call.about = "engine" =>
        LET gs == GroupTemporal(Survivors(call.events), call.window)
            t == call.topology
            groups == Correlate(call.events, call.changes, t, call.window)
        IN  /\ \A i \in DOMAIN gs : Cardinality(Holding(groups, gs[i])) = 1
            /\ MapThenSumSet(LAMBDA k : Len(groups[k].signals), DOMAIN groups) = Len(gs)
            /\ \A k \in DOMAIN groups : \A g \in Range(groups[k].signals) :
                   /\ g.service \in groups[k].services
                   /\ (t.known /\ t.tier[g.service] = "critical" /\ g.peak > 8)
                          => groups[k].priority = 0
            /\ \A g, u \in Range(gs) :
                   (/\ t.known /\ t.tier[u.service] = "critical"
                    /\ DependsOn(t, g.service, u.service) \/ DependsOn(t, u.service, g.service))
                   => PriorityOf(groups, g.service) <= 1
            /\ \A k \in 1..(Len(groups) - 1) : groups[k].priority <= groups[k + 1].priority
            /\ \A k \in DOMAIN groups : \A c \in groups[k].changes :
                   \E g \in Range(gs) : /\ g.service \in groups[k].services /\ c.change.at <= g.first
                                        /\ c.change.service \in {g.service} \union t.deps[g.service]

\* A more severe event never leaves any group less urgent.
UrgencyIsMonotone ==
    (call.about = "engine" /\ call.changes = {}) =>
        LET before == Correlate(call.events, {}, call.topology, call.window)
        IN  \A i \in DOMAIN call.events :
            LET worse == [call.events EXCEPT ![i].severity = 9]
                after == Correlate(worse, {}, call.topology, call.window)
            IN  \A s \in {call.events[j].service : j \in DOMAIN call.events} :
                    PriorityOf(after, s) <= PriorityOf(before, s)

\* Of the cycles that correlate: alert is left for watching only after ten calm minutes; a
\* degraded cycle lasts one interval; a change of the groups reaches the model at once, and what the model has
\* been shown is shown again within fifteen minutes while it lasts.
SituationFollowed(cycles) ==
    LET st == History(cycles)
        groups(i) == cycles[i].groups
    IN  \A i \in DOMAIN cycles :
        /\ (st[i - 1].state = "alert" /\ st[i].state = "watching") =>
               \E a \in 1..(i - 1) : /\ \A k \in a..i : ~Elevated(groups(k))
                                     /\ st[i].now - st[a].now >= 600
        /\ (st[i - 1].state = "alert" /\ Elevated(groups(i))) => st[i].state # "watching"
        /\ st[i - 1].state = "degraded" => st[i].state # "alert"
        /\ (i > 1 /\ groups(i) # groups(i - 1) /\ groups(i) # Loads0) => st[i].asked
        /\ (groups(i) # Loads0 /\ ~st[i].asked) =>
               LET a == Max({k \in 1..(i - 1) : st[k].asked}) IN
               st[i].now - st[a].now < 900 /\ \A k \in a..i : groups(k) = groups(i)
ServeFollowsSituation == call.about = "serve" => SituationFollowed(CyclesOf(call.phases))

\* The prompt has every P0 group, and leaves out another only if it does not fit beside
\* the groups before it.
PromptKeepsUrgent ==
    call.about = "budget" =>
        LET gs == SortedByPriority(call.groups)
            taken == ApplyBudget(gs, call.budget)
            size(S) == MapThenSumSet(LAMBDA i : gs[i].tokens, S)
            urgent == {i \in DOMAIN gs : gs[i].priority = 0}
        IN  /\ urgent \subseteq taken
            /\ size(taken) <= Max({call.budget, size(urgent)})
            /\ \A i \in (DOMAIN gs) \ taken :
                   size({j \in taken : j < i}) + gs[i].tokens > call.budget
=============================================================================
