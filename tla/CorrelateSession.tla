-------------------------- MODULE CorrelateSession --------------------------
(***************************************************************************)
(* CorrelateSessionModule (correlate/worker.py) and its session windows    *)
(* (correlate/session.py): four polls of core behind one timestamp cursor, *)
(* windows per domain that close on a gap, a maximal duration or a quality *)
(* breach, and a snapshot for each closed window that holds events.        *)
(*                                                                         *)
(* An event is its position in core's log; several may carry one           *)
(* timestamp.  Timestamps and the clock are ticks; a record that cannot be *)
(* converted, or whose timestamp cannot be read, raises out of the cycle.  *)
(***************************************************************************)
EXTENDS Naturals, Sequences, FiniteSets

CONSTANTS
    Domains,        \* service and environment
    Kinds,          \* the record kinds polled, one poll each
    BreachKind,     \* quality_breach
    Unfiltered,     \* the kinds core lists without created_after: assessments
    PollLimit,      \* records in the page of one poll
    Gap, MaxDuration,
    MaxEvents, PublishUntil, MaxNow,   \* bounds on events and on the clock
    MaxMishaps      \* bound on failed polls, refused snapshots and crashes

ASSUME SessionAssumption ==
    /\ BreachKind \in Kinds /\ Unfiltered \subseteq Kinds
    /\ {PollLimit, Gap, MaxDuration, MaxEvents, PublishUntil, MaxNow, MaxMishaps} \subseteq Nat
    /\ MaxNow # 0           \* the clock starts at 1

VARIABLES
    events,         \* core: sequence of [kind, domain, at]
    time,
    cursor,         \* 0 is None
    windows,        \* open windows, domain -> window
    saved,          \* core: component_state of "correlate"
    stage,          \* "idle", "polling", "emitting", "saving" or "down"
    toPoll, fetched, \* kinds still to poll and events fetched in this cycle
    closing,        \* closed windows whose snapshot is still to be sent
    reported,       \* history: snapshots core holds, each a set of events
    refused,        \* history: events of snapshots that core refused
    cut,            \* history: the last ingestion raised half-way
    mishaps, restarts

sessionVars == <<events, time, cursor, windows, saved, stage, toPoll, fetched,
                 closing, reported, refused, cut, mishaps, restarts>>

SessionTypeOK ==
    /\ time \in 0..MaxNow /\ cursor \in 0..PublishUntil + 1
    /\ DOMAIN windows \subseteq Domains
    /\ \A d \in DOMAIN windows :
           /\ windows[d].held \subseteq {e \in DOMAIN events : events[e].domain = d}
           /\ windows[d].opened <= windows[d].last
    /\ stage \in {"idle", "polling", "emitting", "saving", "down"}
    /\ \A s \in reported : s # {}
    /\ cut \in BOOLEAN

SessionInit ==
    /\ events = << >> /\ time = 1 /\ cursor = 0
    /\ windows = << >> /\ saved = [cursor |-> 0, windows |-> << >>]
    /\ stage = "idle" /\ toPoll = {} /\ fetched = {} /\ closing = << >>
    /\ reported = {} /\ refused = {} /\ cut = FALSE /\ mishaps = 0 /\ restarts = 0

core == <<events, time>>
outcome == <<reported, refused>>
cycleVars == <<toPoll, fetched, closing>>

-----------------------------------------------------------------------------

Publish ==
    /\ Len(events) < MaxEvents /\ time <= PublishUntil
    /\ \E k \in Kinds, d \in Domains :
           events' = Append(events, [kind |-> k, domain |-> d, at |-> time])
    /\ UNCHANGED <<time, cursor, windows, saved, stage, cycleVars, outcome, cut, mishaps, restarts>>

SessionTick ==
    /\ time < MaxNow
    /\ time' = time + 1
    /\ UNCHANGED <<events, cursor, windows, saved, stage, cycleVars, outcome, cut, mishaps, restarts>>

StartPolling ==
    /\ stage = "idle"
    /\ stage' = "polling" /\ toPoll' = Kinds /\ fetched' = {}
    /\ UNCHANGED <<core, cursor, windows, saved, closing, outcome, cut, mishaps, restarts>>

Mishap(ok) ==
    /\ ~ok => mishaps < MaxMishaps
    /\ mishaps' = IF ok THEN mishaps ELSE mishaps + 1

Newer(es) == {e \in es : events[e].at > cursor}

\* What a poll of kind k may return: a page of core's list without what the
\* cursor has passed.  Core drops that from verdicts before it cuts the page,
\* the module from assessments after.  In which order core lists is open.
Pages(k) ==
    LET kept == {e \in DOMAIN events : events[e].kind = k}
        listed == IF k \in Unfiltered THEN kept ELSE Newer(kept)
    IN  {Newer(page) : page \in {es \in SUBSET listed :
            \/ Cardinality(es) = PollLimit
            \/ es = listed /\ Cardinality(es) < PollLimit}}

\* One of the polls of _poll_events; all use the cursor the cycle started with.
Poll(k, ok) ==
    /\ stage = "polling" /\ k \in toPoll
    /\ Mishap(ok)
    /\ toPoll' = toPoll \ {k}
    /\ IF ok THEN \E page \in Pages(k) : fetched' = fetched \union page
       ELSE fetched' = fetched
    /\ UNCHANGED <<core, cursor, windows, saved, stage, closing, outcome, cut, restarts>>

\* A record that cannot be converted raises out of _poll_events: the cycle
\* is over, and its events with it, before the cursor has moved.
PollRaises ==
    /\ stage = "polling"
    /\ Mishap(FALSE)
    /\ stage' = "idle" /\ toPoll' = {} /\ fetched' = {}
    /\ UNCHANGED <<core, cursor, windows, saved, closing, outcome, cut, restarts>>

Latest(es) == CHOOSE t \in {events[e].at : e \in es} : \A e \in es : events[e].at <= t
Earliest(es) == CHOOSE t \in {events[e].at : e \in es} : \A e \in es : events[e].at >= t

In(es, d) == {e \in es : events[e].domain = d}
\* SessionWindowManager.ingest over the events of one domain.  A new window
\* opens at the timestamp of whichever event comes first; with the polls in no
\* order that is any of them.
Ingested(es, d, first) ==
    LET mine == In(es, d)
        open == IF d \in DOMAIN windows THEN windows[d]
                ELSE [held |-> {}, opened |-> events[first].at,
                      last |-> events[first].at, trigger |-> FALSE]
    IN  IF mine = {} THEN open
        ELSE [held |-> open.held \union mine,
              opened |-> open.opened,
              last |-> IF Latest(mine) > open.last THEN Latest(mine) ELSE open.last,
              trigger |-> open.trigger \/ \E e \in mine : events[e].kind = BreachKind]
Firsts(es) ==
    {f \in [Domains -> DOMAIN events \union {0}] :
        \A d \in Domains : IF In(es, d) = {} THEN f[d] = 0 ELSE f[d] \in In(es, d)}
\* All windows once the events es are in them.
Filled(es, first) ==
    [d \in DOMAIN windows \union {d \in Domains : In(es, d) # {}} |-> Ingested(es, d, first[d])]
ShouldClose(w) ==
    w.trigger \/ time - w.last >= Gap \/ time - w.opened >= MaxDuration

\* close_ready over the windows all.
WindowsClosed(all, ready) ==
    /\ windows' = [d \in DOMAIN all \ ready |-> all[d]]
    /\ closing' = [d \in ready |-> all[d].held]

\* The cursor follows the oldest event of the cycle.
MutIngestOldest ==
    /\ stage = "polling" /\ toPoll = {}
    /\ cursor' = IF fetched = {} THEN cursor ELSE Earliest(fetched)
    /\ \E first \in Firsts(fetched) :
           LET all == Filled(fetched, first)
           IN  WindowsClosed(all, {d \in DOMAIN all : ShouldClose(all[d])})
    /\ stage' = "emitting" /\ cut' = FALSE
    /\ UNCHANGED <<core, saved, toPoll, fetched, outcome, mishaps, restarts>>

\* A cycle without events returns at once.
MutIngestEmpty ==
    /\ stage = "polling" /\ toPoll = {}
    /\ cursor' = IF fetched = {} THEN cursor ELSE Latest(fetched)
    /\ \E first \in Firsts(fetched) :
           LET all == Filled(fetched, first)
           IN  WindowsClosed(all, {d \in DOMAIN all : fetched # {} /\ ShouldClose(all[d])})
    /\ stage' = "emitting" /\ cut' = (cut /\ fetched = {})
    /\ UNCHANGED <<core, saved, toPoll, fetched, outcome, mishaps, restarts>>

\* The cursor, the ingestion and close_ready: no await between them.
Ingest ==
    /\ stage = "polling" /\ toPoll = {}
    /\ cursor' = IF fetched = {} THEN cursor ELSE Latest(fetched)
    /\ \E first \in Firsts(fetched) :
           LET all == Filled(fetched, first)
           IN  WindowsClosed(all, {d \in DOMAIN all : ShouldClose(all[d])})
    /\ stage' = "emitting" /\ cut' = FALSE
    /\ UNCHANGED <<core, saved, toPoll, fetched, outcome, mishaps, restarts>>

\* A timestamp that cannot be read raises out of ingest, when the cursor has
\* moved and some of the events are in their windows: nothing is closed, the
\* rest of the events is lost, and the runner stores nothing.
IngestRaises ==
    /\ stage = "polling" /\ toPoll = {} /\ fetched # {}
    /\ Mishap(FALSE)
    /\ cursor' = Latest(fetched)
    /\ \E part \in SUBSET fetched :
           /\ part # fetched
           /\ \E first \in Firsts(part) : windows' = Filled(part, first)
    /\ stage' = "idle" /\ fetched' = {} /\ cut' = TRUE
    /\ UNCHANGED <<core, saved, toPoll, closing, outcome, restarts>>

\* _emit_snapshot: a window without events is skipped, a refusal only logged.
EmitSnapshot(d, ok) ==
    /\ stage = "emitting" /\ d \in DOMAIN closing
    /\ Mishap(ok \/ closing[d] = {})
    /\ reported' = IF ok /\ closing[d] # {} THEN reported \union {closing[d]} ELSE reported
    /\ refused' = IF ok THEN refused ELSE refused \union closing[d]
    /\ closing' = [c \in DOMAIN closing \ {d} |-> closing[c]]
    /\ UNCHANGED <<core, cursor, windows, saved, stage, toPoll, fetched, cut, restarts>>

\* The runner stores get_state(): the windows without their events.
SaveState(ok) ==
    /\ stage = "emitting" /\ DOMAIN closing = {}
    /\ Mishap(ok)
    /\ saved' = IF ok THEN [cursor |-> cursor,
                            windows |-> [d \in DOMAIN windows |->
                                            [windows[d] EXCEPT !.held = {}]]]
                ELSE saved
    /\ stage' = "idle" /\ fetched' = {}
    /\ UNCHANGED <<core, cursor, windows, toPoll, closing, outcome, cut, restarts>>

CorrelateCrash ==
    /\ stage # "down" /\ mishaps < MaxMishaps
    /\ mishaps' = mishaps + 1
    /\ stage' = "down" /\ toPoll' = {} /\ fetched' = {} /\ closing' = << >>
    /\ UNCHANGED <<core, cursor, windows, saved, outcome, cut, restarts>>

RestoreSession ==
    /\ stage = "down"
    /\ cursor' = saved.cursor /\ windows' = saved.windows /\ cut' = FALSE
    /\ stage' = "idle" /\ restarts' = restarts + 1
    /\ UNCHANGED <<core, saved, cycleVars, outcome, mishaps>>

SessionStep ==
    \/ StartPolling \/ Ingest \/ RestoreSession
    \/ \E ok \in BOOLEAN :
           \/ \E k \in Kinds : Poll(k, ok)
           \/ \E d \in Domains : EmitSnapshot(d, ok)
           \/ SaveState(ok)

SessionNext ==
    \/ Publish \/ SessionTick \/ SessionStep
    \/ PollRaises \/ IngestRaises \/ CorrelateCrash

SessionFairness == WF_sessionVars(SessionTick) /\ WF_sessionVars(SessionStep)

SessionSpec == SessionInit /\ [][SessionNext]_sessionVars /\ SessionFairness

-----------------------------------------------------------------------------
(* Properties. *)

\* A quality breach closes its window in the cycle that reads it, so no cycle
\* ends with one in an open window, nor does a restored window hold one: only
\* an ingestion that raised leaves one, until the next that does not.
BreachClosesWindow ==
    stage = "idle" /\ ~cut =>
        \A d \in DOMAIN windows :
            /\ ~windows[d].trigger
            /\ \A e \in windows[d].held : events[e].kind # BreachKind

\* Until a restart replays a cycle whose cursor was not stored, no event is in
\* two snapshots, in two windows, or in a snapshot and a window.
EventsReportedOnce ==
    restarts = 0 =>
        LET closed == {closing[d] : d \in DOMAIN closing}
            open == {windows[d].held : d \in DOMAIN windows} IN
        /\ \A s, t \in reported : s # t => s \intersect t = {}
        /\ \A s \in reported, t \in closed \union open : s \intersect t = {}
        /\ \A s \in closed, t \in open : s \intersect t = {}

\* What a cycle has put in a window comes out in a snapshot, unless core refuses
\* it or the process dies with it in memory: quiet windows close by their gap.
HeldIsReported ==
    \A e \in 1..MaxEvents :
        (\E d \in DOMAIN windows : e \in windows[d].held)
            ~> \/ \E s \in reported : e \in s
               \/ e \in refused
               \/ restarts > 0 \/ stage = "down"
=============================================================================
