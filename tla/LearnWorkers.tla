---------------------------- MODULE LearnWorkers ----------------------------
(***************************************************************************)
(* LearnOutcomeModule and LearnRetrospectiveModule (learn/worker.py).      *)
(*                                                                         *)
(* Verdicts and snapshots are numbered in the order of created_at; a       *)
(* cursor is the number of the last record it is past, 0 for None.  mature *)
(* verdicts are older than minimum_resolution_age_hours, stale ones older  *)
(* than expiry_threshold_days.                                             *)
(***************************************************************************)
EXTENDS Naturals, Sequences, FiniteSets

CONSTANTS
    MaxVerdicts, MaxRetroSnapshots, \* bounds on what core is given
    PageSize,       \* most verdicts a poll asks for
    ListLimit,      \* most assessments core lists to a poll that names no limit
    MaxSlips        \* bound on failed calls, crashes and snapshots that cannot be read

ASSUME LearnBounds ==
    {MaxVerdicts, MaxRetroSnapshots, PageSize, ListLimit, MaxSlips} \subseteq Nat

VARIABLES
    verdicts,       \* core: sequence of [status, evidence]
    mature, stale,
    lcursor, lpage, current, \* the outcome module: cursor, page left, verdict in work
    signals,        \* core: calibration signals, a sequence of [verdict, outcome]
    blind,          \* history: verdicts for which a call to core failed
    shots,          \* core: number of correlation snapshots
    illegible,     \* core: those whose data a retrospective cannot be built from
    rcursor, rpage, retros, \* the retrospective module, and what core holds of it
    notTaken,        \* history: snapshots whose retrospective core did not take
    newestFirst,    \* the order core lists records in, which the code does not ask for
    learnSaved,     \* core: component_state of both modules
    slips, learnRestarts

outcomeVars == <<verdicts, mature, stale, lcursor, lpage, current, signals, blind>>
retroVars   == <<shots, illegible, rcursor, rpage, retros, notTaken, newestFirst>>
learnVars   == <<outcomeVars, retroVars, learnSaved, slips, learnRestarts>>

Outcomes == {"pending", "confirmed", "overridden", "expired"}
None == [verdict |-> 0, resolution |-> "none", step |-> "none"]

LearnTypeOK ==
    /\ \A v \in DOMAIN verdicts :
           /\ verdicts[v].status \in Outcomes
           /\ verdicts[v].evidence \subseteq {"execution", "overridden"}
    /\ stale <= mature /\ mature <= Len(verdicts)
    /\ lcursor \in 0..mature /\ rcursor \in 0..shots /\ illegible \subseteq 1..shots
    /\ current.step \in {"none", "attempt", "resolve", "signal", "expire"}

LearnInit ==
    /\ verdicts = << >> /\ mature = 0 /\ stale = 0
    /\ lcursor = 0 /\ lpage = << >> /\ current = None /\ signals = << >> /\ blind = {}
    /\ shots = 0 /\ illegible = {} /\ rcursor = 0 /\ rpage = << >> /\ retros = << >>
    /\ notTaken = {} /\ newestFirst \in BOOLEAN
    /\ learnSaved = [outcome |-> 0, retro |-> 0] /\ slips = 0 /\ learnRestarts = 0

Slip(ok) ==
    /\ ~ok => slips < MaxSlips
    /\ slips' = IF ok THEN slips ELSE slips + 1

-----------------------------------------------------------------------------
(* The other components and the clock. *)

NewVerdict ==
    /\ Len(verdicts) < MaxVerdicts
    /\ verdicts' = Append(verdicts, [status |-> "pending", evidence |-> {}])
    /\ UNCHANGED <<mature, stale, lcursor, lpage, current, signals, blind, retroVars,
                   learnSaved, slips, learnRestarts>>

NewEvidence ==
    /\ \E v \in DOMAIN verdicts, d \in {"execution", "overridden"} :
           /\ d \notin verdicts[v].evidence
           /\ verdicts' = [verdicts EXCEPT ![v].evidence = @ \union {d}]
    /\ UNCHANGED <<mature, stale, lcursor, lpage, current, signals, blind, retroVars,
                   learnSaved, slips, learnRestarts>>

Aging ==
    /\ \/ mature < Len(verdicts) /\ mature' = mature + 1 /\ UNCHANGED stale
       \/ stale < mature /\ stale' = stale + 1 /\ UNCHANGED mature
    /\ UNCHANGED <<verdicts, lcursor, lpage, current, signals, blind, retroVars,
                   learnSaved, slips, learnRestarts>>

NewSnapshot ==
    /\ shots < MaxRetroSnapshots
    /\ shots' = shots + 1
    /\ \E fine \in BOOLEAN :
           /\ Slip(fine)
           /\ illegible' = IF fine THEN illegible ELSE illegible \union {shots'}
    /\ UNCHANGED <<outcomeVars, rcursor, rpage, retros, notTaken, newestFirst, learnSaved,
                   learnRestarts>>

-----------------------------------------------------------------------------
(* LearnOutcomeModule.process_cycle *)
\* The k-th of the mature verdicts past the cursor, in the order core lists them.
MatureAt(k) == IF newestFirst THEN mature + 1 - k ELSE lcursor + k

\* A page of them, each with the status it had then.
FetchVerdicts ==
    /\ lpage = << >> /\ current = None
    /\ lcursor < mature
    /\ LET n == IF mature - lcursor < PageSize THEN mature - lcursor ELSE PageSize IN
       lpage' = [k \in 1..n |-> [verdict |-> MatureAt(k), status |-> verdicts[MatureAt(k)].status]]
    /\ UNCHANGED <<verdicts, mature, stale, lcursor, current, signals, blind, retroVars,
                   learnSaved, slips, learnRestarts>>

\* A verdict that is not pending is left alone, the cursor too.
NextVerdict ==
    /\ lpage # << >> /\ current = None
    /\ lpage' = Tail(lpage)
    /\ current' = IF Head(lpage).status = "pending"
                  THEN [None EXCEPT !.verdict = Head(lpage).verdict, !.step = "attempt"]
                  ELSE None
    /\ UNCHANGED <<verdicts, mature, stale, lcursor, signals, blind, retroVars,
                   learnSaved, slips, learnRestarts>>

\* The verdict is done with, and the cursor moves to it if it is ahead.
Advance(v) == IF v > lcursor THEN v ELSE lcursor

\* Only an execution resolves.
MutAttempt(ok) ==
    /\ current.step = "attempt"
    /\ Slip(ok)
    /\ LET v == current.verdict
           resolution == IF ok /\ "execution" \in verdicts[v].evidence THEN "confirmed"
                         ELSE "none"
       IN /\ blind' = IF ok THEN blind ELSE blind \union {v}
          /\ IF resolution = "none"
             THEN current' = None /\ lcursor' = Advance(v)
             ELSE /\ current' = [current EXCEPT !.step = "resolve", !.resolution = resolution]
                  /\ UNCHANGED lcursor
    /\ UNCHANGED <<verdicts, mature, stale, lpage, signals, retroVars, learnSaved, learnRestarts>>

\* _attempt_resolution: overridden before confirmed.  No answer reads like no
\* descendants, and without a resolution a stale verdict expires.
Attempt(ok) ==
    /\ current.step = "attempt"
    /\ Slip(ok)
    /\ LET v == current.verdict
           evidence == IF ok THEN verdicts[v].evidence ELSE {}
           resolution == IF "overridden" \in evidence THEN "overridden"
                         ELSE IF "execution" \in evidence THEN "confirmed" ELSE "none"
       IN /\ blind' = IF ok THEN blind ELSE blind \union {v}
          /\ \/ /\ resolution # "none"
                /\ current' = [current EXCEPT !.step = "resolve", !.resolution = resolution]
                /\ UNCHANGED lcursor
             \/ /\ resolution = "none" /\ v <= stale
                /\ current' = [current EXCEPT !.step = "expire"]
                /\ UNCHANGED lcursor
             \/ /\ resolution = "none" /\ v > stale
                /\ current' = None
                /\ lcursor' = Advance(v)
    /\ UNCHANGED <<verdicts, mature, stale, lpage, signals, retroVars, learnSaved, learnRestarts>>

\* The signal goes out whether core took the resolution or not.
MutResolveOutcome(ok) ==
    /\ current.step = "resolve"
    /\ Slip(ok)
    /\ verdicts' = IF ok THEN [verdicts EXCEPT ![current.verdict].status = current.resolution]
                   ELSE verdicts
    /\ current' = [current EXCEPT !.step = "signal"]
    /\ UNCHANGED <<mature, stale, lcursor, lpage, signals, blind, retroVars, learnSaved,
                   learnRestarts>>

\* resolve_outcome; when core refuses, the verdict does not move the cursor, but
\* a later verdict of the page may move it past both.
ResolveOutcome(ok) ==
    /\ current.step = "resolve"
    /\ Slip(ok)
    /\ verdicts' = IF ok THEN [verdicts EXCEPT ![current.verdict].status = current.resolution]
                   ELSE verdicts
    /\ current' = IF ok THEN [current EXCEPT !.step = "signal"] ELSE None
    /\ blind' = IF ok THEN blind ELSE blind \union {current.verdict}
    /\ UNCHANGED <<mature, stale, lcursor, lpage, signals, retroVars, learnSaved,
                   learnRestarts>>

\* _emit_calibration_signal, a refusal is only logged.
EmitSignal(ok) ==
    /\ current.step = "signal"
    /\ Slip(ok)
    /\ signals' = IF ok THEN Append(signals, [verdict |-> current.verdict,
                                              outcome |-> current.resolution])
                  ELSE signals
    /\ current' = None
    /\ UNCHANGED <<verdicts, mature, stale, lcursor, lpage, blind, retroVars, learnSaved,
                   learnRestarts>>

Expire(ok) ==
    /\ current.step = "expire"
    /\ Slip(ok)
    /\ verdicts' = IF ok THEN [verdicts EXCEPT ![current.verdict].status = "expired"]
                   ELSE verdicts
    /\ blind' = IF ok THEN blind ELSE blind \union {current.verdict}
    /\ lcursor' = Advance(current.verdict)
    /\ current' = None
    /\ UNCHANGED <<mature, stale, lpage, signals, retroVars, learnSaved, learnRestarts>>

-----------------------------------------------------------------------------
(* LearnRetrospectiveModule.process_cycle *)

\* What core lists of n snapshots: the poll names neither a cursor nor a limit.
Listed(n) ==
    [k \in 1..(IF n < ListLimit THEN n ELSE ListLimit) |-> IF newestFirst THEN n + 1 - k ELSE k]

FetchSnapshots ==
    /\ rpage = << >> /\ rcursor < shots
    /\ rpage' = Listed(shots)
    /\ UNCHANGED <<outcomeVars, shots, illegible, rcursor, retros, notTaken, newestFirst,
                   learnSaved, slips, learnRestarts>>

\* The cursor moves to the newest snapshot.
MutRetrospectNewest(ok) ==
    /\ rpage # << >> /\ rpage' = Tail(rpage)
    /\ LET s == Head(rpage) IN
       IF s <= rcursor THEN UNCHANGED <<rcursor, retros, notTaken, slips>>
       ELSE /\ s \notin illegible /\ Slip(ok)
            /\ retros' = IF ok THEN Append(retros, s) ELSE retros
            /\ notTaken' = IF ok THEN notTaken ELSE notTaken \union {s}
            /\ rcursor' = IF ok THEN shots ELSE rcursor
    /\ UNCHANGED <<outcomeVars, shots, illegible, newestFirst, learnSaved, learnRestarts>>

\* Snapshots up to the cursor, as it is by then, are passed over; only a
\* submission that core accepts moves it.
Retrospect(ok) ==
    /\ rpage # << >> /\ rpage' = Tail(rpage)
    /\ LET s == Head(rpage) IN
       IF s <= rcursor THEN UNCHANGED <<rcursor, retros, notTaken, slips>>
       ELSE /\ s \notin illegible /\ Slip(ok)
            /\ retros' = IF ok THEN Append(retros, s) ELSE retros
            /\ notTaken' = IF ok THEN notTaken ELSE notTaken \union {s}
            /\ rcursor' = IF ok THEN s ELSE rcursor
    /\ UNCHANGED <<outcomeVars, shots, illegible, newestFirst, learnSaved, learnRestarts>>

\* Building the retrospective raises out of process_cycle: the rest of the page is
\* dropped, and the next cycle meets the same snapshot again.
RetrospectRaises ==
    /\ rpage # << >> /\ Head(rpage) > rcursor /\ Head(rpage) \in illegible
    /\ rpage' = << >>
    /\ UNCHANGED <<outcomeVars, shots, illegible, rcursor, retros, notTaken, newestFirst,
                   learnSaved, slips, learnRestarts>>

-----------------------------------------------------------------------------

\* The runner stores both states; a cycle is done when its page is.
SaveLearn(ok) ==
    /\ current = None /\ lpage = << >> /\ rpage = << >>
    /\ learnSaved # [outcome |-> lcursor, retro |-> rcursor]
    /\ Slip(ok)
    /\ learnSaved' = IF ok THEN [outcome |-> lcursor, retro |-> rcursor] ELSE learnSaved
    /\ UNCHANGED <<outcomeVars, retroVars, learnRestarts>>

LearnCrash ==
    /\ slips < MaxSlips
    /\ slips' = slips + 1 /\ learnRestarts' = learnRestarts + 1
    /\ lcursor' = learnSaved.outcome /\ rcursor' = learnSaved.retro
    /\ lpage' = << >> /\ rpage' = << >> /\ current' = None
    /\ UNCHANGED <<verdicts, mature, stale, signals, blind, shots, illegible, retros,
                   notTaken, newestFirst, learnSaved>>

OutcomeStep ==
    \/ FetchVerdicts \/ NextVerdict
    \/ \E ok \in BOOLEAN : Attempt(ok) \/ ResolveOutcome(ok) \/ EmitSignal(ok) \/ Expire(ok)

RetroStep == FetchSnapshots \/ RetrospectRaises \/ \E ok \in BOOLEAN : Retrospect(ok)

LearnNext ==
    \/ NewVerdict \/ NewEvidence \/ Aging \/ NewSnapshot
    \/ OutcomeStep \/ RetroStep \/ \E ok \in BOOLEAN : SaveLearn(ok)
    \/ LearnCrash

\* The runner gives every module its turn.
LearnFairness ==
    WF_learnVars(Aging) /\ WF_learnVars(OutcomeStep) /\ WF_learnVars(RetroStep)

LearnSpec == LearnInit /\ [][LearnNext]_learnVars /\ LearnFairness

-----------------------------------------------------------------------------
(* Properties. *)

\* A calibration signal is sent at most once for a verdict and tells the outcome
\* core holds, whatever crashed, was refused or arrived in between; a verdict
\* that expired has none.
SignalsTruthful ==
    /\ \A i, j \in DOMAIN signals : signals[i].verdict = signals[j].verdict => i = j
    /\ \A i \in DOMAIN signals : verdicts[signals[i].verdict].status = signals[i].outcome

\* The cursor leaves no verdict behind that the module could have resolved when
\* it looked: a pending verdict it passes had no evidence then, or a call to core
\* for it failed.  (Evidence that comes later is never read: nothing polls behind
\* the cursor.)  Asked of a core that lists the oldest first: with the newest first
\* the cursor passes whatever did not fit the page.
EvidenceIsUsed ==
    [][~newestFirst => \A v \in DOMAIN verdicts :
          (lcursor < v /\ v <= lcursor' /\ verdicts'[v].status = "pending")
              => v \in blind' \/ verdicts[v].evidence = {}]_learnVars

\* No snapshot gets two retrospectives while the module keeps its cursor.
RetrospectsOnce ==
    learnRestarts = 0 => \A i, j \in DOMAIN retros : retros[i] = retros[j] => i = j

\* A failed retrospective costs its own snapshot and no other: each is retrospected,
\* unless core refused its own, whatever else was refused and wherever the module
\* crashed.  Asked of a core that lists the oldest first and as far as its list
\* reaches; a snapshot that cannot be read stops the module for all after it.
EverySnapshotRetrospected ==
    \A s \in 1..MaxRetroSnapshots :
        shots >= s ~> \/ \E i \in DOMAIN retros : retros[i] = s
                      \/ s \in notTaken
                      \/ newestFirst \/ s > ListLimit
                      \/ \E b \in illegible : b <= s

\* learn/worker.py:45 says of a cycle: "Marks expired verdicts past threshold".
\* Every verdict ends resolved or expired, if no call fails.
PendingExpires ==
    \A v \in 1..MaxVerdicts :
        v \in DOMAIN verdicts
            ~> \E w \in DOMAIN verdicts :
                   w = v /\ (verdicts[w].status # "pending" \/ slips > 0)
=============================================================================
