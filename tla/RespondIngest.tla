--------------------------- MODULE RespondIngest ---------------------------
(***************************************************************************)
(* RespondModule (respond/worker.py, respond/worker_helpers.py): the       *)
(* worker that polls core for correlation snapshots and, as a fallback,    *)
(* for quality breaches older than a threshold, opens an incident and a    *)
(* case for each, drives the incidents and returns cursors and incidents   *)
(* to be persisted at the end of the cycle.                                *)
(*                                                                         *)
(* Core keeps two logs in the order of created_at: a breach is its number, *)
(* a snapshot its position, and a cursor the position of the last record   *)
(* handled (0 is Python's None).  The fallback's cutoff timestamp is the   *)
(* number of breaches older than it.                                       *)
(***************************************************************************)
EXTENDS Naturals, Sequences, FiniteSets

CONSTANTS
    MaxBreaches,    \* bound on the breaches measure publishes
    MaxSnapshots,   \* bound on the snapshots correlate publishes
    MaxIncidents,   \* bound on the incidents opened in a behaviour
    MaxFaults       \* bound on bad records, failed calls and crashes together

ASSUME IngestBounds ==
    {MaxBreaches, MaxSnapshots, MaxIncidents, MaxFaults} \subseteq Nat

VARIABLES
    breachCount,    \* core: quality_breach verdicts 1..breachCount
    broken,         \* core: those of them that no incident can be built from
    cutoff,         \* breaches older than fallback_threshold_seconds
    snapshots,      \* core: the correlation_snapshot assessments
    cases,          \* core: the incidents a case was created for
    stored,         \* core: component_state of "respond"
    cycle,          \* where the worker is in its cycle, or "down"
    snapCursor, breachCursor, incidents,   \* the worker's memory
    snapPage, breachPage,                  \* records the cycle's polls returned
    nextId, faults, \* bounds: incidents opened, faults taken
    settled         \* history: triggers of the incidents driven to a terminal state

coreVars   == <<breachCount, broken, cutoff, snapshots>>
memory     == <<snapCursor, breachCursor, incidents>>
ingestVars == <<coreVars, memory, cases, stored, cycle, snapPage, breachPage,
                nextId, faults, settled>>

Breach(b)   == <<"breach", b>>
Snapshot(s) == <<"snapshot", s>>
Trigger == ({"breach"} \X (1..MaxBreaches)) \union ({"snapshot"} \X (1..MaxSnapshots))
Incident == [triggers : SUBSET Trigger, state : {"open", "awaiting", "terminal"}]
NoState == [snapCursor |-> 0, breachCursor |-> 0, incidents |-> << >>]

\* A snapshot that is not "fine" cannot be opened; in an "unreadable" one even
\* looking for its parent_ids raises.
Assessment == [parents : SUBSET (1..MaxBreaches), data : {"fine", "unopenable", "unreadable"}]

IngestTypeOK ==
    /\ breachCount \in 0..MaxBreaches /\ cutoff \in 0..breachCount
    /\ broken \subseteq 1..breachCount
    /\ snapshots \in Seq(Assessment)
    /\ Len(snapshots) <= MaxSnapshots
    /\ \A s \in 1..Len(snapshots) : snapshots[s].parents \subseteq 1..breachCount
    /\ cases \subseteq 1..(nextId - 1)
    /\ cycle \in {"idle", "snapshots", "breaches", "driven", "down"}
    /\ snapCursor \in 0..Len(snapshots) /\ snapPage \in 0..Len(snapshots)
    /\ breachCursor \in 0..breachCount /\ breachPage \in 0..breachCount
    /\ stored.snapCursor \in 0..Len(snapshots) /\ stored.breachCursor \in 0..breachCount
    /\ nextId \in Nat \ {0} /\ faults \in 0..MaxFaults
    /\ \A i \in DOMAIN incidents : i \in 1..(nextId - 1) /\ incidents[i] \in Incident
    /\ \A i \in DOMAIN stored.incidents :
           i \in 1..(nextId - 1) /\ stored.incidents[i] \in Incident

IngestInit ==
    /\ breachCount = 0 /\ broken = {} /\ cutoff = 0 /\ snapshots = << >>
    /\ cases = {} /\ stored = NoState
    /\ cycle = "idle" /\ snapPage = 0 /\ breachPage = 0
    /\ snapCursor = 0 /\ breachCursor = 0 /\ incidents = << >>
    /\ nextId = 1 /\ faults = 0 /\ settled = {}

-----------------------------------------------------------------------------
(* The producers and the clock. *)

\* What may go wrong, a record or a call to core, up to the bound on faults.
Answers(ok) ==
    /\ ok \in BOOLEAN
    /\ ~ok => faults < MaxFaults
    /\ faults' = IF ok THEN faults ELSE faults + 1

PublishBreach ==
    /\ breachCount < MaxBreaches
    /\ breachCount' = breachCount + 1
    /\ \E fine \in BOOLEAN :
           /\ Answers(fine)
           /\ broken' = IF fine THEN broken ELSE broken \union {breachCount'}
    /\ UNCHANGED <<cutoff, snapshots, memory, cases, stored, cycle, snapPage,
                   breachPage, nextId, settled>>

\* correlate puts a breach in one window, so in one snapshot, unless it crashed
\* between emitting a snapshot and saving its cursor and emits the window again;
\* a window that closed without a breach gives a snapshot without parent_ids.
PublishSnapshot ==
    /\ Len(snapshots) < MaxSnapshots
    /\ \E snapshot \in [parents : SUBSET (1..breachCount),
                        data : {"fine", "unopenable", "unreadable"}] :
           LET again == \E s \in DOMAIN snapshots :
                            snapshots[s].parents \intersect snapshot.parents # {} IN
           /\ snapshot.data = "unreadable" => snapshot.parents = {}
           /\ faults' = faults + (IF snapshot.data = "fine" THEN 0 ELSE 1)
                               + (IF again THEN 1 ELSE 0)
           /\ snapshots' = Append(snapshots, snapshot)
    /\ faults' <= MaxFaults
    /\ UNCHANGED <<breachCount, broken, cutoff, memory, cases, stored, cycle, snapPage,
                   breachPage, nextId, settled>>

TimePasses ==
    /\ cutoff < breachCount
    /\ cutoff' = cutoff + 1
    /\ UNCHANGED <<breachCount, broken, snapshots, memory, cases, stored, cycle, snapPage,
                   breachPage, nextId, faults, settled>>

-----------------------------------------------------------------------------
(* The worker's cycle: one action per await that other actors can reach     *)
(* between.                                                                 *)

\* _ingest_snapshots polls; a failed poll hands the fallback an empty page.
PollSnapshots(ok) ==
    /\ cycle = "idle"
    /\ Answers(ok)
    /\ snapPage' = IF ok THEN Len(snapshots) ELSE 0
    /\ cycle' = "snapshots"
    /\ UNCHANGED <<coreVars, memory, cases, stored, breachPage, nextId, settled>>

TriggeredFrom(incs) == UNION {incs[i].triggers : i \in DOMAIN incs}
\* Opens an incident and eagerly its case; the case is best effort.
Open(triggers, anchored, caseOk) ==
    /\ nextId <= MaxIncidents
    /\ Answers(caseOk)
    /\ incidents' = [i \in DOMAIN incidents \union {nextId} |->
                        IF i = nextId THEN [triggers |-> triggers, state |-> "open"]
                                      ELSE incidents[i]]
    /\ cases' = IF anchored /\ caseOk THEN cases \union {nextId} ELSE cases
    /\ nextId' = nextId + 1

Skip == UNCHANGED <<incidents, cases, nextId, faults>>

\* open_from_snapshot: the snapshot's id and its parent breaches.
SnapshotTriggers(s) == {Snapshot(s)} \union {Breach(b) : b \in snapshots[s].parents}

\* One turn of _ingest_snapshots' loop: the cursor moves whether the snapshot
\* was opened, skipped as already triggered, or failed to open.
IngestSnapshot(caseOk) ==
    /\ cycle = "snapshots" /\ snapCursor < snapPage
    /\ LET s == snapCursor + 1 IN
       /\ snapCursor' = s
       /\ \/ /\ Snapshot(s) \notin TriggeredFrom(incidents)
             /\ snapshots[s].data = "fine"
             /\ Open(SnapshotTriggers(s), snapshots[s].parents # {}, caseOk)
          \/ /\ \/ Snapshot(s) \in TriggeredFrom(incidents)
                \/ snapshots[s].data # "fine"
             /\ Skip
    /\ UNCHANGED <<coreVars, breachCursor, stored, cycle, snapPage, breachPage, settled>>

\* breach_ids_with_snapshots, over the page this cycle's snapshot poll returned.
BreachIdsWithSnapshots == UNION {snapshots[s].parents : s \in 1..snapPage}

\* It raises on a record of the page that it cannot read.
PageUnreadable == \E s \in 1..snapPage : snapshots[s].data = "unreadable"

\* Mutant: no snapshot in the cache is taken for nothing to do.
MutPollBreaches(ok) ==
    /\ cycle = "snapshots" /\ snapCursor >= snapPage
    /\ Answers(ok)
    /\ breachPage' = IF ok /\ snapPage > 0 /\ breachCursor < cutoff THEN cutoff ELSE 0
    /\ cycle' = "breaches"
    /\ UNCHANGED <<coreVars, memory, cases, stored, snapPage, nextId, settled>>

\* _ingest_orphan_breaches: cursor and cutoff are compared before the poll, and
\* a failed poll ends the fallback for this cycle.
PollBreaches(ok) ==
    /\ cycle = "snapshots" /\ snapCursor >= snapPage
    /\ Answers(ok)
    /\ ok /\ breachCursor < cutoff => ~PageUnreadable
    /\ breachPage' = IF ok /\ breachCursor < cutoff THEN cutoff ELSE 0
    /\ cycle' = "breaches"
    /\ UNCHANGED <<coreVars, memory, cases, stored, snapPage, nextId, settled>>

\* The poll found breaches and the page cannot be read: the exception leaves
\* process_cycle, and the runner neither drives nor saves in this cycle.
FallbackRaises ==
    /\ cycle = "snapshots" /\ snapCursor >= snapPage
    /\ breachCursor < cutoff /\ PageUnreadable
    /\ breachPage' = 0 /\ cycle' = "idle"
    /\ UNCHANGED <<coreVars, memory, cases, stored, snapPage, nextId, faults, settled>>

\* Mutant: only the page is searched, not the incidents.
MutIngestBreach(caseOk) ==
    /\ cycle = "breaches" /\ breachCursor < breachPage
    /\ LET b == breachCursor + 1
           known == b \in BreachIdsWithSnapshots IN
       /\ breachCursor' = b
       /\ \/ ~known /\ b \notin broken /\ Open({Breach(b)}, TRUE, caseOk)
          \/ (known \/ b \in broken) /\ Skip
    /\ UNCHANGED <<coreVars, snapCursor, stored, cycle, snapPage, breachPage, settled>>

\* One turn of the fallback's loop; opening a broken breach raises and is logged.
IngestBreach(caseOk) ==
    /\ cycle = "breaches" /\ breachCursor < breachPage
    /\ LET b == breachCursor + 1
           known == \/ Breach(b) \in TriggeredFrom(incidents)
                    \/ b \in BreachIdsWithSnapshots IN
       /\ breachCursor' = b
       /\ \/ ~known /\ b \notin broken /\ Open({Breach(b)}, TRUE, caseOk)
          \/ (known \/ b \in broken) /\ Skip
    /\ UNCHANGED <<coreVars, snapCursor, stored, cycle, snapPage, breachPage, settled>>

OpenIds == {i \in DOMAIN incidents : incidents[i].state = "open"}

\* _drive_active_incidents: every incident that is neither terminal nor waiting
\* for approval runs through the coordinator, which leaves it in one of these.
Drive ==
    /\ cycle = "breaches" /\ breachCursor >= breachPage
    /\ \E left \in [OpenIds -> {"awaiting", "terminal"}] :
           /\ incidents' = [i \in DOMAIN incidents |->
                               IF i \in OpenIds
                               THEN [incidents[i] EXCEPT !.state = left[i]]
                               ELSE incidents[i]]
           /\ settled' = settled \union
                  UNION {incidents[i].triggers : i \in {j \in OpenIds : left[j] = "terminal"}}
    /\ cycle' = "driven"
    /\ UNCHANGED <<coreVars, snapCursor, breachCursor, cases, stored, snapPage,
                   breachPage, nextId, faults>>

\* Mutant: an incident that waits for approval ages like a closed one.
MutAged == {i \in DOMAIN incidents : incidents[i].state # "open"}

\* _is_terminal_and_aged: incidents that may be past their retention, which may be 0,
\* so a terminal incident may be dropped before it was ever stored.
Aged == {i \in DOMAIN incidents : incidents[i].state = "terminal"}

\* get_state leaves out what is aged; the runner then sends the state to core and
\* does not look at the answer.
Persist(ok) ==
    /\ cycle = "driven"
    /\ Answers(ok)
    /\ \E pruned \in SUBSET Aged :
           stored' = IF ok
                     THEN [snapCursor |-> snapCursor, breachCursor |-> breachCursor,
                           incidents |-> [i \in DOMAIN incidents \ pruned |-> incidents[i]]]
                     ELSE stored
    /\ cycle' = "idle"
    /\ UNCHANGED <<coreVars, memory, cases, snapPage, breachPage, nextId, settled>>

Crash ==
    /\ cycle # "down" /\ faults < MaxFaults
    /\ faults' = faults + 1
    /\ cycle' = "down"
    /\ UNCHANGED <<coreVars, memory, cases, stored, snapPage, breachPage, nextId, settled>>

\* restore_state; when core does not answer the runner passes None and the
\* module starts with no cursors and no incidents.
Restart(ok) ==
    /\ cycle = "down"
    /\ Answers(ok)
    /\ LET state == IF ok THEN stored ELSE NoState IN
       /\ snapCursor' = state.snapCursor
       /\ breachCursor' = state.breachCursor
       /\ incidents' = state.incidents
    /\ cycle' = "idle"
    /\ UNCHANGED <<coreVars, cases, stored, snapPage, breachPage, nextId, settled>>

IngestStep ==
    \E ok \in BOOLEAN : PollSnapshots(ok) \/ IngestSnapshot(ok) \/ PollBreaches(ok)
                        \/ IngestBreach(ok) \/ Persist(ok) \/ Restart(ok)

IngestNext ==
    \/ PublishBreach \/ PublishSnapshot \/ TimePasses
    \/ IngestStep \/ FallbackRaises \/ Drive \/ Crash

\* Time passes and the runner calls the next cycle; the producers and the faults
\* owe nothing.
IngestFairness == WF_ingestVars(TimePasses) /\ WF_ingestVars(IngestStep \/ FallbackRaises \/ Drive)

IngestSpec == IngestInit /\ [][IngestNext]_ingestVars /\ IngestFairness

-----------------------------------------------------------------------------
(* Properties. *)

\* No incident can be built from the breach, or from a snapshot that stands for it.
Unopenable(b) ==
    b \in broken \/ \E s \in DOMAIN snapshots : /\ b \in snapshots[s].parents
                                                 /\ snapshots[s].data # "fine"

\* Triggers of the incidents that core has, or that were driven to their end.
Accounted == settled \union TriggeredFrom(stored.incidents)

\* A trigger is lost only with a record that cannot be opened: whatever the stored
\* cursors have passed belongs to an incident stored with them, or to one that the
\* pipeline brought to its end (which the retention may then have dropped).
CursorCovered ==
    /\ \A s \in 1..stored.snapCursor :
           Snapshot(s) \in Accounted \/ snapshots[s].data # "fine"
    /\ \A b \in 1..stored.breachCursor : Breach(b) \in Accounted \/ Unopenable(b)

Sources(i) == {t \in incidents[i].triggers : t[1] = "snapshot"}

\* Two incidents never hold the same snapshot, and of two that share a breach the
\* later one was opened for a snapshot: the fallback never opens a breach that an
\* incident already holds, whatever crashes and failed polls came before.
FallbackYields ==
    \A i, j \in DOMAIN incidents :
        (i < j /\ incidents[i].triggers \intersect incidents[j].triggers # {})
            => Sources(i) \intersect Sources(j) = {} /\ Sources(j) # {}

\* respond/worker.py:442: "A trigger we've already opened an incident for must
\* not produce another incident."
TriggerOpensOnce ==
    \A i, j \in DOMAIN incidents :
        incidents[i].triggers \intersect incidents[j].triggers # {} => i = j

\* Every breach measure publishes ends in an incident, whether correlate ever
\* publishes a snapshot of it or not; a snapshot that cannot be read stops the
\* fallback for as long as it is in the page.
EveryBreachOpens ==
    \A b \in 1..MaxBreaches :
        breachCount >= b ~> \/ Breach(b) \in Accounted
                            \/ Unopenable(b)
                            \/ \E s \in DOMAIN snapshots : snapshots[s].data = "unreadable"
                            \/ nextId > MaxIncidents
=============================================================================
