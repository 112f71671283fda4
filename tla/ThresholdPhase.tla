---------------------------- MODULE ThresholdPhase ----------------------------
(***************************************************************************)
(* The judgment-threshold phase of a measure cycle (measure/thresholds/    *)
(* phase.py, run by measure/worker.py): the re-keying of sibling entries,  *)
(* concurrent evaluation under a time budget, and what of it reaches       *)
(* governance.                                                             *)
(*                                                                         *)
(* One service and the entries that share a threshold_key, told apart by   *)
(* their bound alone; entries with different keys do not meet.  An entry   *)
(* is its bound, a number that is also its bounds_digest; its key is Bare  *)
(* while it has no sibling and its digest when it has.  When a disarmed    *)
(* entry re-arms is the subject of Hysteresis; here any within evaluation  *)
(* may do it.                                                              *)
(***************************************************************************)
EXTENDS Naturals, Sequences, FiniteSets, SequencesExt

CONSTANTS
    Bounds,          \* the bound values that entries may declare
    EvalConcurrency,
    MaxEdits,        \* bound on edits of the manifest
    MaxUnreadable    \* bound on cycles that could not parse every entry

ASSUME ThresholdAssumption ==
    /\ Bounds \subseteq Nat \ {0} /\ IsFiniteSet(Bounds)
    /\ EvalConcurrency \in Nat \ {0} /\ {MaxEdits, MaxUnreadable} \subseteq Nat

VARIABLES
    declared,        \* the entries of the manifest
    entries,         \* those of them that this cycle could parse
    keyState,        \* _threshold_state: key -> [armed, digest]
    rotation,        \* _threshold_rotation, modulo RotationCycle
    phase,           \* "idle", "running" or "governing"
    queue,           \* entry of this run not started yet -> its place in the run's order
    inflight,        \* entry -> "sampling" or "sending"
    accepted,        \* breaches_out: keys whose verdict core accepted
    governedKeys,    \* _threshold_governed
    told,            \* history: entries core holds a verdict for that are still open, unless lossy
    lossy,           \* history: some run was cut off or some answer got lost
    edits, unreadable

run == <<queue, inflight>>
history == <<told, lossy>>
bounds == <<edits, unreadable>>
thresholdVars == <<declared, entries, keyState, rotation, phase, run, accepted, governedKeys,
                   history, bounds>>

Bare == 0
Key(b, es) == IF es = {b} THEN Bare ELSE b
Keyed(es) == {Key(b, es) : b \in es}

\* The counter is only read modulo the number of entries.
RotationCycle == FoldSeq(LAMBDA n, m : n * m, 1, [n \in 1..Cardinality(Bounds) |-> n])

ThresholdTypeOK ==
    /\ entries \subseteq declared
    /\ DOMAIN keyState \subseteq Bounds \union {Bare}
    /\ \A k \in DOMAIN keyState : keyState[k].digest \in Bounds /\ keyState[k].armed \in BOOLEAN
    /\ Cardinality(DOMAIN inflight) <= EvalConcurrency
    /\ (DOMAIN inflight) \intersect (DOMAIN queue) = {}
    /\ accepted \subseteq Keyed(entries)

ThresholdInit ==
    /\ declared \in SUBSET Bounds
    /\ entries = {} /\ keyState = << >> /\ rotation = 0 /\ phase = "idle"
    /\ queue = << >> /\ inflight = << >>
    /\ accepted = {} /\ governedKeys = {} /\ told = {} /\ lossy = FALSE
    /\ edits = 0 /\ unreadable = 0

-----------------------------------------------------------------------------
(* _migrate *)

\* Every live key with state takes the digest of its entry.
Refreshed(st, es) ==
    [k \in DOMAIN st |->
        IF \E b \in es : Key(b, es) = k
        THEN [st[k] EXCEPT !.digest = CHOOSE b \in es : Key(b, es) = k] ELSE st[k]]

\* No state is carried.
MutPairs(st, es) == {}

\* Which old key goes to which entry without state: by digest where one old key
\* has it, then the last of each if one of each is left.
Pairs(st, es) ==
    LET olds == DOMAIN st \ Keyed(es)
        news == {b \in es : Key(b, es) \notin DOMAIN st}
        same == {p \in olds \X news :
                    {k \in olds : st[k].digest = p[2]} = {p[1]}}
        restOld == olds \ {p[1] : p \in same}
        restNew == news \ {p[2] : p \in same}
    IN  same \union IF Cardinality(restOld) = 1 /\ Cardinality(restNew) = 1
                    THEN restOld \X restNew ELSE {}

Moved(pairs, k, es) ==
    IF \E p \in pairs : p[1] = k
    THEN LET p == CHOOSE q \in pairs : q[1] = k IN Key(p[2], es)
    ELSE k

Migrated(st, es) ==
    LET fresh == Refreshed(st, es)
        pairs == Pairs(fresh, es)
        target(k) == Moved(pairs, k, es)
    IN  [n \in {target(k) : k \in DOMAIN st} |->
            LET k == CHOOSE o \in DOMAIN st : target(o) = n IN
            IF \E p \in pairs : p[1] = k
            THEN [fresh[k] EXCEPT !.digest = CHOOSE b \in es : Key(b, es) = n]
            ELSE fresh[k]]

\* _retire: nothing is removed against a manifest that did not parse whole.
Retired(st, es, all) ==
    [k \in {o \in DOMAIN st : all => o \in Keyed(es)} |-> st[k]]

-----------------------------------------------------------------------------

\* Somebody edits the manifest; a cycle reads it once, when it starts.
Edit ==
    /\ phase = "idle" /\ edits < MaxEdits
    /\ edits' = edits + 1
    /\ declared' \in SUBSET Bounds \ {declared}
    /\ UNCHANGED <<entries, keyState, rotation, phase, run, accepted, governedKeys, history, unreadable>>

\* What core serves: all entries, or those that parse.
Serve(es) ==
    /\ es \subseteq declared
    /\ es # declared => unreadable < MaxUnreadable
    /\ unreadable' = IF es = declared THEN unreadable ELSE unreadable + 1
    /\ entries' = es
    /\ told' = IF es = declared THEN told \intersect es ELSE told
    /\ LET pairs == Pairs(Refreshed(keyState, es), es) IN
       governedKeys' = {Moved(pairs, k, es) : k \in governedKeys}

Position(b, es) == Cardinality({c \in es : c < b})

\* Every run starts with the same entry.
MutRotated(es) == [b \in es |-> Position(b, es)]

\* The order in which a run starts its evaluations: from entry rotation % n on to the
\* last, then from the first.
Rotated(es) ==
    LET n == Cardinality(es)
    IN  [b \in es |-> (Position(b, es) + n - (rotation % n)) % n]

\* The first steps of run_threshold_phase, with _rename_threshold_governance,
\* which nothing can tell apart from them.
StartRun ==
    /\ phase = "idle"
    /\ \E es \in SUBSET declared :
           /\ Serve(es)
           /\ keyState' = Migrated(keyState, es)
           /\ queue' = Rotated(es)
    /\ rotation' = (rotation + 1) % RotationCycle
    /\ phase' = "running" /\ accepted' = {}
    /\ UNCHANGED <<declared, inflight, lossy, edits>>

\* A cycle between two runs: retire_thresholds.
RetireThresholds ==
    /\ phase = "idle"
    /\ \E es \in SUBSET declared :
           /\ Serve(es)
           /\ keyState' = Retired(Migrated(keyState, es), es, es = declared)
    /\ phase' = "governing" /\ accepted' = {}
    /\ UNCHANGED <<declared, rotation, run, lossy, edits>>

\* The semaphore lets the next entry in.
StartEvaluation ==
    /\ phase = "running"
    /\ Cardinality(DOMAIN inflight) < EvalConcurrency
    /\ \E b \in DOMAIN queue :
           /\ \A c \in DOMAIN queue : queue[b] <= queue[c]
           /\ inflight' = [c \in DOMAIN inflight \union {b} |->
                              IF c = b THEN "sampling" ELSE inflight[c]]
           /\ queue' = [c \in DOMAIN queue \ {b} |-> queue[c]]
    /\ UNCHANGED <<declared, entries, keyState, rotation, phase, accepted, governedKeys, history,
                   bounds>>

Done(b) == inflight' = [c \in DOMAIN inflight \ {b} |-> inflight[c]]

Stored(b, armed) ==
    [k \in DOMAIN keyState \union {Key(b, entries)} |->
        IF k = Key(b, entries) THEN [armed |-> armed, digest |-> b] ELSE keyState[k]]

Armed(b) == Key(b, entries) \in DOMAIN keyState => keyState[Key(b, entries)].armed

\* _evaluate up to its verdict: the sample raises, shows no breach that fires,
\* or shows one that does.
Sampled(b) ==
    /\ phase = "running" /\ b \in DOMAIN inflight /\ inflight[b] = "sampling"
    /\ \/ Done(b) /\ UNCHANGED <<keyState, told>>
       \/ \E armed \in BOOLEAN :
              /\ Armed(b) => armed
              /\ Done(b)
              /\ keyState' = Stored(b, armed)
              /\ told' = IF armed THEN told \ {b} ELSE told
       \/ /\ Armed(b)
          /\ inflight' = [inflight EXCEPT ![b] = "sending"]
          /\ UNCHANGED <<keyState, told>>
    /\ UNCHANGED <<declared, entries, rotation, phase, queue, accepted, governedKeys, lossy,
                   bounds>>

\* submit_verdict returns: accepted; refused; or stored without the answer
\* reaching the phase.
SubmitReturns(b, answer) ==
    /\ phase = "running" /\ b \in DOMAIN inflight /\ inflight[b] = "sending"
    /\ Done(b)
    /\ lossy' = (lossy \/ answer = "lost")
    /\ told' = IF lossy' THEN {} ELSE IF answer = "ok" THEN told \union {b} ELSE told
    /\ keyState' = IF answer = "ok" THEN Stored(b, FALSE) ELSE keyState
    /\ accepted' = IF answer = "ok" THEN accepted \union {Key(b, entries)} ELSE accepted
    /\ UNCHANGED <<declared, entries, rotation, phase, queue, governedKeys, bounds>>

Finish ==
    /\ phase = "running" /\ queue = << >> /\ inflight = << >>
    /\ keyState' = Retired(keyState, entries, entries = declared)
    /\ phase' = "governing"
    /\ UNCHANGED <<declared, entries, rotation, run, accepted, governedKeys, history, bounds>>

\* A run that is cut off returns no breaches.
MutPhaseTimeout ==
    /\ phase = "running"
    /\ lossy' = TRUE /\ told' = {}
    /\ inflight' = << >> /\ queue' = << >> /\ accepted' = {}
    /\ phase' = "governing"
    /\ UNCHANGED <<declared, entries, keyState, rotation, governedKeys, bounds>>

\* asyncio.wait_for cancels the run, in the query of the retention before the first
\* evaluation too: those in flight end where they wait, a verdict on its way may or
\* may not have been stored, nothing is retired.
PhaseTimeout ==
    /\ phase = "running"
    /\ lossy' = TRUE /\ told' = {}
    /\ inflight' = << >> /\ queue' = << >>
    /\ phase' = "governing"
    /\ UNCHANGED <<declared, entries, keyState, rotation, accepted, governedKeys, bounds>>

\* _inject_threshold_breaches, with threshold_autonomy on, and
\* _release_threshold_governance.
GovernThresholds ==
    /\ phase = "governing"
    /\ governedKeys' = {k \in governedKeys \union accepted :
                           k \in DOMAIN keyState /\ ~keyState[k].armed}
    /\ phase' = "idle" /\ accepted' = {} /\ entries' = {}
    /\ UNCHANGED <<declared, keyState, rotation, run, history, bounds>>

PhaseStep ==
    \/ StartRun \/ StartEvaluation \/ Finish \/ PhaseTimeout \/ GovernThresholds
    \/ \E b \in Bounds :
           \/ Sampled(b)
           \/ \E answer \in {"ok", "refused", "lost"} : SubmitReturns(b, answer)

ThresholdNext == Edit \/ RetireThresholds \/ PhaseStep

\* The cycles go on, and among them those on which a run is due.
ThresholdFairness ==
    /\ WF_thresholdVars(PhaseStep)
    /\ SF_thresholdVars(StartRun)

ThresholdSpec == ThresholdInit /\ [][ThresholdNext]_thresholdVars /\ ThresholdFairness

-----------------------------------------------------------------------------
(* Properties. *)

\* Between cycles governance counts exactly the disarmed entries: a breach core
\* accepted just before the time budget ran out is counted, a re-keyed breach
\* stays counted under its new key, a retired or recovered one does not.
GovernedAreOpen ==
    phase = "idle" =>
        governedKeys = {k \in DOMAIN keyState : ~keyState[k].armed}

\* While a breach is open and its entry stays declared, core is told once, over
\* added, edited and removed siblings: a second verdict needs an answer that did
\* not arrive, as long as every manifest parses and every run ends.
OneVerdictPerBreach ==
    unreadable > 0 \/ \A b \in DOMAIN inflight : inflight[b] = "sending" => b \notin told

\* measure/thresholds/phase.py:122, "An open breach must not retire and re-raise
\* because a response was briefly malformed or old": the same where manifests do
\* not parse.
BriefMalformedKeepsBreach ==
    \A b \in DOMAIN inflight : inflight[b] = "sending" => b \notin told

\* The run waits for Prometheus's retention before it starts any evaluation, and is
\* cut off there.
CutBeforeFirst == entries # {} /\ DOMAIN queue = entries /\ PhaseTimeout

\* Once the manifest is left alone every entry is evaluated again and again, even
\* if every run is cut off after its first evaluation; only runs whose whole budget
\* goes, again and again, to the query of the retention reach nothing.
EveryEntryReached ==
    \/ []<><<CutBeforeFirst>>_thresholdVars
    \/ \A b \in Bounds : []<>(b \in DOMAIN inflight \/ b \notin declared)
=============================================================================
