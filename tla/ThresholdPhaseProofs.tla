------------------------- MODULE ThresholdPhaseProofs -------------------------
(***************************************************************************)
(* Theorems about ThresholdPhase for every set of bounds, every            *)
(* concurrency and any number of edits and unreadable manifests, and at    *)
(* the end about the workers together, as MCWorkers composes them.         *)
(***************************************************************************)
EXTENDS MCWorkers, SafeActionsProofs, WorkersProofs, FiniteSetTheorems, TLAPS

-----------------------------------------------------------------------------
(* The inductive invariant. *)

Disarmed(st) == {k \in DOMAIN st : ~st[k].armed}
Kept(st) == \A k \in DOMAIN st : "armed" \in DOMAIN st[k]

\* While a cycle is under way every open breach is governed already, or core has
\* accepted it and the phase has noted so.
GovernInv ==
    /\ Kept(keyState)
    /\ Disarmed(keyState) \subseteq governedKeys \union accepted
    /\ phase = "idle" => governedKeys = Disarmed(keyState) /\ accepted = {}

-----------------------------------------------------------------------------

\* Entries that get a new digest stay armed or disarmed.
LEMMA DigestOnly ==
    ASSUME NEW e, "armed" \in DOMAIN e, NEW d
    PROVE  /\ "armed" \in DOMAIN [e EXCEPT !.digest = d]
           /\ [e EXCEPT !.digest = d].armed = e.armed
  OBVIOUS

LEMMA RefreshKeeps ==
    ASSUME NEW st, NEW es, Kept(st)
    PROVE  /\ DOMAIN Refreshed(st, es) = DOMAIN st
           /\ Kept(Refreshed(st, es))
           /\ \A k \in DOMAIN st : Refreshed(st, es)[k].armed = st[k].armed
<1>1. DOMAIN Refreshed(st, es) = DOMAIN st
  BY DEF Refreshed
<1>2. ASSUME NEW k \in DOMAIN st
      PROVE  /\ "armed" \in DOMAIN Refreshed(st, es)[k]
             /\ Refreshed(st, es)[k].armed = st[k].armed
  <2>1. \/ Refreshed(st, es)[k] = [st[k] EXCEPT !.digest = CHOOSE b \in es : Key(b, es) = k]
        \/ Refreshed(st, es)[k] = st[k]
    BY DEF Refreshed
  <2>2. "armed" \in DOMAIN st[k]
    BY DEF Kept
  <2> QED
    BY <2>1, <2>2, DigestOnly
<1> QED
  BY <1>1, <1>2 DEF Kept

\* A state under its new key comes from the old key that was moved there.
LEMMA MigrationKeeps ==
    ASSUME NEW st, NEW es, Kept(st)
    PROVE  /\ Kept(Migrated(st, es))
           /\ \A n \in DOMAIN Migrated(st, es) : \E k \in DOMAIN st :
                  /\ n = Moved(Pairs(Refreshed(st, es), es), k, es)
                  /\ Migrated(st, es)[n].armed = st[k].armed
<1> DEFINE fresh == Refreshed(st, es)
           pairs == Pairs(fresh, es)
           target(k) == Moved(pairs, k, es)
           source(n) == CHOOSE o \in DOMAIN st : target(o) = n
           entry(n) == IF \E p \in pairs : p[1] = source(n)
                       THEN [fresh[source(n)] EXCEPT
                                 !.digest = CHOOSE b \in es : Key(b, es) = n]
                       ELSE fresh[source(n)]
<1>1. Migrated(st, es) = [n \in {target(k) : k \in DOMAIN st} |-> entry(n)]
  BY DEF Migrated
<1>2. ASSUME NEW n \in DOMAIN Migrated(st, es)
      PROVE  /\ "armed" \in DOMAIN Migrated(st, es)[n]
             /\ \E k \in DOMAIN st :
                    n = target(k) /\ Migrated(st, es)[n].armed = st[k].armed
  <2> HIDE DEF pairs, fresh
  <2>1. \E o \in DOMAIN st : target(o) = n
    BY <1>1
  <2>2. source(n) \in DOMAIN st /\ target(source(n)) = n
    BY <2>1
  <2>3. "armed" \in DOMAIN fresh[source(n)] /\ fresh[source(n)].armed = st[source(n)].armed
    BY <2>2, RefreshKeeps DEF fresh, Kept
  <2>4. Migrated(st, es)[n] = entry(n)
    BY <1>1
  <2>5. "armed" \in DOMAIN entry(n) /\ entry(n).armed = fresh[source(n)].armed
    <3> HIDE DEF source
    <3> QED
      BY <2>3, DigestOnly
  <2> QED
    BY <2>2, <2>3, <2>4, <2>5
<1> QED
  BY <1>2 DEF Kept

\* A cycle that migrates the states moves the governed keys along.
LEMMA MigrationGoverned ==
    ASSUME GovernInv, phase = "idle", NEW es, Serve(es)
    PROVE  Kept(Migrated(keyState, es)) /\ Disarmed(Migrated(keyState, es)) \subseteq governedKeys'
<1>1. Kept(keyState) /\ governedKeys = Disarmed(keyState)
  BY DEF GovernInv
<1>2. governedKeys' = {Moved(Pairs(Refreshed(keyState, es), es), k, es) : k \in governedKeys}
  BY DEF Serve
<1>3. ASSUME NEW n \in Disarmed(Migrated(keyState, es)) PROVE n \in governedKeys'
  <2>1. PICK k \in DOMAIN keyState :
            /\ n = Moved(Pairs(Refreshed(keyState, es), es), k, es)
            /\ Migrated(keyState, es)[n].armed = keyState[k].armed
    BY <1>1, MigrationKeeps DEF Disarmed
  <2>2. k \in governedKeys
    BY <1>1, <2>1 DEF Disarmed
  <2> QED
    BY <1>2, <2>1, <2>2
<1> QED
  BY <1>1, <1>3, MigrationKeeps

LEMMA RetirementKeeps ==
    ASSUME NEW st, NEW es, NEW all, Kept(st)
    PROVE  Kept(Retired(st, es, all)) /\ Disarmed(Retired(st, es, all)) \subseteq Disarmed(st)
  BY DEF Retired, Kept, Disarmed

\* What is stored for an entry disarms no other.
LEMMA StoredKeeps ==
    ASSUME Kept(keyState), NEW b, NEW armed \in BOOLEAN
    PROVE  /\ Kept(Stored(b, armed))
           /\ Disarmed(Stored(b, armed)) \subseteq Disarmed(keyState) \union {Key(b, entries)}
           /\ armed => Key(b, entries) \notin Disarmed(Stored(b, armed))
  BY DEF Stored, Kept, Disarmed

LEMMA GovernStep == GovernInv /\ [ThresholdNext]_thresholdVars => GovernInv'
<1> SUFFICES ASSUME GovernInv, [ThresholdNext]_thresholdVars PROVE GovernInv'
  OBVIOUS
<1>1. CASE UNCHANGED <<keyState, accepted, governedKeys, phase>>
  BY <1>1 DEF GovernInv
<1>2. CASE Edit \/ StartEvaluation \/ UNCHANGED thresholdVars
  BY <1>1, <1>2 DEF Edit, StartEvaluation, thresholdVars
<1>3. CASE StartRun
  <2>1. PICK es \in SUBSET declared : Serve(es) /\ keyState' = Migrated(keyState, es)
    BY <1>3 DEF StartRun
  <2>2. phase = "idle" /\ phase' = "running" /\ accepted' = {}
    BY <1>3 DEF StartRun
  <2> QED
    BY <2>1, <2>2, MigrationGoverned DEF GovernInv
<1>4. CASE RetireThresholds
  <2>1. PICK es \in SUBSET declared :
            Serve(es) /\ keyState' = Retired(Migrated(keyState, es), es, es = declared)
    BY <1>4 DEF RetireThresholds
  <2>2. phase = "idle" /\ phase' = "governing" /\ accepted' = {}
    BY <1>4 DEF RetireThresholds
  <2>3. Kept(Migrated(keyState, es)) /\ Disarmed(Migrated(keyState, es)) \subseteq governedKeys'
    BY <2>1, <2>2, MigrationGoverned
  <2>4. Kept(keyState') /\ Disarmed(keyState') \subseteq Disarmed(Migrated(keyState, es))
    BY <2>1, <2>3, RetirementKeeps
  <2> QED
    BY <2>2, <2>3, <2>4 DEF GovernInv
<1>5. ASSUME NEW b \in Bounds, Sampled(b) PROVE GovernInv'
  <2>1. UNCHANGED <<accepted, governedKeys, phase>> /\ phase = "running"
    BY <1>5 DEF Sampled
  <2>2. CASE UNCHANGED keyState
    BY <1>1, <2>1, <2>2
  <2>3. ASSUME NEW armed \in BOOLEAN, Armed(b) => armed, keyState' = Stored(b, armed)
        PROVE  GovernInv'
    <3>1. Kept(keyState') /\ Disarmed(keyState') \subseteq Disarmed(keyState)
      BY <2>3, StoredKeeps DEF GovernInv, Armed, Disarmed
    <3> QED
      BY <2>1, <3>1 DEF GovernInv
  <2> QED
    BY <1>5, <2>2, <2>3 DEF Sampled
<1>6. ASSUME NEW b \in Bounds, NEW answer \in {"ok", "refused", "lost"}, SubmitReturns(b, answer)
      PROVE  GovernInv'
  <2>1. UNCHANGED <<governedKeys, phase>> /\ phase = "running"
    BY <1>6 DEF SubmitReturns
  <2>2. CASE answer = "ok"
    <3>1. keyState' = Stored(b, FALSE) /\ accepted' = accepted \union {Key(b, entries)}
      BY <1>6, <2>2 DEF SubmitReturns
    <3> QED
      BY <2>1, <3>1, StoredKeeps DEF GovernInv
  <2>3. CASE answer # "ok"
    BY <1>1, <1>6, <2>1, <2>3 DEF SubmitReturns
  <2> QED
    BY <2>2, <2>3
<1>7. CASE Finish
  BY <1>7, RetirementKeeps DEF Finish, GovernInv
<1>8. CASE PhaseTimeout
  BY <1>8 DEF PhaseTimeout, GovernInv
<1>9. CASE GovernThresholds
  <2>1. /\ governedKeys' = {k \in governedKeys \union accepted :
                               k \in DOMAIN keyState /\ ~keyState[k].armed}
        /\ keyState' = keyState /\ accepted' = {}
    BY <1>9 DEF GovernThresholds
  <2>2. governedKeys' = Disarmed(keyState)
    BY <2>1 DEF GovernInv, Disarmed
  <2> QED
    BY <2>1, <2>2 DEF GovernInv
<1> QED
  BY <1>2, <1>3, <1>4, <1>5, <1>6, <1>7, <1>8, <1>9 DEF ThresholdNext, PhaseStep

-----------------------------------------------------------------------------

\* Whatever siblings come and go, whichever runs are cut off and whichever
\* answers get lost, between cycles governance counts exactly the open breaches.
THEOREM OpenAreGoverned == ThresholdSpec => []GovernedAreOpen
<1>1. ThresholdInit => GovernInv
  BY DEF ThresholdInit, GovernInv, Kept, Disarmed
<1>2. GovernInv => GovernedAreOpen
  BY DEF GovernInv, GovernedAreOpen, Disarmed
<1> QED
  BY <1>1, <1>2, GovernStep, PTL DEF ThresholdSpec

-----------------------------------------------------------------------------
(* Type correctness. *)

Entry == [armed : BOOLEAN, digest : Bounds]
States(st) ==
    DOMAIN st \subseteq Bounds \union {Bare} /\ \A k \in DOMAIN st : st[k] \in Entry

\* Evaluations are of entries of the run, and none is under way between runs.
PhaseTypes ==
    /\ declared \subseteq Bounds /\ entries \subseteq declared
    /\ States(keyState) /\ accepted \subseteq Keyed(entries)
    /\ IsFiniteSet(DOMAIN inflight) /\ Cardinality(DOMAIN inflight) <= EvalConcurrency
    /\ (DOMAIN inflight) \intersect (DOMAIN queue) = {}
    /\ DOMAIN queue \subseteq entries /\ DOMAIN inflight \subseteq entries
    /\ phase # "running" => DOMAIN queue = {} /\ DOMAIN inflight = {}
    /\ phase = "idle" => entries = {} /\ accepted = {}

\* Two entries of a service never share a key.
LEMMA KeyInjective ==
    ASSUME NEW es, NEW b \in es, NEW c \in es, Key(b, es) = Key(c, es)
    PROVE  b = c
  BY DEF Key

LEMMA KeyType ==
    ASSUME NEW es \in SUBSET Bounds, NEW b \in Bounds
    PROVE  Key(b, es) \in Bounds \union {Bare}
  BY DEF Key

\* The digest that a live key takes is its entry.
LEMMA KeyChoice ==
    ASSUME NEW es, NEW b \in es
    PROVE  (CHOOSE c \in es : Key(c, es) = Key(b, es)) = b
<1>1. (CHOOSE c \in es : Key(c, es) = Key(b, es)) \in es
  OBVIOUS
<1>2. Key(CHOOSE c \in es : Key(c, es) = Key(b, es), es) = Key(b, es)
  OBVIOUS
<1> QED
  BY <1>1, <1>2, KeyInjective

\* Who is paired: an old key without an entry with an entry without a state.
LEMMA PairsAre ==
    ASSUME NEW st, NEW es, NEW p \in Pairs(st, es)
    PROVE  /\ p = <<p[1], p[2]>>
           /\ p[1] \in DOMAIN st \ Keyed(es)
           /\ p[2] \in es /\ Key(p[2], es) \notin DOMAIN st
<1> DEFINE olds == DOMAIN st \ Keyed(es)
           news == {b \in es : Key(b, es) \notin DOMAIN st}
           same == {q \in olds \X news : {k \in olds : st[k].digest = q[2]} = {q[1]}}
           restOld == olds \ {q[1] : q \in same}
           restNew == news \ {q[2] : q \in same}
<1>1. p \in same \/ p \in restOld \X restNew
  BY DEF Pairs
<1>2. restOld \subseteq olds /\ restNew \subseteq news
  OBVIOUS
<1> HIDE DEF restOld, restNew
<1>3. p \in olds \X news
  BY <1>1, <1>2
<1> QED
  BY <1>3

\* An entry takes over a state whose key it gets, or keeps the one it has.
LEMMA MovedTo ==
    ASSUME NEW st, NEW es, NEW k
    PROVE  \/ Moved(Pairs(st, es), k, es) = k /\ \A p \in Pairs(st, es) : p[1] # k
           \/ \E p \in Pairs(st, es) : p[1] = k /\ Moved(Pairs(st, es), k, es) = Key(p[2], es)
<1>1. CASE \E p \in Pairs(st, es) : p[1] = k
  <2> DEFINE q == CHOOSE p \in Pairs(st, es) : p[1] = k
  <2>1. q \in Pairs(st, es) /\ q[1] = k
    BY <1>1
  <2>2. Moved(Pairs(st, es), k, es) = Key(q[2], es)
    BY <1>1 DEF Moved
  <2> QED
    BY <2>1, <2>2
<1>2. CASE ~\E p \in Pairs(st, es) : p[1] = k
  BY <1>2 DEF Moved
<1> QED
  BY <1>1, <1>2

LEMMA RefreshTypes ==
    ASSUME NEW es \in SUBSET Bounds, NEW st, States(st)
    PROVE  /\ States(Refreshed(st, es)) /\ DOMAIN Refreshed(st, es) = DOMAIN st
           /\ \A b \in es : Key(b, es) \in DOMAIN st
                  => Refreshed(st, es)[Key(b, es)].digest = b
           /\ \A k \in DOMAIN st : k \notin Keyed(es) => Refreshed(st, es)[k] = st[k]
<1>1. DOMAIN Refreshed(st, es) = DOMAIN st
  BY DEF Refreshed
<1>2. ASSUME NEW b \in es, Key(b, es) \in DOMAIN st
      PROVE  Refreshed(st, es)[Key(b, es)] \in Entry
             /\ Refreshed(st, es)[Key(b, es)].digest = b
  <2>1. PICK k : k = Key(b, es)
    OBVIOUS
  <2>2. Refreshed(st, es)[k] = [st[k] EXCEPT !.digest = CHOOSE c \in es : Key(c, es) = k]
    BY <1>2, <2>1 DEF Refreshed
  <2>3. (CHOOSE c \in es : Key(c, es) = k) = b
    BY <2>1, KeyChoice
  <2>4. Refreshed(st, es)[k] = [st[k] EXCEPT !.digest = b]
    BY <2>2, <2>3
  <2>5. st[k] \in Entry
    BY <1>2, <2>1 DEF States
  <2> QED
    BY <2>1, <2>4, <2>5 DEF Entry
<1>3. \A k \in DOMAIN st : k \notin Keyed(es) => Refreshed(st, es)[k] = st[k]
  BY DEF Refreshed, Keyed
<1>4. \A k \in DOMAIN st : Refreshed(st, es)[k] \in Entry
  BY <1>2, <1>3 DEF Keyed, States
<1> QED
  BY <1>1, <1>2, <1>3, <1>4 DEF States

\* A migrated state has the type of a state, and every live key the digest of its entry.
LEMMA MigrationTypes ==
    ASSUME NEW es \in SUBSET Bounds, NEW st, States(st)
    PROVE  /\ States(Migrated(st, es))
           /\ \A b \in es : Key(b, es) \in DOMAIN Migrated(st, es)
                  => Migrated(st, es)[Key(b, es)].digest = b
<1> DEFINE fresh == Refreshed(st, es)
           pairs == Pairs(fresh, es)
           target(k) == Moved(pairs, k, es)
           source(n) == CHOOSE o \in DOMAIN st : target(o) = n
           entry(n) == IF \E p \in pairs : p[1] = source(n)
                       THEN [fresh[source(n)] EXCEPT
                                 !.digest = CHOOSE b \in es : Key(b, es) = n]
                       ELSE fresh[source(n)]
<1>1. Migrated(st, es) = [n \in {target(k) : k \in DOMAIN st} |-> entry(n)]
  BY DEF Migrated
<1>2. States(fresh) /\ DOMAIN fresh = DOMAIN st
      /\ \A b \in es : Key(b, es) \in DOMAIN st => fresh[Key(b, es)].digest = b
  BY RefreshTypes
<1>3. \A k : \/ target(k) = k /\ \A p \in pairs : p[1] # k
             \/ \E p \in pairs : p[1] = k /\ target(k) = Key(p[2], es)
  BY MovedTo
<1>4. \A p \in pairs : p[2] \in es
  BY PairsAre
<1> HIDE DEF fresh, pairs, target
<1>5. ASSUME NEW n \in DOMAIN Migrated(st, es)
      PROVE  /\ n \in Bounds \union {Bare}
             /\ Migrated(st, es)[n] \in Entry
             /\ \A b \in es : Key(b, es) = n => Migrated(st, es)[n].digest = b
  <2>1. source(n) \in DOMAIN st /\ target(source(n)) = n
    <3>1. \E o \in DOMAIN st : target(o) = n
      BY <1>1
    <3> QED
      BY <3>1
  <2>2. Migrated(st, es)[n] = entry(n)
    BY <1>1
  <2> HIDE DEF source
  <2>3. fresh[source(n)] \in Entry
    BY <1>2, <2>1 DEF States
  <2>4. CASE \E p \in pairs : p[1] = source(n)
    <3>1. PICK p \in pairs : n = Key(p[2], es) /\ p[2] \in es
      BY <1>3, <1>4, <2>1, <2>4
    <3>2. (CHOOSE b \in es : Key(b, es) = n) = p[2]
      BY <3>1, KeyChoice
    <3>3. entry(n) = [fresh[source(n)] EXCEPT !.digest = p[2]]
      BY <2>4, <3>2
    <3>4. entry(n) \in Entry /\ entry(n).digest = p[2]
      BY <2>3, <3>1, <3>3 DEF Entry
    <3>5. n \in Bounds \union {Bare}
      BY <3>1, KeyType
    <3> HIDE DEF entry
    <3> QED
      BY <2>2, <3>1, <3>4, <3>5, KeyInjective
  <2>5. CASE ~\E p \in pairs : p[1] = source(n)
    <3>1. source(n) = n
      BY <1>3, <2>1, <2>5
    <3>2. entry(n) = fresh[n]
      BY <2>5, <3>1
    <3> QED
      BY <1>2, <2>1, <2>2, <2>3, <3>1, <3>2 DEF States
  <2> QED
    BY <2>4, <2>5
<1> QED
  BY <1>5 DEF States

LEMMA StoredTypes ==
    ASSUME PhaseTypes, NEW b \in Bounds, NEW armed \in BOOLEAN
    PROVE  States(Stored(b, armed))
<1>1. Key(b, entries) \in Bounds \union {Bare}
  BY KeyType DEF PhaseTypes
<1>2. [armed |-> armed, digest |-> b] \in Entry
  BY DEF Entry
<1> QED
  BY <1>1, <1>2 DEF Stored, States, PhaseTypes

LEMMA RetirementTypes ==
    ASSUME NEW st, States(st), NEW es, NEW all
    PROVE  States(Retired(st, es, all))
  BY DEF Retired, States

LEMMA DoneTypes ==
    ASSUME PhaseTypes, NEW b \in DOMAIN inflight, Done(b)
    PROVE  /\ DOMAIN inflight' = DOMAIN inflight \ {b}
           /\ IsFiniteSet(DOMAIN inflight')
           /\ Cardinality(DOMAIN inflight') <= EvalConcurrency
<1>1. DOMAIN inflight' = DOMAIN inflight \ {b}
  BY DEF Done
<1>2. /\ IsFiniteSet(DOMAIN inflight \ {b})
      /\ Cardinality(DOMAIN inflight \ {b}) = Cardinality(DOMAIN inflight) - 1
  BY FS_RemoveElement DEF PhaseTypes
<1>3. Cardinality(DOMAIN inflight) \in Nat
  BY FS_CardinalityType DEF PhaseTypes
<1> QED
  BY <1>1, <1>2, <1>3, ThresholdAssumption DEF PhaseTypes

LEMMA InitPhaseTypes == ThresholdInit => PhaseTypes
<1> SUFFICES ASSUME ThresholdInit PROVE PhaseTypes
  OBVIOUS
<1>1. DOMAIN keyState = {} /\ DOMAIN queue = {} /\ DOMAIN inflight = {}
  BY DEF ThresholdInit
<1>2. IsFiniteSet({}) /\ Cardinality({}) = 0
  BY FS_EmptySet
<1> QED
  BY <1>1, <1>2, ThresholdAssumption DEF ThresholdInit, PhaseTypes, States

LEMMA PhaseTypesStep == PhaseTypes /\ [ThresholdNext]_thresholdVars => PhaseTypes'
<1> SUFFICES ASSUME PhaseTypes, [ThresholdNext]_thresholdVars PROVE PhaseTypes'
  OBVIOUS
<1>1. CASE UNCHANGED thresholdVars
  BY <1>1 DEF thresholdVars, run, PhaseTypes, Keyed, Key
<1>2. CASE Edit
  BY <1>2 DEF Edit, run, PhaseTypes, Keyed, Key
<1>3. CASE StartRun
  <2>1. PICK es \in SUBSET declared :
            /\ entries' = es /\ keyState' = Migrated(keyState, es) /\ queue' = Rotated(es)
    BY <1>3 DEF StartRun, Serve
  <2>2. /\ phase = "idle" /\ phase' = "running" /\ accepted' = {}
        /\ UNCHANGED <<declared, inflight>>
    BY <1>3 DEF StartRun
  <2>3. States(keyState') /\ DOMAIN queue' = es
    BY <2>1, MigrationTypes DEF Rotated, PhaseTypes
  <2> QED
    BY <2>1, <2>2, <2>3 DEF PhaseTypes
<1>4. CASE RetireThresholds
  <2>1. PICK es \in SUBSET declared :
            entries' = es /\ keyState' = Retired(Migrated(keyState, es), es, es = declared)
    BY <1>4 DEF RetireThresholds, Serve
  <2>2. /\ phase = "idle" /\ phase' = "governing" /\ accepted' = {}
        /\ UNCHANGED <<declared, inflight, queue>>
    BY <1>4 DEF RetireThresholds, run
  <2>3. States(keyState')
    BY <2>1, MigrationTypes, RetirementTypes DEF PhaseTypes
  <2> QED
    BY <2>1, <2>2, <2>3 DEF PhaseTypes
<1>5. CASE StartEvaluation
  <2>1. PICK b \in DOMAIN queue :
            /\ DOMAIN inflight' = DOMAIN inflight \union {b}
            /\ DOMAIN queue' = DOMAIN queue \ {b}
    BY <1>5 DEF StartEvaluation
  <2>2. /\ UNCHANGED <<declared, entries, keyState, phase, accepted>>
        /\ phase = "running" /\ Cardinality(DOMAIN inflight) < EvalConcurrency
    BY <1>5 DEF StartEvaluation
  <2>3. b \notin DOMAIN inflight
    BY <2>1 DEF PhaseTypes
  <2>4. /\ IsFiniteSet(DOMAIN inflight \union {b})
        /\ Cardinality(DOMAIN inflight \union {b}) = Cardinality(DOMAIN inflight) + 1
    BY <2>3, FS_AddElement DEF PhaseTypes
  <2>5. Cardinality(DOMAIN inflight) \in Nat
    BY FS_CardinalityType DEF PhaseTypes
  <2>6. IsFiniteSet(DOMAIN inflight') /\ Cardinality(DOMAIN inflight') <= EvalConcurrency
    BY <2>1, <2>2, <2>4, <2>5, ThresholdAssumption
  <2>7. /\ (DOMAIN inflight') \intersect (DOMAIN queue') = {}
        /\ DOMAIN queue' \subseteq entries /\ DOMAIN inflight' \subseteq entries
    BY <2>1 DEF PhaseTypes
  <2> QED
    BY <2>2, <2>6, <2>7 DEF PhaseTypes, Keyed, Key
<1>6. ASSUME NEW b \in Bounds, Sampled(b) PROVE PhaseTypes'
  <2>1. /\ UNCHANGED <<declared, entries, phase, queue, accepted>>
        /\ phase = "running" /\ b \in DOMAIN inflight
    BY <1>6 DEF Sampled
  <2>2. keyState' = keyState \/ \E armed \in BOOLEAN : keyState' = Stored(b, armed)
    BY <1>6 DEF Sampled
  <2>3. States(keyState')
    BY <2>2, StoredTypes DEF PhaseTypes
  <2>4. DOMAIN inflight' = DOMAIN inflight \/ Done(b)
    BY <1>6 DEF Sampled
  <2>5. /\ DOMAIN inflight' \subseteq DOMAIN inflight
        /\ IsFiniteSet(DOMAIN inflight')
        /\ Cardinality(DOMAIN inflight') <= EvalConcurrency
    BY <2>1, <2>4, DoneTypes DEF PhaseTypes
  <2> QED
    BY <2>1, <2>3, <2>5 DEF PhaseTypes, Keyed, Key
<1>7. ASSUME NEW b \in Bounds, NEW answer \in {"ok", "refused", "lost"}, SubmitReturns(b, answer)
      PROVE  PhaseTypes'
  <2>1. /\ UNCHANGED <<declared, entries, phase, queue>>
        /\ phase = "running" /\ b \in DOMAIN inflight /\ Done(b)
    BY <1>7 DEF SubmitReturns
  <2>2. States(keyState')
    BY <1>7, StoredTypes DEF SubmitReturns, PhaseTypes
  <2>3. b \in entries
    BY <2>1 DEF PhaseTypes
  <2>4. accepted' \subseteq Keyed(entries)
    BY <1>7, <2>3 DEF SubmitReturns, PhaseTypes, Keyed
  <2>5. /\ DOMAIN inflight' \subseteq DOMAIN inflight
        /\ IsFiniteSet(DOMAIN inflight')
        /\ Cardinality(DOMAIN inflight') <= EvalConcurrency
    BY <2>1, DoneTypes
  <2> QED
    BY <2>1, <2>2, <2>4, <2>5 DEF PhaseTypes, Keyed, Key
<1>8. CASE Finish
  <2>1. /\ UNCHANGED <<declared, entries, accepted, inflight, queue>> /\ phase' = "governing"
        /\ DOMAIN queue = {} /\ DOMAIN inflight = {}
    BY <1>8 DEF Finish, run
  <2>2. States(keyState')
    BY <1>8, RetirementTypes DEF Finish, PhaseTypes
  <2> QED
    BY <2>1, <2>2 DEF PhaseTypes, Keyed, Key
<1>9. CASE PhaseTimeout
  <2>1. /\ UNCHANGED <<declared, entries, keyState, accepted>> /\ phase' = "governing"
        /\ DOMAIN queue' = {} /\ DOMAIN inflight' = {}
    BY <1>9 DEF PhaseTimeout
  <2>2. IsFiniteSet({}) /\ Cardinality({}) = 0
    BY FS_EmptySet
  <2> QED
    BY <2>1, <2>2, ThresholdAssumption DEF PhaseTypes, Keyed, Key
<1>10. CASE GovernThresholds
  <2>1. /\ UNCHANGED <<declared, keyState, inflight, queue>> /\ phase' = "idle"
        /\ accepted' = {} /\ entries' = {} /\ phase = "governing"
    BY <1>10 DEF GovernThresholds, run
  <2> QED
    BY <2>1 DEF PhaseTypes
<1> QED
  BY <1>1, <1>2, <1>3, <1>4, <1>5, <1>6, <1>7, <1>8, <1>9, <1>10 DEF ThresholdNext, PhaseStep

LEMMA PhaseTypesInvariant == ThresholdSpec => []PhaseTypes
  BY InitPhaseTypes, PhaseTypesStep, PTL DEF ThresholdSpec

LEMMA PhaseTypesHold == PhaseTypes => ThresholdTypeOK
BY DEF PhaseTypes, States, Entry, ThresholdTypeOK

\* Every variable of the threshold phase keeps its type, and no run has more than
\* EvalConcurrency evaluations under way.
THEOREM ThresholdTypeCorrect == ThresholdSpec => []ThresholdTypeOK
BY PhaseTypesHold, PhaseTypesInvariant, PTL

-----------------------------------------------------------------------------
(* One verdict per breach. *)

\* Of states, the entries they are for and entries core was told of: a live key has the
\* digest of its entry, and whoever core was told of is disarmed.
Agrees(st, es) ==
    \A b \in es : Key(b, es) \in DOMAIN st => st[Key(b, es)].digest = b
Closed(st, es, ts) ==
    /\ ts \subseteq es
    /\ \A b \in ts : Key(b, es) \in DOMAIN st /\ ~st[Key(b, es)].armed

\* What a whole cycle leaves: no state of another key is left.
Settled(st, es, ts) == Agrees(st, es) /\ Closed(st, es, ts) /\ DOMAIN st \subseteq Keyed(es)

\* Between two cycles nobody remembers the entries that the states are for.
ToldInv ==
    /\ unreadable \in Nat
    /\ unreadable = 0 => \A b \in DOMAIN inflight : inflight[b] = "sending" => b \notin told
    /\ lossy => told = {}
    /\ unreadable = 0 /\ ~lossy =>
           /\ phase = "running" => /\ entries = declared
                                   /\ Agrees(keyState, entries) /\ Closed(keyState, entries, told)
           /\ phase = "governing" => Settled(keyState, entries, told)
           /\ phase = "idle" => \E es \in SUBSET Bounds : Settled(keyState, es, told)

\* A state that alone moves to a key keeps its armed flag there.
LEMMA OnlySource ==
    ASSUME NEW st, NEW es, Kept(st), NEW k \in DOMAIN st, NEW n,
           Moved(Pairs(Refreshed(st, es), es), k, es) = n,
           \A o \in DOMAIN st : Moved(Pairs(Refreshed(st, es), es), o, es) = n => o = k
    PROVE  n \in DOMAIN Migrated(st, es) /\ Migrated(st, es)[n].armed = st[k].armed
<1>1. n \in DOMAIN Migrated(st, es)
  BY DEF Migrated
<1>2. PICK o \in DOMAIN st :
          /\ n = Moved(Pairs(Refreshed(st, es), es), o, es)
          /\ Migrated(st, es)[n].armed = st[o].armed
  BY <1>1, MigrationKeeps
<1> QED
  BY <1>1, <1>2

LEMMA StatesKept == ASSUME NEW st, States(st) PROVE Kept(st)
  BY DEF States, Kept, Entry

\* The entry keeps its key: nobody else gets it.
LEMMA KeyStays ==
    ASSUME NEW es \in SUBSET Bounds, NEW st, States(st), NEW b \in es,
           Key(b, es) \in DOMAIN st
    PROVE  /\ Key(b, es) \in DOMAIN Migrated(st, es)
           /\ Migrated(st, es)[Key(b, es)].armed = st[Key(b, es)].armed
<1>1. PICK k : k = Key(b, es)
  OBVIOUS
<1>2. DOMAIN Refreshed(st, es) = DOMAIN st
  BY RefreshTypes
<1>3. \A p \in Pairs(Refreshed(st, es), es) : p[1] # k /\ Key(p[2], es) # k
  BY <1>1, <1>2, PairsAre DEF Keyed
<1>4. Moved(Pairs(Refreshed(st, es), es), k, es) = k
  BY <1>3, MovedTo
<1>5. \A o \in DOMAIN st : Moved(Pairs(Refreshed(st, es), es), o, es) = k => o = k
  BY <1>3, MovedTo
<1> QED
  BY <1>1, <1>4, <1>5, OnlySource, StatesKept

\* A single old key with the entry's digest, and no other entry or key with it: the
\* state goes to the entry.
LEMMA DigestPairs ==
    ASSUME NEW st, NEW es, NEW k \in DOMAIN st, k \notin Keyed(es),
           NEW b \in es, Key(b, es) \notin DOMAIN st, st[k].digest = b,
           \A o \in DOMAIN st : o \notin Keyed(es) => (st[o].digest = b <=> o = k)
    PROVE  /\ <<k, b>> \in Pairs(st, es)
           /\ \A p \in Pairs(st, es) : p[1] = k <=> p[2] = b
<1> DEFINE olds == DOMAIN st \ Keyed(es)
           news == {c \in es : Key(c, es) \notin DOMAIN st}
           same == {p \in olds \X news : {o \in olds : st[o].digest = p[2]} = {p[1]}}
           restOld == olds \ {p[1] : p \in same}
           restNew == news \ {p[2] : p \in same}
<1>1. {o \in olds : st[o].digest = b} = {k}
  OBVIOUS
<1>2. <<k, b>> \in same
  <2>1. <<k, b>> \in olds \X news /\ <<k, b>>[1] = k /\ <<k, b>>[2] = b
    OBVIOUS
  <2> QED
    BY <1>1, <2>1
<1>3. ASSUME NEW p \in same PROVE p[1] = k <=> p[2] = b
  <2>1. p[1] \in olds /\ {o \in olds : st[o].digest = p[2]} = {p[1]}
    OBVIOUS
  <2>2. st[p[1]].digest = p[2]
    BY <2>1
  <2> QED
    BY <2>1, <2>2
<1>4. k \notin restOld /\ b \notin restNew
  BY <1>2
<1>5. Pairs(st, es) = same \union IF Cardinality(restOld) = 1 /\ Cardinality(restNew) = 1
                                  THEN restOld \X restNew ELSE {}
  BY DEF Pairs
<1> HIDE DEF same, restOld, restNew
<1>6. ASSUME NEW p \in restOld \X restNew PROVE p[1] # k /\ p[2] # b
  BY <1>4
<1> QED
  BY <1>2, <1>3, <1>5, <1>6

\* The entry's key changes as its sibling comes or the last one goes; the digest finds
\* the state.
LEMMA KeyFollows ==
    ASSUME NEW es \in SUBSET Bounds, NEW st, States(st), NEW k \in DOMAIN st,
           k \notin Keyed(es), NEW b \in es, Key(b, es) \notin DOMAIN st,
           \A o \in DOMAIN st : o \notin Keyed(es) => (st[o].digest = b <=> o = k)
    PROVE  /\ Key(b, es) \in DOMAIN Migrated(st, es)
           /\ Migrated(st, es)[Key(b, es)].armed = st[k].armed
<1> DEFINE fresh == Refreshed(st, es)
<1>1. /\ DOMAIN fresh = DOMAIN st
      /\ \A o \in DOMAIN st : o \notin Keyed(es) => fresh[o] = st[o]
  BY RefreshTypes
<1>2. PICK n : n = Key(b, es)
  OBVIOUS
<1>3. /\ <<k, b>> \in Pairs(fresh, es)
      /\ \A p \in Pairs(fresh, es) : p[1] = k <=> p[2] = b
  <2>1. fresh[k].digest = b
    BY <1>1
  <2>2. \A o \in DOMAIN fresh : o \notin Keyed(es) => (fresh[o].digest = b <=> o = k)
    BY <1>1
  <2> HIDE DEF fresh
  <2> QED
    BY <1>1, <2>1, <2>2, DigestPairs
<1>4. \A p \in Pairs(fresh, es) : p[2] \in es /\ (Key(p[2], es) = n => p[2] = b)
  BY <1>2, PairsAre, KeyInjective
<1> HIDE DEF fresh
<1>5. Moved(Pairs(fresh, es), k, es) = n
  BY <1>2, <1>3, MovedTo
<1>6. \A o \in DOMAIN st : Moved(Pairs(fresh, es), o, es) = n => o = k
  BY <1>2, <1>3, <1>4, MovedTo
<1> QED
  BY <1>2, <1>5, <1>6, OnlySource, StatesKept DEF fresh

\* Whoever core was told of stays closed when the siblings change.
LEMMA SettledMigrates ==
    ASSUME NEW old \in SUBSET Bounds, NEW es \in SUBSET Bounds, NEW st, NEW ts,
           States(st), Settled(st, old, ts)
    PROVE  Agrees(Migrated(st, es), es) /\ Closed(Migrated(st, es), es, ts \intersect es)
<1>1. Agrees(Migrated(st, es), es)
  BY MigrationTypes DEF Agrees
<1>2. ASSUME NEW b \in ts \intersect es
      PROVE  Key(b, es) \in DOMAIN Migrated(st, es) /\ ~Migrated(st, es)[Key(b, es)].armed
  <2>1. /\ b \in old /\ b \in es /\ b \in Bounds
        /\ Key(b, old) \in DOMAIN st /\ ~st[Key(b, old)].armed
        /\ st[Key(b, old)].digest = b
    BY DEF Settled, Closed, Agrees
  <2>2. \A c \in Bounds : c # Bare
    BY ThresholdAssumption DEF Bare
  <2>3. CASE Key(b, old) = Key(b, es)
    BY <2>1, <2>3, KeyStays
  <2>4. CASE Key(b, old) # Key(b, es)
    <3>1. \/ old = {b} /\ Key(b, old) = Bare /\ Key(b, es) = b /\ es # {b}
          \/ es = {b} /\ Key(b, es) = Bare /\ Key(b, old) = b /\ old # {b}
      BY <2>4 DEF Key
    <3>2. CASE old = {b} /\ Key(b, old) = Bare /\ Key(b, es) = b /\ es # {b}
      <4>1. DOMAIN st \subseteq {Bare}
        BY <3>2 DEF Settled, Keyed
      <4>2. Bare \notin Keyed(es)
        BY <2>1, <2>2, <3>2 DEF Keyed, Key
      <4> QED
        BY <2>1, <2>2, <3>2, <4>1, <4>2, KeyFollows
    <3>3. CASE es = {b} /\ Key(b, es) = Bare /\ Key(b, old) = b /\ old # {b}
      <4>1. \A c \in old : Key(c, old) = c
        BY <2>1, <3>3 DEF Key
      <4>2. \A o \in DOMAIN st : o \in old /\ st[o].digest = o
        BY <4>1 DEF Settled, Agrees, Keyed
      <4>3. Keyed(es) = {Bare}
        BY <3>3 DEF Keyed
      <4> QED
        BY <2>1, <2>2, <3>3, <4>2, <4>3, KeyFollows
    <3> QED
      BY <3>1, <3>2, <3>3
  <2> QED
    BY <2>3, <2>4
<1> QED
  BY <1>1, <1>2 DEF Closed

\* Removing the states of other keys settles it.
LEMMA RetirementSettles ==
    ASSUME NEW st, NEW es, NEW ts, Agrees(st, es), Closed(st, es, ts)
    PROVE  Settled(Retired(st, es, TRUE), es, ts)
  BY DEF Retired, Settled, Agrees, Closed, Keyed

\* What is stored for an entry of the run leaves the others alone.
LEMMA StoredAgrees ==
    ASSUME PhaseTypes, NEW b \in entries, NEW armed \in BOOLEAN, NEW ts,
           Agrees(keyState, entries), Closed(keyState, entries, ts)
    PROVE  /\ Agrees(Stored(b, armed), entries)
           /\ Closed(Stored(b, armed), entries, ts \ {b})
           /\ ~armed => Closed(Stored(b, armed), entries, ts \union {b})
<1>1. \A c \in entries : Key(c, entries) = Key(b, entries) => c = b
  BY KeyInjective
<1>2. /\ DOMAIN Stored(b, armed) = DOMAIN keyState \union {Key(b, entries)}
      /\ Stored(b, armed)[Key(b, entries)] = [armed |-> armed, digest |-> b]
      /\ \A k \in DOMAIN keyState : k # Key(b, entries) => Stored(b, armed)[k] = keyState[k]
  BY DEF Stored
<1>3. Agrees(Stored(b, armed), entries)
  BY <1>1, <1>2 DEF Agrees
<1>4. Closed(Stored(b, armed), entries, ts \ {b})
  BY <1>1, <1>2 DEF Closed
<1>5. ~armed => Closed(Stored(b, armed), entries, ts \union {b})
  BY <1>1, <1>2 DEF Closed
<1> QED
  BY <1>3, <1>4, <1>5

LEMMA ToldStep == PhaseTypes /\ ToldInv /\ [ThresholdNext]_thresholdVars => ToldInv'
<1> SUFFICES ASSUME PhaseTypes, ToldInv, [ThresholdNext]_thresholdVars PROVE ToldInv'
  OBVIOUS
<1> USE DEF ToldInv
<1>1. CASE UNCHANGED thresholdVars
  BY <1>1 DEF thresholdVars, run, history, bounds
<1>2. CASE Edit
  BY <1>2 DEF Edit, run, history
<1>3. ASSUME NEW es \in SUBSET declared, Serve(es), phase = "idle", lossy' = lossy,
             unreadable' = 0, ~lossy
      PROVE  /\ entries' = declared /\ told' \subseteq told
             /\ Agrees(Migrated(keyState, es), entries')
             /\ Closed(Migrated(keyState, es), entries', told')
  <2>1. unreadable = 0 /\ es = declared /\ entries' = es /\ told' = told \intersect es
    BY <1>3 DEF Serve
  <2>2. PICK old \in SUBSET Bounds : Settled(keyState, old, told)
    BY <1>3, <2>1
  <2>3. States(keyState) /\ es \in SUBSET Bounds
    BY <2>1 DEF PhaseTypes
  <2> QED
    BY <2>1, <2>2, <2>3, SettledMigrates
<1>4. ASSUME NEW es \in SUBSET declared, Serve(es)
      PROVE  unreadable' \in Nat /\ told' \subseteq told
  BY <1>4 DEF Serve
<1>5. CASE StartRun
  <2>1. PICK es \in SUBSET declared : Serve(es) /\ keyState' = Migrated(keyState, es)
    BY <1>5 DEF StartRun
  <2>2. /\ phase = "idle" /\ phase' = "running"
        /\ UNCHANGED <<declared, inflight, lossy>> /\ DOMAIN inflight = {}
    BY <1>5 DEF StartRun, PhaseTypes
  <2> QED
    BY <1>3, <1>4, <2>1, <2>2
<1>6. CASE RetireThresholds
  <2>1. PICK es \in SUBSET declared :
            Serve(es) /\ keyState' = Retired(Migrated(keyState, es), es, es = declared)
    BY <1>6 DEF RetireThresholds
  <2>2. /\ phase = "idle" /\ phase' = "governing"
        /\ UNCHANGED <<declared, inflight, lossy>> /\ DOMAIN inflight = {}
    BY <1>6 DEF RetireThresholds, run, PhaseTypes
  <2>3. unreadable' = 0 /\ ~lossy => Settled(keyState', entries', told')
    <3> SUFFICES ASSUME unreadable' = 0, ~lossy PROVE Settled(keyState', entries', told')
      OBVIOUS
    <3>1. entries' = es
      BY <2>1 DEF Serve
    <3>2. /\ es = declared
          /\ Agrees(Migrated(keyState, es), es) /\ Closed(Migrated(keyState, es), es, told')
      BY <1>3, <2>1, <2>2, <3>1
    <3>3. keyState' = Retired(Migrated(keyState, es), es, TRUE)
      BY <2>1, <3>2
    <3> QED
      BY <3>1, <3>2, <3>3, RetirementSettles
  <2> QED
    BY <1>4, <2>1, <2>2, <2>3
<1>7. CASE StartEvaluation
  <2>1. /\ \E b \in DOMAIN queue :
              inflight' = [c \in DOMAIN inflight \union {b} |->
                              IF c = b THEN "sampling" ELSE inflight[c]]
        /\ UNCHANGED <<declared, entries, keyState, phase, told, lossy, unreadable>>
        /\ phase = "running"
    BY <1>7 DEF StartEvaluation, history, bounds
  <2>2. unreadable = 0 => \A b \in DOMAIN inflight' : inflight'[b] = "sending" => b \notin told
    BY <2>1
  <2> QED
    BY <2>1, <2>2 DEF Agrees, Closed, Keyed, Key
<1>8. ASSUME NEW b \in Bounds, Sampled(b) PROVE ToldInv'
  <2>1. /\ UNCHANGED <<declared, entries, phase, lossy, unreadable>>
        /\ phase = "running" /\ b \in entries
    BY <1>8 DEF Sampled, bounds, PhaseTypes
  <2> DEFINE Running(st, ts) == /\ entries = declared
                                /\ Agrees(st, entries) /\ Closed(st, entries, ts)
  <2>2. CASE Done(b) /\ UNCHANGED <<keyState, told>>
    <3>1. unreadable = 0 => \A c \in DOMAIN inflight' : inflight'[c] = "sending" => c \notin told
      BY <2>2 DEF Done
    <3> QED
      BY <2>1, <2>2, <3>1 DEF Agrees, Closed, Keyed, Key
  <2>3. ASSUME NEW armed \in BOOLEAN, Armed(b) => armed, Done(b),
               keyState' = Stored(b, armed), told' = IF armed THEN told \ {b} ELSE told
        PROVE  ToldInv'
    <3>1. unreadable = 0 => \A c \in DOMAIN inflight' : inflight'[c] = "sending" => c \notin told'
      BY <2>3 DEF Done
    <3>2. Running(keyState, told) => Running(keyState', told')
      <4>1. Running(keyState, told) => Closed(Stored(b, armed), entries, told')
        BY <2>1, <2>3, StoredAgrees DEF Closed
      <4> QED
        BY <2>1, <2>3, <4>1, StoredAgrees
    <3> QED
      BY <2>1, <2>3, <3>1, <3>2
  <2>4. CASE /\ Armed(b) /\ inflight' = [inflight EXCEPT ![b] = "sending"]
             /\ UNCHANGED <<keyState, told>>
    <3>1. unreadable = 0 => b \notin told
      BY <2>1, <2>4 DEF Armed, Closed
    <3>2. unreadable = 0 => \A c \in DOMAIN inflight' : inflight'[c] = "sending" => c \notin told
      BY <2>4, <3>1
    <3> QED
      BY <2>1, <2>4, <3>2
  <2> QED
    BY <1>8, <2>2, <2>3, <2>4 DEF Sampled
<1>9. ASSUME NEW b \in Bounds, NEW answer \in {"ok", "refused", "lost"}, SubmitReturns(b, answer)
      PROVE  ToldInv'
  <2>1. /\ UNCHANGED <<declared, entries, phase, unreadable>>
        /\ phase = "running" /\ b \in entries /\ inflight[b] = "sending" /\ b \in DOMAIN inflight
        /\ Done(b) /\ lossy' = (lossy \/ answer = "lost")
        /\ told' = IF lossy' THEN {} ELSE IF answer = "ok" THEN told \union {b} ELSE told
        /\ keyState' = IF answer = "ok" THEN Stored(b, FALSE) ELSE keyState
    BY <1>9 DEF SubmitReturns, bounds, PhaseTypes
  <2>2. unreadable = 0 => \A c \in DOMAIN inflight' : inflight'[c] = "sending" => c \notin told'
    BY <2>1 DEF Done
  <2>3. ASSUME unreadable = 0, ~lossy'
        PROVE  Agrees(keyState', entries) /\ Closed(keyState', entries, told')
    <3>1. Agrees(keyState, entries) /\ Closed(keyState, entries, told)
      BY <2>1, <2>3
    <3>2. Agrees(Stored(b, FALSE), entries)
          /\ Closed(Stored(b, FALSE), entries, told \union {b})
      BY <2>1, <3>1, StoredAgrees
    <3> QED
      BY <2>1, <2>3, <3>1, <3>2
  <2>4. unreadable = 0 /\ ~lossy' => entries = declared
    BY <2>1
  <2> QED
    BY <2>1, <2>2, <2>3, <2>4
<1>10. CASE Finish
  <2>1. /\ UNCHANGED <<declared, entries, inflight, told, lossy, unreadable>>
        /\ phase = "running" /\ phase' = "governing"
        /\ keyState' = Retired(keyState, entries, entries = declared)
    BY <1>10 DEF Finish, run, history, bounds
  <2>2. ASSUME unreadable = 0, ~lossy PROVE Settled(keyState', entries, told)
    <3>1. keyState' = Retired(keyState, entries, TRUE)
      BY <2>1, <2>2
    <3>2. Agrees(keyState, entries) /\ Closed(keyState, entries, told)
      BY <2>1, <2>2
    <3>3. Settled(Retired(keyState, entries, TRUE), entries, told)
      BY <3>2, RetirementSettles
    <3> QED
      BY <3>1, <3>3
  <2> QED
    BY <2>1, <2>2
<1>11. CASE PhaseTimeout
  BY <1>11 DEF PhaseTimeout, bounds
<1>12. CASE GovernThresholds
  <2>1. /\ UNCHANGED <<declared, keyState, inflight, told, lossy, unreadable>>
        /\ phase = "governing" /\ phase' = "idle"
    BY <1>12 DEF GovernThresholds, run, history, bounds
  <2>2. entries \in SUBSET Bounds
    BY DEF PhaseTypes
  <2> QED
    BY <2>1, <2>2
<1> QED
  BY <1>1, <1>2, <1>5, <1>6, <1>7, <1>8, <1>9, <1>10, <1>11, <1>12 DEF ThresholdNext, PhaseStep

LEMMA InitTold == ThresholdInit => ToldInv
<1> SUFFICES ASSUME ThresholdInit PROVE ToldInv
  OBVIOUS
<1>1. DOMAIN keyState = {} /\ DOMAIN inflight = {}
  BY DEF ThresholdInit
<1>2. Settled(keyState, {}, {})
  BY <1>1 DEF Settled, Agrees, Closed
<1> QED
  BY <1>1, <1>2 DEF ThresholdInit, ToldInv

\* While a breach is open and its entry stays declared, core is told of it once, whatever
\* siblings are added, edited and removed, as long as every manifest parses and every run
\* ends: _migrate never loses or crosses the states of two entries.
THEOREM ToldOnce == ThresholdSpec => []OneVerdictPerBreach
<1>1. PhaseTypes /\ ToldInv => OneVerdictPerBreach
  BY DEF ToldInv, OneVerdictPerBreach
<1> QED
  BY <1>1, InitTold, ToldStep, PhaseTypesInvariant, PTL DEF ThresholdSpec

-----------------------------------------------------------------------------
(* The workers together: a step of one component is a step of its own      *)
(* specification and leaves the others as they are.                        *)

WorkersInv ==
    /\ RunnerInv /\ SafeInv
    /\ SessionInv /\ WindowInv
    /\ LearnInv /\ CursorInv /\ RetroInv
    /\ PhaseTypes

LEMMA InitWorkers == MCInit => WorkersInv
  BY RunnerInitially, InitSafe, InitSession, InitWindows, InitLearn, InitWalk, InitRetro, InitPhaseTypes
     DEF MCInit, WorkersInv

LEMMA StepOfEach ==
    [MCNext]_mcVars => /\ [OnCallNext]_onCallVars
                       /\ [SafeNext]_safeVars
                       /\ [SessionNext]_sessionVars
                       /\ [LearnNext]_learnVars
                       /\ [ThresholdNext]_thresholdVars
  BY DEF MCNext, mcVars, OnCallRuns, ActionsRun, SessionRuns, LearnRuns, OutcomeRuns,
         RetrospectiveRuns, ThresholdsRun

LEMMA WorkersStep == WorkersInv /\ [MCNext]_mcVars => WorkersInv'
<1> SUFFICES ASSUME WorkersInv, [MCNext]_mcVars PROVE WorkersInv'
  OBVIOUS
<1>1. RunnerInv' /\ SafeInv'
  BY StepOfEach, RunnerStepKeeps, SafeInvStep DEF WorkersInv
<1>2. SessionInv' /\ WindowInv'
  BY StepOfEach, SessionInvStep, WindowsStayQuiet DEF WorkersInv, SessionInv
<1>3. LearnInv' /\ CursorInv' /\ RetroInv'
  BY StepOfEach, NextLearn, CursorStep, RetroKeeps DEF WorkersInv
<1>4. PhaseTypes'
  BY StepOfEach, PhaseTypesStep DEF WorkersInv
<1> QED
  BY <1>1, <1>2, <1>3, <1>4 DEF WorkersInv

LEMMA WorkersInvariant == MCSpec => []WorkersInv
  BY InitWorkers, WorkersStep, PTL DEF MCSpec

\* Every variable of the five components keeps its type whichever of them runs.
THEOREM WorkersTypeCorrect == MCSpec => []WorkersTypeOK
<1>1. WorkersInv => WorkersTypeOK
  BY RunnerTypes, SafeTypes, QuietTypes, LearnTypes, PhaseTypesHold DEF WorkersInv, WorkersTypeOK
<1> QED
  BY <1>1, WorkersInvariant, PTL

\* No escalation step before its delay, no second @here, no POST repeated after its
\* answer, no breach in a window left open, no second retrospective.
THEOREM WorkersNeverEarlyOrTwice == MCSpec => []NothingEarlyOrTwice
<1>1. WorkersInv => NothingEarlyOrTwice
  BY RunnerOrder, RunnerChannel, RetriesAreAnswered, QuietCloses, RetrospectsApart
     DEF WorkersInv, NothingEarlyOrTwice
<1> QED
  BY <1>1, WorkersInvariant, PTL
=============================================================================
