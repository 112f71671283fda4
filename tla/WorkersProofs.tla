----------------------------- MODULE WorkersProofs -----------------------------
(***************************************************************************)
(* Theorems about CorrelateSession, for every set of domains and kinds and *)
(* every gap, duration, page and number of events and mishaps; and about         *)
(* LearnWorkers, for every number of verdicts and slips and every size of  *)
(* a page.                                                                 *)
(***************************************************************************)
EXTENDS CorrelateSession, LearnWorkers, Integers, SequenceTheorems, WellFoundedInduction, TLAPS

-----------------------------------------------------------------------------
(* The inductive invariant: the cursor separates the events taken from     *)
(* those to come, and a window holds only events of its domain.            *)

Event == [kind : Kinds, domain : Domains, at : 0..PublishUntil]

SessionTypes ==
    /\ events \in Seq(Event) /\ time \in Nat /\ cursor \in Nat /\ saved.cursor \in Nat /\ restarts \in Nat
    /\ stage \in {"idle", "polling", "emitting", "saving", "down"}
    /\ fetched \subseteq 1..Len(events)

\* Events of domain d that the cursor has passed.
Passed(d, es) == \A e \in es : e \in 1..Len(events) /\ events[e].domain = d /\ events[e].at <= cursor

CursorSeparates ==
    /\ stage = "polling" => \A e \in fetched : events[e].at > cursor
    /\ \A s \in reported : \A e \in s : e \in 1..Len(events) /\ events[e].at <= cursor
    /\ \A d \in DOMAIN windows : Passed(d, windows[d].held)
    /\ \A d \in DOMAIN closing : Passed(d, closing[d])

Apart ==
    /\ (DOMAIN windows) \intersect (DOMAIN closing) = {}
    /\ \A s, t \in reported : s # t => s \intersect t = {}
    /\ \A s \in reported : \A d \in DOMAIN windows : s \intersect windows[d].held = {}
    /\ \A s \in reported : \A d \in DOMAIN closing : s \intersect closing[d] = {}

\* Closed windows wait only between the ingestion and the last snapshot.
NothingClosing == stage # "emitting" => DOMAIN closing = {}

SessionInv == SessionTypes /\ NothingClosing /\ (restarts = 0 => CursorSeparates /\ Apart)

-----------------------------------------------------------------------------

\* OpToRel written out.
LEMMA LessThanWellFounded == IsWellFoundedOn({ss \in Nat \X Nat : ss[1] < ss[2]}, Nat)
  BY NatLessThanWellFounded, Zenon DEF OpToRel

\* A bounded set of numbers has a greatest element.
LEMMA HasGreatest ==
    ASSUME NEW n \in Nat, NEW S \in SUBSET (0..n), S # {}
    PROVE  \E m \in S : \A x \in S : x <= m
<1> DEFINE T == {n - x : x \in S}
           R == {ss \in Nat \X Nat : ss[1] < ss[2]}
<1>1. T \subseteq Nat /\ T # {}
  <2>1. PICK x \in S : TRUE
    OBVIOUS
  <2>2. n - x \in T
    BY <2>1
  <2>3. \A z \in S : n - z \in Nat
    OBVIOUS
  <2> QED
    BY <2>2, <2>3
<1>2. PICK y \in T : \A z \in T : ~ (<<z, y>> \in R)
  <2> HIDE DEF T
  <2> QED
    BY <1>1, LessThanWellFounded, WFMin
<1>3. \A z \in T : ~(z < y)
  BY <1>1, <1>2
<1>4. PICK m \in S : y = n - m
  OBVIOUS
<1>5. \A x \in S : ~(n - x < y)
  BY <1>3
<1> QED
  BY <1>4, <1>5

\* Latest is the timestamp of the newest event of a set.
LEMMA LatestIsLatest ==
    ASSUME SessionTypes, NEW es \in SUBSET (1..Len(events)), es # {}
    PROVE  /\ Latest(es) \in 0..PublishUntil
           /\ \A e \in es : events[e].at <= Latest(es)
           /\ \E e \in es : events[e].at = Latest(es)
<1> DEFINE S == {events[e].at : e \in es}
<1>1. \A e \in 1..Len(events) : events[e].at \in 0..PublishUntil
  <2>1. \A e \in 1..Len(events) : events[e] \in Event
    BY ElementOfSeq DEF SessionTypes
  <2> QED
    BY <2>1 DEF Event
<1>2. S \in SUBSET (0..PublishUntil) /\ S # {}
  BY <1>1
<1>3. \E t \in S : \A x \in S : x <= t
  <2> HIDE DEF S
  <2> QED
    BY <1>2, HasGreatest, SessionAssumption
<1>4. \E t \in S : \A e \in es : events[e].at <= t
  BY <1>3
<1>5. Latest(es) \in S /\ \A e \in es : events[e].at <= Latest(es)
  BY <1>4 DEF Latest
<1> QED
  BY <1>2, <1>5

\* What a domain's window holds once the events es are in it.
LEMMA IngestedHeld ==
    ASSUME NEW es, NEW d, NEW first
    PROVE  Ingested(es, d, first).held
               = (IF d \in DOMAIN windows THEN windows[d].held ELSE {}) \union In(es, d)
BY DEF Ingested

LEMMA InitSession == SessionInit => SessionInv
<1> SUFFICES ASSUME SessionInit PROVE SessionInv
  OBVIOUS
<1>1. DOMAIN windows = {} /\ DOMAIN closing = {}
  BY DEF SessionInit
<1>2. SessionTypes
  BY SessionAssumption DEF SessionInit, SessionTypes
<1> QED
  BY <1>1, <1>2 DEF SessionInit, SessionInv, NothingClosing, CursorSeparates, Apart

\* An event's fields.
LEMMA EventOfLog ==
    ASSUME SessionTypes, NEW e \in 1..Len(events)
    PROVE  events[e].at \in 0..PublishUntil /\ events[e].domain \in Domains
<1>1. events[e] \in Event
  BY ElementOfSeq DEF SessionTypes
<1> QED
  BY <1>1 DEF Event

LEMMA PublishKeeps == SessionInv /\ Publish => SessionInv'
<1> SUFFICES ASSUME SessionInv, Publish PROVE SessionInv'
  OBVIOUS
<1>1. PICK k \in Kinds, d \in Domains : events' = Append(events, [kind |-> k, domain |-> d, at |-> time])
  BY DEF Publish
<1>2. SessionTypes
  BY DEF SessionInv
<1>3. [kind |-> k, domain |-> d, at |-> time] \in Event
  BY <1>2, SessionAssumption DEF Event, Publish, SessionTypes
<1>4. /\ events' \in Seq(Event) /\ Len(events') = Len(events) + 1
      /\ \A e \in 1..Len(events) : events'[e] = events[e]
  BY <1>1, <1>2, <1>3 DEF SessionTypes
<1>5. Len(events) \in Nat /\ 1..Len(events) \subseteq 1..Len(events')
  BY <1>2, <1>4 DEF SessionTypes
<1>6. SessionTypes'
  BY <1>2, <1>4, <1>5 DEF SessionTypes, Publish, outcome, cycleVars
<1>7. ASSUME restarts' = 0 PROVE CursorSeparates' /\ Apart'
  <2>1. CursorSeparates /\ Apart
    BY <1>7 DEF SessionInv, Publish
  <2>2. CursorSeparates'
    BY <2>1, <1>2, <1>4, <1>5 DEF CursorSeparates, Passed, SessionTypes, Publish, outcome, cycleVars
  <2>3. Apart'
    BY <2>1 DEF Apart, Publish, outcome, cycleVars
  <2> QED
    BY <2>2, <2>3
<1>9. NothingClosing'
  BY DEF SessionInv, NothingClosing, Publish, outcome, cycleVars
<1> QED
  BY <1>9, <1>6, <1>7 DEF SessionInv

LEMMA PollKeeps ==
    ASSUME SessionInv, NEW k \in Kinds, NEW ok \in BOOLEAN, Poll(k, ok)
    PROVE  SessionInv'
<1>1. SessionTypes
  BY DEF SessionInv
<1>2. fetched' \subseteq 1..Len(events) /\ \A e \in fetched' : e \in fetched \/ events[e].at > cursor
  <2>1. DOMAIN events = 1..Len(events)
    BY <1>1 DEF SessionTypes
  <2>2. \A page \in Pages(k) : \A e \in page : e \in DOMAIN events /\ events[e].at > cursor
    BY DEF Pages, Newer
  <2>3. fetched' \subseteq fetched \union {e \in DOMAIN events : events[e].at > cursor}
    <3>1. CASE ok
      <4>1. PICK page \in Pages(k) : fetched' = fetched \union page
        BY <3>1 DEF Poll
      <4> QED
        BY <2>2, <4>1
    <3>2. CASE ~ok
      BY <3>2 DEF Poll
    <3> QED
      BY <3>1, <3>2
  <2> QED
    BY <1>1, <2>1, <2>3 DEF SessionTypes
<1>3. SessionTypes'
  BY <1>1, <1>2 DEF SessionTypes, Poll, core
<1>4. restarts' = 0 => CursorSeparates' /\ Apart'
  BY <1>2 DEF SessionInv, CursorSeparates, Passed, Apart, Poll, core, outcome
<1>9. NothingClosing'
  BY DEF SessionInv, NothingClosing, Poll, core
<1> QED
  BY <1>9, <1>3, <1>4 DEF SessionInv

LEMMA PollRaiseKeeps == SessionInv /\ PollRaises => SessionInv'
<1> SUFFICES ASSUME SessionInv, PollRaises PROVE SessionInv'
  OBVIOUS
<1>1. SessionTypes'
  BY DEF SessionInv, SessionTypes, PollRaises, core
<1>2. restarts' = 0 => CursorSeparates' /\ Apart'
  BY DEF SessionInv, CursorSeparates, Passed, Apart, PollRaises, core, outcome
<1>9. NothingClosing'
  BY DEF SessionInv, NothingClosing, PollRaises
<1> QED
  BY <1>9, <1>1, <1>2 DEF SessionInv

\* Between the polls and the ingestion the cursor is behind every event
\* fetched, and Latest of them is a timestamp it can move to.
LEMMA CursorMoves ==
    ASSUME SessionTypes, stage = "polling", fetched # {}
    PROVE  /\ Latest(fetched) \in 0..PublishUntil
           /\ \A e \in fetched : events[e].at <= Latest(fetched)
           /\ CursorSeparates => cursor <= Latest(fetched)
<1>1. /\ Latest(fetched) \in 0..PublishUntil
      /\ \A e \in fetched : events[e].at <= Latest(fetched)
  BY LatestIsLatest DEF SessionTypes
<1>2. PICK e \in fetched : TRUE
  OBVIOUS
<1>3. events[e].at \in 0..PublishUntil
  BY EventOfLog DEF SessionTypes
<1>4. CursorSeparates => events[e].at > cursor
  BY <1>2 DEF CursorSeparates
<1> QED
  BY <1>1, <1>3, <1>4, SessionAssumption DEF SessionTypes

\* The windows' events once some of those fetched are in them: each is of its
\* domain and not past a cursor that has moved, and no snapshot has it.
LEMMA FilledApart ==
    ASSUME SessionTypes, CursorSeparates, Apart, stage = "polling",
           NEW es \in SUBSET fetched, NEW first, NEW c \in Nat,
           cursor <= c, \A e \in fetched : events[e].at <= c,
           NEW d \in DOMAIN Filled(es, first)
    PROVE  LET held == Filled(es, first)[d].held
           IN  /\ \A e \in held : e \in 1..Len(events) /\ events[e].domain = d /\ events[e].at <= c
               /\ \A s \in reported : s \intersect held = {}
<1> DEFINE Held == (IF d \in DOMAIN windows THEN windows[d].held ELSE {}) \union In(es, d)
<1>1. Filled(es, first)[d].held = Held
  <2>1. Filled(es, first)[d] = Ingested(es, d, first[d])
    BY DEF Filled
  <2> QED
    BY <2>1, IngestedHeld
<1>2. \A e \in In(es, d) : /\ e \in 1..Len(events) /\ events[e].domain = d
                            /\ events[e].at > cursor /\ events[e].at <= c
  BY DEF In, CursorSeparates, SessionTypes
<1>3. \A e \in 1..Len(events) : events[e].at \in 0..PublishUntil
  BY EventOfLog
<1>4. ASSUME NEW e \in Held
      PROVE  e \in 1..Len(events) /\ events[e].domain = d /\ events[e].at <= c
  <2>1. CASE e \in In(es, d)
    BY <1>2, <2>1
  <2>2. CASE d \in DOMAIN windows /\ e \in windows[d].held
    BY <1>3, <2>2, SessionAssumption DEF CursorSeparates, Passed, SessionTypes
  <2> QED
    BY <1>4, <2>1, <2>2
<1>5. ASSUME NEW s \in reported, NEW e \in s, e \in Held PROVE FALSE
  <2>1. e \in 1..Len(events) /\ events[e].at <= cursor
    BY DEF CursorSeparates
  <2>2. CASE e \in In(es, d)
    BY <1>2, <1>3, <2>1, <2>2, SessionAssumption DEF SessionTypes
  <2>3. CASE d \in DOMAIN windows /\ e \in windows[d].held
    BY <2>3 DEF Apart
  <2> QED
    BY <1>5, <2>2, <2>3
<1> HIDE DEF Held
<1> QED
  BY <1>1, <1>4, <1>5

LEMMA IngestKeeps == SessionInv /\ Ingest => SessionInv'
<1> SUFFICES ASSUME SessionInv, Ingest PROVE SessionInv'
  OBVIOUS
<1>1. SessionTypes /\ stage = "polling"
  BY DEF SessionInv, Ingest
<1>2. /\ cursor' \in Nat
      /\ restarts = 0 /\ CursorSeparates =>
             cursor <= cursor' /\ \A e \in fetched : events[e].at <= cursor'
  <2>1. CASE fetched = {}
    BY <1>1, <2>1 DEF Ingest, SessionTypes
  <2>2. CASE fetched # {}
    BY <1>1, <2>2, CursorMoves, SessionAssumption DEF Ingest
  <2> QED
    BY <2>1, <2>2
<1>3. SessionTypes'
  BY <1>1, <1>2 DEF SessionTypes, Ingest, core, outcome
<1>4. ASSUME restarts' = 0 PROVE CursorSeparates' /\ Apart'
  <2>1. restarts = 0 /\ CursorSeparates /\ Apart
    BY <1>4 DEF SessionInv, Ingest
  <2>2. PICK first \in Firsts(fetched) :
            LET all == Filled(fetched, first)
            IN  WindowsClosed(all, {d \in DOMAIN all : ShouldClose(all[d])})
    BY DEF Ingest
  <2> DEFINE all == Filled(fetched, first)
             ready == {d \in DOMAIN all : ShouldClose(all[d])}
  <2>3. ready \subseteq DOMAIN all
    OBVIOUS
  <2>4. /\ DOMAIN windows' = DOMAIN all \ ready /\ DOMAIN closing' = ready
        /\ \A d \in DOMAIN windows' : windows'[d] = all[d]
        /\ \A d \in DOMAIN closing' : closing'[d] = all[d].held
    <3>1. WindowsClosed(all, ready)
      BY <2>2
    <3> HIDE DEF all, ready
    <3> QED
      BY <3>1 DEF WindowsClosed
  <2>5. \A d \in DOMAIN all :
            /\ \A e \in all[d].held :
                   e \in 1..Len(events) /\ events[e].domain = d /\ events[e].at <= cursor'
            /\ \A s \in reported : s \intersect all[d].held = {}
    BY <1>1, <1>2, <2>1, FilledApart
  <2> HIDE DEF ready, all
  <2>9. CursorSeparates'
    <3>1. \A s \in reported' : \A e \in s : e \in 1..Len(events') /\ events'[e].at <= cursor'
      <4>1. \A e \in 1..Len(events) : events[e].at \in 0..PublishUntil
        BY <1>1, EventOfLog
      <4> QED
        BY <1>1, <1>2, <2>1, <4>1, SessionAssumption
           DEF CursorSeparates, SessionTypes, Ingest, core, outcome
    <3>2. events' = events /\ stage' = "emitting"
      BY DEF Ingest, core
    <3>3. \A d \in DOMAIN windows' : \A e \in windows'[d].held :
              e \in 1..Len(events) /\ events[e].domain = d /\ events[e].at <= cursor'
      BY <2>4, <2>5
    <3>4. \A d \in DOMAIN closing' : \A e \in closing'[d] :
              e \in 1..Len(events) /\ events[e].domain = d /\ events[e].at <= cursor'
      BY <2>3, <2>4, <2>5
    <3> QED
      BY <3>1, <3>2, <3>3, <3>4 DEF CursorSeparates, Passed
  <2>10. Apart'
    <3>1. reported' = reported
      BY DEF Ingest, outcome
    <3>2. (DOMAIN windows') \intersect (DOMAIN closing') = {}
      BY <2>4
    <3>3. \A s \in reported : \A d \in DOMAIN windows' : s \intersect windows'[d].held = {}
      BY <2>4, <2>5
    <3>4. \A s \in reported : \A d \in DOMAIN closing' : s \intersect closing'[d] = {}
      BY <2>3, <2>4, <2>5
    <3> QED
      BY <2>1, <3>1, <3>2, <3>3, <3>4 DEF Apart
  <2> QED
    BY <2>9, <2>10
<1>9. NothingClosing'
  BY DEF SessionInv, NothingClosing, Ingest
<1> QED
  BY <1>9, <1>3, <1>4 DEF SessionInv

LEMMA IngestRaiseKeeps == SessionInv /\ IngestRaises => SessionInv'
<1> SUFFICES ASSUME SessionInv, IngestRaises PROVE SessionInv'
  OBVIOUS
<1>1. SessionTypes /\ stage = "polling" /\ fetched # {} /\ cursor' = Latest(fetched)
  BY DEF SessionInv, IngestRaises
<1>2. /\ cursor' \in Nat /\ \A e \in fetched : events[e].at <= cursor'
      /\ CursorSeparates => cursor <= cursor'
  BY <1>1, CursorMoves, SessionAssumption
<1>3. SessionTypes'
  BY <1>1, <1>2 DEF SessionTypes, IngestRaises, core, outcome
<1>4. ASSUME restarts' = 0 PROVE CursorSeparates' /\ Apart'
  <2>1. CursorSeparates /\ Apart /\ DOMAIN closing = {}
    BY <1>1, <1>4 DEF SessionInv, IngestRaises, NothingClosing
  <2>2. PICK part \in SUBSET fetched : \E first \in Firsts(part) : windows' = Filled(part, first)
    BY DEF IngestRaises
  <2>3. PICK first : windows' = Filled(part, first)
    BY <2>2
  <2>4. \A d \in DOMAIN windows' :
            /\ \A e \in windows'[d].held :
                   e \in 1..Len(events) /\ events[e].domain = d /\ events[e].at <= cursor'
            /\ \A s \in reported : s \intersect windows'[d].held = {}
    BY <1>1, <1>2, <2>1, <2>3, FilledApart
  <2>5. /\ events' = events /\ stage' = "idle" /\ reported' = reported /\ closing' = closing
    BY DEF IngestRaises, core, outcome
  <2>6. \A s \in reported : \A e \in s : e \in 1..Len(events) /\ events[e].at <= cursor'
    <3>1. \A e \in 1..Len(events) : events[e].at \in 0..PublishUntil
      BY <1>1, EventOfLog
    <3> QED
      BY <1>1, <1>2, <2>1, <3>1, SessionAssumption DEF CursorSeparates, SessionTypes
  <2>7. CursorSeparates'
    BY <2>1, <2>4, <2>5, <2>6 DEF CursorSeparates, Passed
  <2>8. Apart'
    BY <2>1, <2>4, <2>5 DEF Apart
  <2> QED
    BY <2>7, <2>8
<1>9. NothingClosing'
  BY DEF SessionInv, NothingClosing, IngestRaises
<1> QED
  BY <1>9, <1>3, <1>4 DEF SessionInv

LEMMA EmitKeeps ==
    ASSUME SessionInv, NEW d \in Domains, NEW ok \in BOOLEAN, EmitSnapshot(d, ok)
    PROVE  SessionInv'
<1>1. SessionTypes'
  BY DEF SessionInv, SessionTypes, EmitSnapshot, core
<1>2. ASSUME restarts' = 0 PROVE CursorSeparates' /\ Apart'
  <2>1. CursorSeparates /\ Apart /\ d \in DOMAIN closing
    BY <1>2 DEF SessionInv, EmitSnapshot
  <2>2. /\ DOMAIN closing' = DOMAIN closing \ {d}
        /\ \A c \in DOMAIN closing' : closing'[c] = closing[c]
        /\ reported' \subseteq reported \union {closing[d]}
    BY DEF EmitSnapshot
  <2>3. \A c \in DOMAIN closing' : closing[d] \intersect closing[c] = {}
    BY <2>1, <2>2 DEF CursorSeparates, Passed
  <2>4. \A c \in DOMAIN windows : closing[d] \intersect windows[c].held = {}
    BY <2>1 DEF CursorSeparates, Passed, Apart
  <2>5. CursorSeparates'
    BY <2>1, <2>2 DEF CursorSeparates, Passed, EmitSnapshot, core
  <2>6. Apart'
    <3>1. \A s, t \in reported' : s # t => s \intersect t = {}
      BY <2>1, <2>2 DEF Apart
    <3>2. \A s \in reported' : \A c \in DOMAIN windows : s \intersect windows[c].held = {}
      BY <2>1, <2>2, <2>4 DEF Apart
    <3>3. \A s \in reported' : \A c \in DOMAIN closing' : s \intersect closing'[c] = {}
      BY <2>1, <2>2, <2>3 DEF Apart
    <3> QED
      BY <2>1, <2>2, <3>1, <3>2, <3>3 DEF Apart, EmitSnapshot
  <2> QED
    BY <2>5, <2>6
<1>9. NothingClosing'
  BY DEF SessionInv, NothingClosing, EmitSnapshot
<1> QED
  BY <1>9, <1>1, <1>2 DEF SessionInv

\* The remaining steps touch neither events, windows nor snapshots.
LEMMA SaveKeeps == ASSUME SessionInv, NEW ok \in BOOLEAN, SaveState(ok) PROVE SessionInv'
<1>1. SessionTypes'
  BY DEF SessionInv, SessionTypes, SaveState, core
<1>2. restarts' = 0 => CursorSeparates' /\ Apart'
  BY DEF SessionInv, CursorSeparates, Passed, Apart, SaveState, core, outcome
<1>9. NothingClosing'
  BY DEF SessionInv, NothingClosing, SaveState
<1> QED
  BY <1>9, <1>1, <1>2 DEF SessionInv

LEMMA StartKeeps == SessionInv /\ StartPolling => SessionInv'
<1> SUFFICES ASSUME SessionInv, StartPolling PROVE SessionInv'
  OBVIOUS
<1>1. SessionTypes'
  BY DEF SessionInv, SessionTypes, StartPolling, core
<1>2. restarts' = 0 => CursorSeparates' /\ Apart'
  BY DEF SessionInv, CursorSeparates, Passed, Apart, StartPolling, core, outcome
<1>9. NothingClosing'
  BY DEF SessionInv, NothingClosing, StartPolling
<1> QED
  BY <1>9, <1>1, <1>2 DEF SessionInv

LEMMA SessionCrashKeeps == SessionInv /\ CorrelateCrash => SessionInv'
<1> SUFFICES ASSUME SessionInv, CorrelateCrash PROVE SessionInv'
  OBVIOUS
<1>1. SessionTypes'
  BY DEF SessionInv, SessionTypes, CorrelateCrash, core
<1>2. restarts' = 0 => CursorSeparates' /\ Apart'
  BY DEF SessionInv, CursorSeparates, Passed, Apart, CorrelateCrash, core, outcome
<1>9. NothingClosing'
  BY DEF SessionInv, NothingClosing, CorrelateCrash
<1> QED
  BY <1>9, <1>1, <1>2 DEF SessionInv

\* A restart leaves the part of the invariant that speaks of one life only.
LEMMA RestoreKeeps == SessionInv /\ RestoreSession => SessionInv'
<1> SUFFICES ASSUME SessionInv, RestoreSession PROVE SessionInv'
  OBVIOUS
<1>1. SessionTypes'
  BY DEF SessionInv, SessionTypes, RestoreSession, core, cycleVars
<1>2. restarts' # 0
  BY DEF SessionInv, SessionTypes, RestoreSession
<1>9. NothingClosing'
  BY DEF SessionInv, NothingClosing, RestoreSession, cycleVars
<1> QED
  BY <1>9, <1>1, <1>2 DEF SessionInv

LEMMA TickKeeps == SessionInv /\ SessionTick => SessionInv'
<1> SUFFICES ASSUME SessionInv, SessionTick PROVE SessionInv'
  OBVIOUS
<1>1. SessionTypes'
  BY DEF SessionInv, SessionTypes, SessionTick, cycleVars
<1>2. restarts' = 0 => CursorSeparates' /\ Apart'
  BY DEF SessionInv, CursorSeparates, Passed, Apart, SessionTick, outcome, cycleVars
<1>9. NothingClosing'
  BY DEF SessionInv, NothingClosing, SessionTick, cycleVars
<1> QED
  BY <1>9, <1>1, <1>2 DEF SessionInv

LEMMA SessionInvStep == SessionInv /\ [SessionNext]_sessionVars => SessionInv'
<1> SUFFICES ASSUME SessionInv, [SessionNext]_sessionVars PROVE SessionInv'
  OBVIOUS
<1>1. CASE Publish
  BY <1>1, PublishKeeps
<1>2. CASE SessionTick
  BY <1>2, TickKeeps
<1>3. CASE CorrelateCrash \/ PollRaises \/ IngestRaises
  BY <1>3, SessionCrashKeeps, PollRaiseKeeps, IngestRaiseKeeps
<1>4. CASE StartPolling \/ Ingest \/ RestoreSession
  BY <1>4, StartKeeps, IngestKeeps, RestoreKeeps
<1>5. ASSUME NEW ok \in BOOLEAN, NEW k \in Kinds, Poll(k, ok) PROVE SessionInv'
  BY <1>5, PollKeeps
<1>6. ASSUME NEW ok \in BOOLEAN, NEW d \in Domains, EmitSnapshot(d, ok) PROVE SessionInv'
  BY <1>6, EmitKeeps
<1>7. ASSUME NEW ok \in BOOLEAN, SaveState(ok) PROVE SessionInv'
  BY <1>7, SaveKeeps
<1>8. CASE UNCHANGED sessionVars
  <2>1. SessionTypes' /\ restarts' = restarts
    BY <1>8 DEF SessionInv, SessionTypes, sessionVars
  <2>2. restarts = 0 => CursorSeparates' /\ Apart'
    BY <1>8 DEF SessionInv, CursorSeparates, Passed, Apart, sessionVars
  <2>3. NothingClosing'
    BY <1>8 DEF SessionInv, NothingClosing, sessionVars
  <2> QED
    BY <2>1, <2>2, <2>3 DEF SessionInv
<1> QED
  BY <1>1, <1>2, <1>3, <1>4, <1>5, <1>6, <1>7, <1>8 DEF SessionNext, SessionStep

LEMMA SessionInvariant == SessionSpec => []SessionInv
  BY SessionInvStep, InitSession, PTL DEF SessionSpec

-----------------------------------------------------------------------------

\* Until a restart, no event reaches two snapshots, whatever the polls that
\* fail, the snapshots that core refuses and the way the windows close: all
\* four polls share the cursor, and it passes every event it lets through.
THEOREM ReportedOnce == SessionSpec => []EventsReportedOnce
<1>1. SessionInv => EventsReportedOnce
  <2> SUFFICES ASSUME SessionInv, restarts = 0 PROVE EventsReportedOnce
    BY DEF EventsReportedOnce
  <2>1. CursorSeparates /\ Apart
    BY DEF SessionInv
  <2>2. \A c \in DOMAIN closing, d \in DOMAIN windows : closing[c] \intersect windows[d].held = {}
    BY <2>1 DEF CursorSeparates, Passed, Apart
  <2> QED
    BY <2>1, <2>2 DEF Apart, EventsReportedOnce
<1> QED
  BY <1>1, SessionInvariant, PTL

-----------------------------------------------------------------------------
(* What a window holds, over all lives of the process.                     *)

\* A window of domain d: a breach among its events has set its trigger.
Sound(d, w) ==
    /\ w \in [held : SUBSET (1..Len(events)), opened : Nat, last : Nat, trigger : BOOLEAN]
    /\ w.opened <= w.last
    /\ \A e \in w.held : events[e].domain = d /\ (events[e].kind = BreachKind => w.trigger)

\* A window that has not seen a breach.
Quiet(d, w) == Sound(d, w) /\ ~w.trigger

\* Every window kept is quiet, unless the last ingestion raised before it could
\* close any, and every window stored is: close_ready takes the others in the
\* step that ingested their breach, and a cycle that raised stores nothing.
WindowInv ==
    /\ time <= MaxNow /\ cursor <= PublishUntil /\ saved.cursor <= PublishUntil
    /\ DOMAIN windows \subseteq Domains /\ DOMAIN saved.windows \subseteq Domains
    /\ \A d \in DOMAIN windows : Sound(d, windows[d]) /\ (~cut => ~windows[d].trigger)
    /\ \A d \in DOMAIN saved.windows : Quiet(d, saved.windows[d])
    /\ {} \notin reported
    /\ cut \in BOOLEAN /\ (stage = "emitting" => ~cut)

LEMMA SoundKept == ASSUME events' = events, NEW d, NEW w, Sound(d, w) PROVE Sound(d, w)'
BY DEF Sound

LEMMA QuietKept == ASSUME events' = events, NEW d, NEW w, Quiet(d, w) PROVE Quiet(d, w)'
BY SoundKept DEF Quiet

\* A step that leaves the log and the windows alone.
LEMMA WindowsKept ==
    ASSUME WindowInv, events' = events, windows' = windows, saved' = saved,
           time' <= MaxNow, cursor' = cursor, {} \notin reported', cut' = cut,
           stage' = "emitting" => stage = "emitting"
    PROVE  WindowInv'
<1>1. \A d, w : Quiet(d, w) => Quiet(d, w)'
  BY QuietKept
<1>2. \A d \in DOMAIN windows' : Sound(d, windows[d])' /\ (~cut' => ~windows'[d].trigger)
  BY SoundKept DEF WindowInv
<1>3. \A d \in DOMAIN saved'.windows : Quiet(d, saved.windows[d])'
  BY <1>1 DEF WindowInv
<1> QED
  BY <1>2, <1>3 DEF WindowInv

LEMMA InitWindows == SessionInit => WindowInv
<1> SUFFICES ASSUME SessionInit PROVE WindowInv
  OBVIOUS
<1>1. windows = << >> /\ saved.cursor = 0 /\ saved.windows = << >> /\ time = 1 /\ cursor = 0
  BY DEF SessionInit
<1>2. DOMAIN windows = {} /\ DOMAIN saved.windows = {}
  BY <1>1
<1>3. reported = {} /\ cut = FALSE
  BY DEF SessionInit
<1>4. 1 <= MaxNow /\ 0 <= PublishUntil
  BY SessionAssumption
<1> QED
  BY <1>1, <1>2, <1>3, <1>4 DEF WindowInv

\* The window a domain's events go to: the open one, or one that opens at the
\* first of them.
LEMMA IngestedSound ==
    ASSUME SessionTypes, WindowInv, NEW es \in SUBSET fetched, NEW d, NEW first,
           In(es, d) # {} => first \in In(es, d),
           d \in DOMAIN windows \/ In(es, d) # {}
    PROVE  Sound(d, Ingested(es, d, first))
<1> DEFINE open == IF d \in DOMAIN windows THEN windows[d]
                   ELSE [held |-> {}, opened |-> events[first].at,
                         last |-> events[first].at, trigger |-> FALSE]
<1>1. \A e \in In(es, d) : e \in 1..Len(events) /\ events[e].domain = d
  BY DEF In, SessionTypes
<1>2. Sound(d, open)
  <2>1. CASE d \in DOMAIN windows
    BY <2>1 DEF WindowInv
  <2>2. CASE d \notin DOMAIN windows
    <3>1. first \in 1..Len(events)
      BY <2>2, <1>1
    <3>2. events[first].at \in Nat
      BY <3>1, EventOfLog, SessionAssumption
    <3> QED
      BY <2>2, <3>2 DEF Sound
  <2> QED
    BY <2>1, <2>2
<1>3. CASE In(es, d) = {}
  BY <1>2, <1>3 DEF Ingested
<1>4. CASE In(es, d) # {}
  <2> DEFINE w == Ingested(es, d, first)
             breach == \E e \in In(es, d) : events[e].kind = BreachKind
             late == IF Latest(In(es, d)) > open.last THEN Latest(In(es, d)) ELSE open.last
  <2>1. w = [held |-> open.held \union In(es, d), opened |-> open.opened,
             last |-> late, trigger |-> open.trigger \/ breach]
    BY <1>4 DEF Ingested
  <2>2. /\ open \in [held : SUBSET (1..Len(events)), opened : Nat, last : Nat, trigger : BOOLEAN]
        /\ open.opened <= open.last
        /\ \A e \in open.held : events[e].domain = d /\ (events[e].kind = BreachKind => open.trigger)
    BY <1>2 DEF Sound
  <2>3. Latest(In(es, d)) \in Nat
    <3>1. In(es, d) \in SUBSET (1..Len(events))
      BY <1>1
    <3>2. Latest(In(es, d)) \in 0..PublishUntil
      BY <3>1, <1>4, LatestIsLatest
    <3> QED
      BY <3>2, SessionAssumption
  <2> HIDE DEF open
  <2>4. /\ open.held \in SUBSET (1..Len(events)) /\ open.opened \in Nat /\ open.last \in Nat
        /\ open.trigger \in BOOLEAN
    BY <2>2
  <2>5. late \in Nat /\ open.opened <= late
    BY <2>2, <2>3, <2>4
  <2>6. \A e \in In(es, d) : events[e].kind = BreachKind => breach
    OBVIOUS
  <2> HIDE DEF breach, late
  <2>7. PICK hot \in BOOLEAN : hot <=> (open.trigger \/ breach)
    OBVIOUS
  <2>8. (open.trigger \/ breach) = hot
    BY <2>7, Zenon
  <2>9. w = [held |-> open.held \union In(es, d), opened |-> open.opened, last |-> late, trigger |-> hot]
    BY <2>1, <2>8
  <2> HIDE DEF w
  <2>10. w \in [held : SUBSET (1..Len(events)), opened : Nat, last : Nat, trigger : BOOLEAN]
    BY <1>1, <2>4, <2>5, <2>9
  <2>11. w.held = open.held \union In(es, d) /\ w.opened <= w.last /\ w.trigger = hot
    BY <2>5, <2>9
  <2>12. \A e \in w.held : events[e].domain = d /\ (events[e].kind = BreachKind => hot)
    BY <1>1, <2>2, <2>6, <2>7, <2>11
  <2>13. Sound(d, w)
    BY <2>10, <2>11, <2>12 DEF Sound
  <2> QED
    BY <2>13 DEF w
<1> QED
  BY <1>3, <1>4

LEMMA FilledSound ==
    ASSUME SessionTypes, WindowInv, NEW es \in SUBSET fetched, NEW first \in Firsts(es)
    PROVE  /\ DOMAIN Filled(es, first) \subseteq Domains
           /\ \A d \in DOMAIN Filled(es, first) : Sound(d, Filled(es, first)[d])
<1>1. DOMAIN Filled(es, first) = DOMAIN windows \union {d \in Domains : In(es, d) # {}}
  BY DEF Filled
<1>2. DOMAIN Filled(es, first) \subseteq Domains
  BY <1>1 DEF WindowInv
<1>3. ASSUME NEW d \in DOMAIN Filled(es, first) PROVE Sound(d, Filled(es, first)[d])
  <2>1. Filled(es, first)[d] = Ingested(es, d, first[d])
    BY DEF Filled
  <2>2. In(es, d) # {} => first[d] \in In(es, d)
    BY <1>2 DEF Firsts
  <2>3. d \in DOMAIN windows \/ In(es, d) # {}
    BY <1>1
  <2>4. Sound(d, Ingested(es, d, first[d]))
    BY <2>2, <2>3, IngestedSound
  <2> QED
    BY <2>1, <2>4
<1> QED
  BY <1>2, <1>3

LEMMA IngestQuiet == SessionTypes /\ WindowInv /\ Ingest => WindowInv'
<1> SUFFICES ASSUME SessionTypes, WindowInv, Ingest PROVE WindowInv'
  OBVIOUS
<1>1. PICK first \in Firsts(fetched) :
          LET all == Filled(fetched, first)
          IN  WindowsClosed(all, {d \in DOMAIN all : ShouldClose(all[d])})
  BY DEF Ingest
<1> DEFINE all == Filled(fetched, first)
           ready == {d \in DOMAIN all : ShouldClose(all[d])}
<1>2. \A d \in DOMAIN all \ ready : ~all[d].trigger
  BY DEF ShouldClose
<1>3. DOMAIN all \subseteq Domains /\ \A d \in DOMAIN all : Sound(d, all[d])
  BY FilledSound
<1>4. /\ DOMAIN windows' = DOMAIN all \ ready
      /\ \A d \in DOMAIN windows' : windows'[d] = all[d]
  <2>1. windows' = [d \in DOMAIN all \ ready |-> all[d]]
    BY <1>1 DEF WindowsClosed
  <2> HIDE DEF all, ready
  <2> QED
    BY <2>1
<1> HIDE DEF all, ready
<1>5. /\ events' = events /\ time' = time /\ saved' = saved /\ reported' = reported /\ cut' = FALSE
  BY DEF Ingest, core, outcome
<1>6. cursor' <= PublishUntil
  <2>1. CASE fetched = {}
    BY <2>1 DEF Ingest, WindowInv
  <2>2. CASE fetched # {}
    <3>1. cursor' = Latest(fetched)
      BY <2>2 DEF Ingest
    <3>2. Latest(fetched) \in 0..PublishUntil
      BY <2>2, LatestIsLatest DEF SessionTypes
    <3> QED
      BY <3>1, <3>2
  <2> QED
    BY <2>1, <2>2
<1>7. \A d \in DOMAIN windows' : Sound(d, windows[d])' /\ ~windows'[d].trigger
  <2> SUFFICES ASSUME NEW d \in DOMAIN windows'
               PROVE  Sound(d, windows[d])' /\ ~windows'[d].trigger
    OBVIOUS
  <2>1. Sound(d, all[d]) /\ ~all[d].trigger /\ windows'[d] = all[d]
    BY <1>2, <1>3, <1>4
  <2>2. Sound(d, windows'[d])
    BY <2>1
  <2> QED
    BY <1>5, <2>1, <2>2 DEF Sound
<1>8. \A d \in DOMAIN saved'.windows : Quiet(d, saved.windows[d])'
  BY <1>5, QuietKept DEF WindowInv
<1> QED
  BY <1>3, <1>4, <1>5, <1>6, <1>7, <1>8 DEF WindowInv

LEMMA IngestRaiseQuiet == SessionTypes /\ WindowInv /\ IngestRaises => WindowInv'
<1> SUFFICES ASSUME SessionTypes, WindowInv, IngestRaises PROVE WindowInv'
  OBVIOUS
<1>1. PICK part \in SUBSET fetched : \E first \in Firsts(part) : windows' = Filled(part, first)
  BY DEF IngestRaises
<1>2. PICK first \in Firsts(part) : windows' = Filled(part, first)
  BY <1>1
<1>3. DOMAIN windows' \subseteq Domains /\ \A d \in DOMAIN windows' : Sound(d, windows'[d])
  BY <1>2, FilledSound
<1>4. /\ events' = events /\ time' = time /\ saved' = saved /\ reported' = reported
      /\ cut' = TRUE /\ stage' = "idle"
  BY DEF IngestRaises, core, outcome
<1>5. cursor' <= PublishUntil
  <2>1. cursor' = Latest(fetched) /\ fetched # {}
    BY DEF IngestRaises
  <2>2. Latest(fetched) \in 0..PublishUntil
    BY <2>1, LatestIsLatest DEF SessionTypes
  <2> QED
    BY <2>1, <2>2
<1>6. \A d \in DOMAIN windows' : Sound(d, windows[d])'
  BY <1>3, <1>4 DEF Sound
<1>7. \A d \in DOMAIN saved'.windows : Quiet(d, saved.windows[d])'
  BY <1>4, QuietKept DEF WindowInv
<1> QED
  BY <1>3, <1>4, <1>5, <1>6, <1>7 DEF WindowInv

\* get_state keeps each window without its events.
LEMMA SaveQuiet ==
    ASSUME SessionTypes, WindowInv, NEW ok \in BOOLEAN, SaveState(ok)
    PROVE  WindowInv'
<1> DEFINE stored == [d \in DOMAIN windows |-> [windows[d] EXCEPT !.held = {}]]
<1>1. \A d \in DOMAIN windows : Quiet(d, stored[d])
  <2> SUFFICES ASSUME NEW d \in DOMAIN windows PROVE Quiet(d, stored[d])
    OBVIOUS
  <2>1. Sound(d, windows[d]) /\ ~windows[d].trigger
    BY DEF WindowInv, SaveState
  <2>2. stored[d] = [windows[d] EXCEPT !.held = {}]
    OBVIOUS
  <2> HIDE DEF stored
  <2>3. /\ stored[d] \in [held : SUBSET (1..Len(events)), opened : Nat, last : Nat, trigger : BOOLEAN]
        /\ stored[d].held = {} /\ stored[d].opened <= stored[d].last
        /\ stored[d].trigger = windows[d].trigger
    BY <2>1, <2>2 DEF Sound
  <2> QED
    BY <2>1, <2>3 DEF Sound, Quiet
<1>2. DOMAIN stored = DOMAIN windows
  OBVIOUS
<1>3. saved' = saved \/ saved' = [cursor |-> cursor, windows |-> stored]
  BY DEF SaveState
<1> HIDE DEF stored
<1>4. \/ saved'.windows = saved.windows /\ saved'.cursor = saved.cursor
      \/ saved'.windows = stored /\ saved'.cursor = cursor
  BY <1>3
<1>5. /\ events' = events /\ time' = time /\ cursor' = cursor /\ windows' = windows
      /\ reported' = reported /\ cut' = cut /\ stage' = "idle"
  BY DEF SaveState, core, outcome
<1>6. \A d, w : Quiet(d, w) => Quiet(d, w)'
  BY <1>5, QuietKept
<1>7. \A d \in DOMAIN windows' : Sound(d, windows[d])' /\ (~cut' => ~windows'[d].trigger)
  BY <1>5, SoundKept DEF WindowInv
<1>8. \A d \in DOMAIN saved'.windows : Quiet(d, saved.windows[d])'
  BY <1>1, <1>2, <1>4, <1>6 DEF WindowInv
<1> QED
  BY <1>2, <1>4, <1>5, <1>7, <1>8 DEF WindowInv

\* The log only grows, so what a window holds keeps its domain and kind.
LEMMA PublishQuiet == SessionTypes /\ WindowInv /\ Publish => WindowInv'
<1> SUFFICES ASSUME SessionTypes, WindowInv, Publish PROVE WindowInv'
  OBVIOUS
<1>1. PICK k \in Kinds, d \in Domains : events' = Append(events, [kind |-> k, domain |-> d, at |-> time])
  BY DEF Publish
<1>2. [kind |-> k, domain |-> d, at |-> time] \in Event
  BY SessionAssumption DEF Event, Publish, SessionTypes
<1>3. /\ Len(events) \in Nat /\ Len(events') = Len(events) + 1
      /\ \A e \in 1..Len(events) : events'[e] = events[e]
  BY <1>1, <1>2 DEF SessionTypes
<1>4. ASSUME NEW d1, NEW w, Sound(d1, w) PROVE Sound(d1, w)'
  <2>1. w.held \subseteq 1..Len(events)
    BY <1>4 DEF Sound
  <2>2. 1..Len(events) \subseteq 1..Len(events')
    BY <1>3
  <2>3. w \in [held : SUBSET (1..Len(events')), opened : Nat, last : Nat, trigger : BOOLEAN]
    BY <1>4, <2>2 DEF Sound
  <2>4. \A e \in w.held : events'[e].domain = d1 /\ (events'[e].kind = BreachKind => w.trigger)
    BY <1>3, <1>4, <2>1 DEF Sound
  <2> QED
    BY <1>4, <2>3, <2>4 DEF Sound
<1>5. /\ time' = time /\ cursor' = cursor /\ windows' = windows /\ saved' = saved
      /\ reported' = reported /\ cut' = cut /\ stage' = stage
  BY DEF Publish, outcome, cycleVars
<1>6. \A d1 \in DOMAIN windows' : Sound(d1, windows[d1])' /\ (~cut' => ~windows'[d1].trigger)
  <2>1. \A d1 \in DOMAIN windows : Sound(d1, windows[d1]) /\ (~cut => ~windows[d1].trigger)
    BY DEF WindowInv
  <2> QED
    BY <1>4, <1>5, <2>1
<1>7. \A d1 \in DOMAIN saved'.windows : Quiet(d1, saved.windows[d1])'
  <2>1. \A d1 \in DOMAIN saved.windows : Sound(d1, saved.windows[d1]) /\ ~saved.windows[d1].trigger
    BY DEF WindowInv, Quiet
  <2> QED
    BY <1>4, <1>5, <2>1 DEF Quiet
<1> QED
  BY <1>5, <1>6, <1>7 DEF WindowInv

LEMMA WindowsStayQuiet == SessionTypes /\ WindowInv /\ [SessionNext]_sessionVars => WindowInv'
<1> SUFFICES ASSUME SessionTypes, WindowInv, [SessionNext]_sessionVars PROVE WindowInv'
  OBVIOUS
<1>1. CASE Publish
  BY <1>1, PublishQuiet
<1>2. CASE SessionTick
  <2>1. time' <= MaxNow
    BY <1>2, SessionAssumption DEF SessionTick, SessionTypes
  <2> QED
    BY <1>2, <2>1, WindowsKept DEF SessionTick, outcome, WindowInv
<1>3. CASE CorrelateCrash \/ StartPolling \/ PollRaises
  BY <1>3, WindowsKept DEF CorrelateCrash, StartPolling, PollRaises, core, outcome, WindowInv
<1>4. CASE Ingest \/ IngestRaises
  BY <1>4, IngestQuiet, IngestRaiseQuiet
<1>5. CASE RestoreSession
  <2>1. /\ events' = events /\ time' = time /\ saved' = saved /\ reported' = reported
        /\ cursor' = saved.cursor /\ windows' = saved.windows /\ cut' = FALSE
    BY <1>5 DEF RestoreSession, core, outcome
  <2>2. \A d, w : Quiet(d, w) => Quiet(d, w)'
    BY <2>1, QuietKept
  <2>3. \A d \in DOMAIN windows' : Sound(d, windows[d])' /\ ~windows'[d].trigger
    BY <2>1, SoundKept DEF WindowInv, Quiet
  <2>4. \A d \in DOMAIN saved'.windows : Quiet(d, saved.windows[d])'
    BY <2>1, <2>2 DEF WindowInv
  <2> QED
    BY <2>1, <2>3, <2>4 DEF WindowInv
<1>6. ASSUME NEW ok \in BOOLEAN, NEW k \in Kinds, Poll(k, ok) PROVE WindowInv'
  BY <1>6, WindowsKept DEF Poll, core, outcome, WindowInv
<1>7. ASSUME NEW ok \in BOOLEAN, NEW d \in Domains, EmitSnapshot(d, ok) PROVE WindowInv'
  <2>1. {} \notin reported'
    BY <1>7 DEF EmitSnapshot, WindowInv
  <2> QED
    BY <1>7, <2>1, WindowsKept DEF EmitSnapshot, core, WindowInv
<1>8. ASSUME NEW ok \in BOOLEAN, SaveState(ok) PROVE WindowInv'
  BY <1>8, SaveQuiet
<1>9. CASE UNCHANGED sessionVars
  BY <1>9, WindowsKept DEF sessionVars, WindowInv
<1> QED
  BY <1>1, <1>2, <1>3, <1>4, <1>5, <1>6, <1>7, <1>8, <1>9 DEF SessionNext, SessionStep

LEMMA WindowInvariant == SessionSpec => [](SessionInv /\ WindowInv)
<1>1. SessionInv => SessionTypes
  BY DEF SessionInv
<1> QED
  BY <1>1, SessionInvariant, InitWindows, WindowsStayQuiet, PTL DEF SessionSpec

LEMMA QuietTypes == SessionInv /\ WindowInv => SessionTypeOK
<1> SUFFICES ASSUME SessionInv, WindowInv PROVE SessionTypeOK
  OBVIOUS
<1>1. SessionTypes
  BY DEF SessionInv
<1>2. time \in 0..MaxNow /\ cursor \in 0..PublishUntil + 1
  BY <1>1, SessionAssumption DEF SessionTypes, WindowInv
<1>3. \A d \in DOMAIN windows :
          /\ windows[d].held \subseteq {e \in DOMAIN events : events[e].domain = d}
          /\ windows[d].opened <= windows[d].last
  <2> SUFFICES ASSUME NEW d \in DOMAIN windows
               PROVE  /\ windows[d].held \subseteq {e \in DOMAIN events : events[e].domain = d}
                      /\ windows[d].opened <= windows[d].last
    OBVIOUS
  <2>1. Sound(d, windows[d])
    BY DEF WindowInv
  <2>2. DOMAIN events = 1..Len(events)
    BY <1>1 DEF SessionTypes
  <2>3. windows[d].held \subseteq 1..Len(events)
    BY <2>1 DEF Sound
  <2> QED
    BY <2>1, <2>2, <2>3 DEF Sound
<1>4. \A s \in reported : s # {}
  BY DEF WindowInv
<1> QED
  BY <1>1, <1>2, <1>3, <1>4 DEF SessionTypeOK, SessionTypes, WindowInv

LEMMA QuietCloses == WindowInv => BreachClosesWindow
<1> SUFFICES ASSUME WindowInv, ~cut, NEW d \in DOMAIN windows
             PROVE  ~windows[d].trigger /\ \A e \in windows[d].held : events[e].kind # BreachKind
  BY DEF BreachClosesWindow
<1>1. Sound(d, windows[d]) /\ ~windows[d].trigger
  BY DEF WindowInv
<1> QED
  BY <1>1 DEF Sound

\* The variables of the correlate worker keep their types through every restart,
\* and no snapshot is empty.
THEOREM SessionTypeCorrect == SessionSpec => []SessionTypeOK
BY WindowInvariant, QuietTypes, PTL

\* No cycle that ran to its end leaves a quality breach in an open window, also
\* after a restart whose stored windows have lost their events: the step that
\* ingests a breach closes its window, an ingestion that raises stores nothing,
\* and only what a cycle has left is ever stored.
THEOREM BreachCloses == SessionSpec => []BreachClosesWindow
BY WindowInvariant, QuietCloses, PTL

-----------------------------------------------------------------------------
(* LearnWorkers: its inductive invariant. *)

Verdict == [status : Outcomes, evidence : SUBSET {"execution", "overridden"}]
Listing == [verdict : Nat, status : Outcomes]
Work == [verdict : Nat, resolution : {"none", "confirmed", "overridden"},
         step : {"none", "attempt", "resolve", "signal", "expire"}]
Signal == [verdict : Nat, outcome : Outcomes]

OutcomeTypes ==
    /\ verdicts \in Seq(Verdict) /\ lpage \in Seq(Listing)
    /\ current \in Work /\ signals \in Seq(Signal)
    /\ mature \in 0..Len(verdicts) /\ lcursor \in Nat /\ learnSaved.outcome \in Nat

\* What is left of a page is still as it was listed, each verdict once and none of
\* them in work: nobody else resolves a verdict.
PageFresh(vs, page, work) ==
    /\ \A i \in 1..Len(page) :
           /\ page[i].verdict \in 1..Len(vs)
           /\ page[i].status = vs[page[i].verdict].status
           /\ page[i].verdict # work.verdict
    /\ \A i, j \in 1..Len(page) : page[i].verdict = page[j].verdict => i = j

\* The verdict in work is pending until core has its resolution, and then has no
\* signal yet.
WorkOpen(vs, work, sent) ==
    /\ work.step = "none" => work.verdict = 0
    /\ work.step # "none" => work.verdict \in 1..Len(vs)
    /\ work.step \in {"attempt", "resolve", "expire"} => vs[work.verdict].status = "pending"
    /\ work.step \in {"resolve", "signal"} => work.resolution \in {"confirmed", "overridden"}
    /\ work.step = "signal" =>
           /\ vs[work.verdict].status = work.resolution
           /\ \A i \in 1..Len(sent) : sent[i].verdict # work.verdict

SentTrue(vs, sent) ==
    /\ \A i \in 1..Len(sent) : sent[i].verdict \in 1..Len(vs) /\ sent[i].outcome # "pending"
                               /\ vs[sent[i].verdict].status = sent[i].outcome
    /\ \A i, j \in 1..Len(sent) : sent[i].verdict = sent[j].verdict => i = j

OutcomeFacts(vs, page, work, sent) ==
    PageFresh(vs, page, work) /\ WorkOpen(vs, work, sent) /\ SentTrue(vs, sent)

LearnInv == OutcomeTypes /\ OutcomeFacts(verdicts, lpage, current, signals)

-----------------------------------------------------------------------------

LEMMA NoneIsWork == None \in Work /\ None.verdict = 0 /\ None.step = "none"
  BY DEF None, Work

\* A change of one verdict's status.
LEMMA StatusChange ==
    ASSUME NEW vs \in Seq(Verdict), NEW v \in 1..Len(vs), NEW s \in Outcomes
    PROVE  LET new == [vs EXCEPT ![v].status = s] IN
           /\ new \in Seq(Verdict) /\ Len(new) = Len(vs) /\ new[v].status = s
           /\ \A w \in 1..Len(vs) : w # v => new[w] = vs[w]
<1>1. vs[v] \in Verdict
  BY ElementOfSeq
<1>2. PICK e : e = [vs[v] EXCEPT !.status = s]
  OBVIOUS
<1>3. e \in Verdict /\ e.status = s
  BY <1>1, <1>2 DEF Verdict
<1>4. [vs EXCEPT ![v].status = s] = [vs EXCEPT ![v] = e]
  BY <1>2
<1> QED
  BY <1>3, <1>4, ExceptSeq

\* The facts carry over to verdicts whose statuses are the same.
LEMMA SameStatuses ==
    ASSUME OutcomeTypes, LearnInv, NEW vs,
           Len(vs) \in Nat, Len(verdicts) <= Len(vs),
           \A v \in 1..Len(verdicts) : vs[v].status = verdicts[v].status
    PROVE  OutcomeFacts(vs, lpage, current, signals)
<1>1. \A v \in 1..Len(verdicts) : v \in 1..Len(vs)
  BY DEF OutcomeTypes
<1>2. PageFresh(vs, lpage, current)
  BY <1>1 DEF LearnInv, OutcomeFacts, PageFresh
<1>3. WorkOpen(vs, current, signals)
  BY <1>1 DEF LearnInv, OutcomeFacts, WorkOpen
<1>4. SentTrue(vs, signals)
  BY <1>1 DEF LearnInv, OutcomeFacts, SentTrue
<1> QED
  BY <1>2, <1>3, <1>4 DEF OutcomeFacts

LEMMA InitLearn == LearnInit => LearnInv
<1> SUFFICES ASSUME LearnInit PROVE LearnInv
  OBVIOUS
<1>1. OutcomeTypes
  BY NoneIsWork DEF LearnInit, OutcomeTypes
<1>2. Len(lpage) = 0 /\ Len(signals) = 0 /\ current.step = "none" /\ current.verdict = 0
  BY NoneIsWork DEF LearnInit
<1> QED
  BY <1>1, <1>2 DEF LearnInv, OutcomeFacts, PageFresh, WorkOpen, SentTrue

\* Publishing, evidence and time change no status.
LEMMA StatusesKept ==
    ASSUME OutcomeTypes, NewVerdict \/ NewEvidence \/ Aging
    PROVE  /\ verdicts' \in Seq(Verdict) /\ Len(verdicts) <= Len(verdicts')
           /\ mature' \in 0..Len(verdicts')
           /\ \A v \in 1..Len(verdicts) : verdicts'[v].status = verdicts[v].status
<1>1. DOMAIN verdicts = 1..Len(verdicts) /\ Len(verdicts) \in Nat
  BY DEF OutcomeTypes
<1>2. CASE NewVerdict
  <2>1. [status |-> "pending", evidence |-> {}] \in Verdict
    BY DEF Verdict, Outcomes
  <2> QED
    BY <1>1, <1>2, <2>1 DEF NewVerdict, OutcomeTypes
<1>3. CASE NewEvidence
  <2>1. PICK v \in 1..Len(verdicts), d \in {"execution", "overridden"} :
            verdicts' = [verdicts EXCEPT ![v].evidence = @ \union {d}]
    BY <1>1, <1>3 DEF NewEvidence
  <2>2. verdicts[v] \in Verdict
    BY <1>1, ElementOfSeq DEF OutcomeTypes
  <2>3. PICK e : e = [verdicts[v] EXCEPT !.evidence = @ \union {d}]
    OBVIOUS
  <2>4. e \in Verdict /\ e.status = verdicts[v].status
    BY <2>2, <2>3 DEF Verdict
  <2>5. verdicts' = [verdicts EXCEPT ![v] = e]
    BY <2>1, <2>3
  <2>6. /\ verdicts' \in Seq(Verdict) /\ Len(verdicts') = Len(verdicts)
        /\ \A w \in 1..Len(verdicts) : verdicts'[w].status = verdicts[w].status
    BY <1>1, <2>4, <2>5, ExceptSeq DEF OutcomeTypes
  <2> QED
    BY <1>1, <1>3, <2>6 DEF NewEvidence, OutcomeTypes
<1>4. CASE Aging
  BY <1>1, <1>4 DEF Aging, OutcomeTypes
<1> QED
  BY <1>2, <1>3, <1>4

\* Whoever publishes, finds evidence or lets time pass leaves the module's view alone.
LEMMA OthersKeep ==
    ASSUME LearnInv, NewVerdict \/ NewEvidence \/ Aging
    PROVE  LearnInv'
<1>1. /\ UNCHANGED <<lpage, current, signals, lcursor, learnSaved>>
      /\ OutcomeTypes /\ DOMAIN verdicts = 1..Len(verdicts) /\ Len(verdicts) \in Nat
  BY DEF NewVerdict, NewEvidence, Aging, LearnInv, OutcomeTypes
<1>2. /\ verdicts' \in Seq(Verdict) /\ Len(verdicts) <= Len(verdicts') /\ mature' \in 0..Len(verdicts')
      /\ \A v \in 1..Len(verdicts) : verdicts'[v].status = verdicts[v].status
  BY <1>1, StatusesKept
<1>3. OutcomeTypes'
  BY <1>1, <1>2 DEF OutcomeTypes
<1>4. Len(verdicts') \in Nat
  BY <1>2
<1>5. OutcomeFacts(verdicts', lpage, current, signals)
  BY <1>1, <1>2, <1>4, SameStatuses
<1> QED
  BY <1>1, <1>3, <1>5 DEF LearnInv

LEMMA FetchKeeps == ASSUME LearnInv, FetchVerdicts PROVE LearnInv'
<1>1. OutcomeTypes /\ OutcomeFacts(verdicts, lpage, current, signals)
  BY DEF LearnInv
<1>2. PICK n \in Nat :
          /\ n <= mature - lcursor
          /\ lpage' = [k \in 1..n |-> [verdict |-> MatureAt(k),
                                       status |-> verdicts[MatureAt(k)].status]]
  BY <1>1, LearnBounds DEF FetchVerdicts, OutcomeTypes
<1>3. \A k \in 1..n : MatureAt(k) \in 1..Len(verdicts)
  BY <1>1, <1>2 DEF OutcomeTypes, MatureAt
<1>4. \A k \in 1..n : verdicts[MatureAt(k)].status \in Outcomes
  <2>1. \A k \in 1..n : verdicts[MatureAt(k)] \in Verdict
    BY <1>1, <1>3, ElementOfSeq DEF OutcomeTypes
  <2> QED
    BY <2>1 DEF Verdict
<1>5. \A k \in 1..n : [verdict |-> MatureAt(k), status |-> verdicts[MatureAt(k)].status] \in Listing
  <2> TAKE k \in 1..n
  <2>1. MatureAt(k) \in Nat
    BY <1>1, <1>3 DEF OutcomeTypes
  <2>2. verdicts[MatureAt(k)].status \in Outcomes
    BY <1>4
  <2> QED
    BY <2>1, <2>2 DEF Listing
<1>6. /\ lpage' \in Seq(Listing) /\ Len(lpage') = n
      /\ \A k \in 1..n : /\ lpage'[k].verdict = MatureAt(k)
                         /\ lpage'[k].status = verdicts[MatureAt(k)].status
  BY <1>2, <1>5
<1>7. UNCHANGED <<verdicts, mature, lcursor, current, signals, learnSaved>>
  BY DEF FetchVerdicts
<1>8. current.verdict = 0
  BY NoneIsWork DEF FetchVerdicts
<1>9. PageFresh(verdicts, lpage', current)
  <2>1. lcursor \in Nat /\ mature \in Nat /\ Len(lpage') = n
    BY <1>1, <1>6 DEF OutcomeTypes
  <2>2. \A i, j \in 1..n : MatureAt(i) = MatureAt(j) => i = j
    BY <2>1 DEF MatureAt
  <2>3. \A k \in 1..n : /\ lpage'[k].verdict \in 1..Len(verdicts)
                        /\ lpage'[k].status = verdicts[lpage'[k].verdict].status
                        /\ lpage'[k].verdict # current.verdict
    BY <1>1, <1>3, <1>6, <1>8 DEF OutcomeTypes
  <2>4. \A i, j \in 1..n : lpage'[i].verdict = lpage'[j].verdict => i = j
    BY <1>6, <2>2
  <2> QED
    BY <2>1, <2>3, <2>4 DEF PageFresh
<1> QED
  BY <1>1, <1>6, <1>7, <1>9 DEF LearnInv, OutcomeTypes, OutcomeFacts

LEMMA NextKeeps == ASSUME LearnInv, NextVerdict PROVE LearnInv'
<1>1. OutcomeTypes /\ OutcomeFacts(verdicts, lpage, current, signals)
  BY DEF LearnInv
<1>2. UNCHANGED <<verdicts, mature, lcursor, signals, learnSaved>>
  BY DEF NextVerdict
<1>3. /\ lpage' = Tail(lpage) /\ lpage' \in Seq(Listing) /\ Len(lpage') = Len(lpage) - 1
      /\ \A i \in 1..Len(lpage') : lpage'[i] = lpage[i + 1]
      /\ Head(lpage) = lpage[1] /\ Len(lpage) \in Nat \ {0}
  BY <1>1, HeadTailProperties, EmptySeq DEF NextVerdict, OutcomeTypes
<1>4. lpage[1] \in Listing
  BY <1>1, <1>3, ElementOfSeq DEF OutcomeTypes
<1>5. \/ current' = None
      \/ /\ lpage[1].status = "pending" /\ current'.verdict = lpage[1].verdict
         /\ current'.step = "attempt" /\ current' \in Work
  <2>1. lpage[1].verdict \in Nat
    BY <1>4 DEF Listing
  <2>2. CASE lpage[1].status = "pending"
    <3>1. current' = [None EXCEPT !.verdict = lpage[1].verdict, !.step = "attempt"]
      BY <1>3, <2>2 DEF NextVerdict
    <3> QED
      BY <2>1, <2>2, <3>1 DEF None, Work
  <2>3. CASE lpage[1].status # "pending"
    BY <1>3, <2>3 DEF NextVerdict
  <2> QED
    BY <2>2, <2>3
<1>6. OutcomeTypes'
  BY <1>1, <1>2, <1>3, <1>5, NoneIsWork DEF OutcomeTypes
<1>7. PageFresh(verdicts, lpage', current')
  <2>1. \A i \in 1..Len(lpage') : i + 1 \in 1..Len(lpage) /\ i + 1 # 1
    BY <1>3
  <2>2. \A i \in 1..Len(lpage') : lpage'[i].verdict # current'.verdict
    <3>1. 1 \in 1..Len(lpage)
      BY <1>3
    <3>2. \A i \in 1..Len(lpage') : lpage'[i].verdict # lpage[1].verdict
      BY <1>1, <1>3, <2>1, <3>1 DEF OutcomeFacts, PageFresh
    <3>3. \A i \in 1..Len(lpage') : lpage'[i].verdict # 0
      BY <1>1, <1>3, <2>1 DEF OutcomeFacts, PageFresh
    <3> QED
      BY <1>5, <3>2, <3>3, NoneIsWork
  <2>3. \A i, j \in 1..Len(lpage') : lpage'[i].verdict = lpage'[j].verdict => i = j
    <3> TAKE i, j \in 1..Len(lpage')
    <3>1. lpage'[i].verdict = lpage'[j].verdict => i + 1 = j + 1
      BY <1>1, <1>3, <2>1 DEF OutcomeFacts, PageFresh
    <3> QED
      BY <1>3, <3>1
  <2> QED
    BY <1>1, <1>3, <2>1, <2>2, <2>3 DEF OutcomeFacts, PageFresh
<1>8. WorkOpen(verdicts, current', signals)
  <2>1. 1 \in 1..Len(lpage)
    BY <1>3
  <2>2. lpage[1].verdict \in 1..Len(verdicts) /\ lpage[1].status = verdicts[lpage[1].verdict].status
    BY <1>1, <2>1 DEF OutcomeFacts, PageFresh
  <2> QED
    BY <1>5, <2>2, NoneIsWork DEF WorkOpen
<1> QED
  BY <1>1, <1>2, <1>6, <1>7, <1>8 DEF LearnInv, OutcomeFacts

LEMMA AttemptKeeps == ASSUME LearnInv, NEW ok \in BOOLEAN, Attempt(ok) PROVE LearnInv'
<1>1. OutcomeTypes /\ OutcomeFacts(verdicts, lpage, current, signals)
  BY DEF LearnInv
<1>2. UNCHANGED <<verdicts, mature, lpage, signals, learnSaved>> /\ current.step = "attempt"
  BY DEF Attempt
<1>3. \/ \E r \in {"confirmed", "overridden"} :
             current' = [current EXCEPT !.step = "resolve", !.resolution = r]
      \/ current' = [current EXCEPT !.step = "expire"]
      \/ current' = None
  BY DEF Attempt
<1>4. /\ current' \in Work
      /\ \/ current' = None
         \/ /\ current'.verdict = current.verdict
            /\ \/ current'.step = "expire"
               \/ current'.step = "resolve" /\ current'.resolution \in {"confirmed", "overridden"}
  BY <1>1, <1>3, NoneIsWork DEF OutcomeTypes, Work
<1>5. lcursor' \in Nat
  BY <1>1 DEF Attempt, Advance, OutcomeTypes, Work
<1>6. PageFresh(verdicts, lpage, current')
  BY <1>1, <1>4, NoneIsWork DEF OutcomeFacts, PageFresh
<1>7. WorkOpen(verdicts, current', signals)
  BY <1>1, <1>2, <1>4, NoneIsWork DEF OutcomeFacts, WorkOpen
<1> QED
  BY <1>1, <1>2, <1>4, <1>5, <1>6, <1>7 DEF LearnInv, OutcomeTypes, OutcomeFacts

\* The verdict in work gets a status; the others, the page and the signals do not
\* meet it.
LEMMA ResolutionKeeps ==
    ASSUME LearnInv, NEW s \in Outcomes, NEW vs, NEW work,
           current.step \in {"resolve", "expire"},
           vs \in Seq(Verdict), Len(vs) = Len(verdicts), vs[current.verdict].status = s,
           \A w \in 1..Len(verdicts) : w # current.verdict => vs[w] = verdicts[w],
           \/ work = None
           \/ /\ work.verdict = current.verdict /\ work.step = "signal"
              /\ work.resolution = s /\ s \in {"confirmed", "overridden"}
    PROVE  OutcomeFacts(vs, lpage, work, signals)
<1>1. OutcomeTypes /\ OutcomeFacts(verdicts, lpage, current, signals)
  BY DEF LearnInv
<1>2. current.verdict \in 1..Len(verdicts) /\ verdicts[current.verdict].status = "pending"
  BY <1>1 DEF OutcomeFacts, WorkOpen
<1>4. \A i \in 1..Len(signals) : signals[i].verdict # current.verdict
  BY <1>1, <1>2 DEF OutcomeFacts, SentTrue
<1>5. PageFresh(vs, lpage, work)
  BY <1>1, <1>2, NoneIsWork DEF OutcomeFacts, PageFresh
<1>6. WorkOpen(vs, work, signals)
  BY <1>2, <1>4, NoneIsWork DEF WorkOpen
<1>7. SentTrue(vs, signals)
  BY <1>1, <1>2, <1>4 DEF OutcomeFacts, SentTrue
<1> QED
  BY <1>5, <1>6, <1>7 DEF OutcomeFacts

\* Work that ends without an answer of core changes nothing else.
LEMMA WorkDropped ==
    ASSUME LearnInv
    PROVE  OutcomeFacts(verdicts, lpage, None, signals)
<1>1. OutcomeTypes /\ OutcomeFacts(verdicts, lpage, current, signals)
  BY DEF LearnInv
<1>2. PageFresh(verdicts, lpage, None)
  BY <1>1, NoneIsWork DEF OutcomeFacts, PageFresh
<1>3. WorkOpen(verdicts, None, signals)
  BY NoneIsWork DEF WorkOpen
<1> QED
  BY <1>1, <1>2, <1>3 DEF OutcomeFacts

LEMMA ResolveKeeps == ASSUME LearnInv, NEW ok \in BOOLEAN, ResolveOutcome(ok) PROVE LearnInv'
<1>1. OutcomeTypes /\ OutcomeFacts(verdicts, lpage, current, signals)
  BY DEF LearnInv
<1>2. UNCHANGED <<mature, lcursor, lpage, signals, learnSaved>> /\ current.step = "resolve"
  BY DEF ResolveOutcome
<1>3. CASE ok
  <2>1. /\ verdicts' = [verdicts EXCEPT ![current.verdict].status = current.resolution]
        /\ current' = [current EXCEPT !.step = "signal"]
    BY <1>3 DEF ResolveOutcome
  <2>2. current.resolution \in {"confirmed", "overridden"}
    BY <1>1, <1>2 DEF OutcomeFacts, WorkOpen
  <2>3. /\ current' \in Work /\ current'.verdict = current.verdict /\ current'.step = "signal"
        /\ current'.resolution = current.resolution
    BY <1>1, <2>1 DEF OutcomeTypes, Work
  <2>4. verdicts' \in Seq(Verdict) /\ Len(verdicts') = Len(verdicts)
        /\ OutcomeFacts(verdicts', lpage, current', signals)
    <3>1. current.resolution \in Outcomes
      BY <2>2 DEF Outcomes
    <3>2. current.step \in {"resolve", "expire"}
      BY <1>2
    <3>3. current.verdict \in 1..Len(verdicts) /\ verdicts \in Seq(Verdict)
      BY <1>1, <1>2 DEF OutcomeFacts, WorkOpen, OutcomeTypes
    <3>4. /\ verdicts' \in Seq(Verdict) /\ Len(verdicts') = Len(verdicts)
          /\ verdicts'[current.verdict].status = current.resolution
          /\ \A w \in 1..Len(verdicts) : w # current.verdict => verdicts'[w] = verdicts[w]
      BY <2>1, <3>1, <3>3, StatusChange
    <3> QED
      BY <2>2, <2>3, <3>1, <3>2, <3>4, ResolutionKeeps
  <2> QED
    BY <1>1, <1>2, <2>3, <2>4 DEF LearnInv, OutcomeTypes
<1>4. CASE ~ok
  <2>1. verdicts' = verdicts /\ current' = None
    BY <1>4 DEF ResolveOutcome
  <2> QED
    BY <1>1, <1>2, <2>1, WorkDropped, NoneIsWork DEF LearnInv, OutcomeTypes
<1> QED
  BY <1>3, <1>4

LEMMA ExpireKeeps == ASSUME LearnInv, NEW ok \in BOOLEAN, Expire(ok) PROVE LearnInv'
<1>1. OutcomeTypes /\ OutcomeFacts(verdicts, lpage, current, signals)
  BY DEF LearnInv
<1>2. UNCHANGED <<mature, lpage, signals, learnSaved>> /\ current.step = "expire" /\ current' = None
  BY DEF Expire
<1>3. lcursor' \in Nat
  BY <1>1 DEF Expire, Advance, OutcomeTypes, Work
<1>4. CASE ok
  <2>1. verdicts' = [verdicts EXCEPT ![current.verdict].status = "expired"]
    BY <1>4 DEF Expire
  <2>2. verdicts' \in Seq(Verdict) /\ Len(verdicts') = Len(verdicts)
        /\ OutcomeFacts(verdicts', lpage, None, signals)
    <3>1. "expired" \in Outcomes
      BY DEF Outcomes
    <3>2. current.step \in {"resolve", "expire"}
      BY <1>2
    <3>3. current.verdict \in 1..Len(verdicts) /\ verdicts \in Seq(Verdict)
      BY <1>1, <1>2 DEF OutcomeFacts, WorkOpen, OutcomeTypes
    <3>4. /\ verdicts' \in Seq(Verdict) /\ Len(verdicts') = Len(verdicts)
          /\ verdicts'[current.verdict].status = "expired"
          /\ \A w \in 1..Len(verdicts) : w # current.verdict => verdicts'[w] = verdicts[w]
      BY <2>1, <3>1, <3>3, StatusChange
    <3> QED
      BY <3>1, <3>2, <3>4, ResolutionKeeps
  <2> QED
    BY <1>1, <1>2, <1>3, <2>2, NoneIsWork DEF LearnInv, OutcomeTypes
<1>5. CASE ~ok
  <2>1. verdicts' = verdicts
    BY <1>5 DEF Expire
  <2> QED
    BY <1>1, <1>2, <1>3, <2>1, WorkDropped, NoneIsWork DEF LearnInv, OutcomeTypes
<1> QED
  BY <1>4, <1>5

LEMMA SignalKeeps == ASSUME LearnInv, NEW ok \in BOOLEAN, EmitSignal(ok) PROVE LearnInv'
<1>1. OutcomeTypes /\ OutcomeFacts(verdicts, lpage, current, signals)
  BY DEF LearnInv
<1>2. /\ UNCHANGED <<verdicts, mature, lcursor, lpage, learnSaved>>
      /\ current.step = "signal" /\ current' = None
  BY DEF EmitSignal
<1>3. OutcomeFacts(verdicts, lpage, None, signals)
  BY WorkDropped
<1>4. CASE ok
  <2>1. PICK x : x = [verdict |-> current.verdict, outcome |-> current.resolution]
    OBVIOUS
  <2>2. /\ current.verdict \in 1..Len(verdicts)
        /\ verdicts[current.verdict].status = current.resolution
        /\ current.resolution \in {"confirmed", "overridden"}
        /\ \A i \in 1..Len(signals) : signals[i].verdict # current.verdict
    BY <1>1, <1>2 DEF OutcomeFacts, WorkOpen
  <2>3. x \in Signal /\ x.verdict = current.verdict /\ x.outcome = current.resolution
    BY <1>1, <2>1, <2>2 DEF Signal, OutcomeTypes, Work, Outcomes
  <2>4. signals' = Append(signals, x)
    BY <1>4, <2>1 DEF EmitSignal
  <2>5. /\ signals' \in Seq(Signal) /\ Len(signals') = Len(signals) + 1 /\ Len(signals) \in Nat
        /\ signals'[Len(signals) + 1] = x
        /\ \A i \in 1..Len(signals) : signals'[i] = signals[i]
    BY <1>1, <2>3, <2>4 DEF OutcomeTypes
  <2>6. SentTrue(verdicts, signals')
    <3>1. \A i \in 1..Len(signals') : i \in 1..Len(signals) \/ i = Len(signals) + 1
      BY <2>5
    <3>2. SentTrue(verdicts, signals)
      BY <1>1 DEF OutcomeFacts
    <3>3. x.verdict \in 1..Len(verdicts) /\ x.outcome # "pending"
          /\ verdicts[x.verdict].status = x.outcome
          /\ \A i \in 1..Len(signals) : signals[i].verdict # x.verdict
      BY <2>2, <2>3
    <3> QED
      BY <2>5, <3>1, <3>2, <3>3 DEF SentTrue
  <2>7. WorkOpen(verdicts, None, signals')
    BY NoneIsWork DEF WorkOpen
  <2> QED
    BY <1>1, <1>2, <1>3, <2>5, <2>6, <2>7, NoneIsWork DEF LearnInv, OutcomeTypes, OutcomeFacts
<1>5. CASE ~ok
  <2>1. signals' = signals
    BY <1>5 DEF EmitSignal
  <2> QED
    BY <1>1, <1>2, <1>3, <2>1, NoneIsWork DEF LearnInv, OutcomeTypes
<1> QED
  BY <1>4, <1>5

LEMMA CrashKeeps == ASSUME LearnInv, LearnCrash PROVE LearnInv'
<1>1. OutcomeTypes /\ OutcomeFacts(verdicts, lpage, current, signals)
  BY DEF LearnInv
<1>2. /\ UNCHANGED <<verdicts, mature, signals, learnSaved>>
      /\ lcursor' = learnSaved.outcome /\ lpage' = << >> /\ current' = None
  BY DEF LearnCrash
<1>3. PageFresh(verdicts, lpage', None) /\ lpage' \in Seq(Listing)
  BY <1>2 DEF PageFresh
<1>4. WorkOpen(verdicts, None, signals)
  BY NoneIsWork DEF WorkOpen
<1> QED
  BY <1>1, <1>2, <1>3, <1>4, NoneIsWork DEF LearnInv, OutcomeTypes, OutcomeFacts

LEMMA NextLearn == LearnInv /\ [LearnNext]_learnVars => LearnInv'
<1> SUFFICES ASSUME LearnInv, [LearnNext]_learnVars PROVE LearnInv'
  OBVIOUS
<1>1. CASE UNCHANGED <<verdicts, mature, lcursor, lpage, current, signals, learnSaved>>
  BY <1>1 DEF LearnInv, OutcomeTypes
<1>2. CASE NewSnapshot \/ RetroStep \/ UNCHANGED learnVars
  BY <1>1, <1>2 DEF NewSnapshot, RetroStep, FetchSnapshots, Retrospect, RetrospectRaises, outcomeVars, learnVars
<1>3. CASE \E ok \in BOOLEAN : SaveLearn(ok)
  <2>1. /\ UNCHANGED <<verdicts, mature, lcursor, lpage, current, signals>>
        /\ learnSaved'.outcome \in {lcursor, learnSaved.outcome}
    BY <1>3 DEF SaveLearn, outcomeVars
  <2> QED
    BY <2>1 DEF LearnInv, OutcomeTypes
<1>4. ASSUME NEW ok \in BOOLEAN, Attempt(ok) \/ ResolveOutcome(ok) \/ EmitSignal(ok) \/ Expire(ok)
      PROVE  LearnInv'
  BY <1>4, AttemptKeeps, ResolveKeeps, SignalKeeps, ExpireKeeps
<1> QED
  BY <1>2, <1>3, <1>4, OthersKeep, FetchKeeps, NextKeeps, CrashKeeps DEF LearnNext, OutcomeStep

LEMMA LearnInvariant == LearnSpec => []LearnInv
  BY InitLearn, NextLearn, PTL DEF LearnSpec

-----------------------------------------------------------------------------

\* Through any number of refusals, crashes and replayed pages a calibration signal
\* is sent at most once for a verdict and tells the outcome that core holds.
THEOREM SignalsTrue == LearnSpec => []SignalsTruthful
<1>1. LearnInv => SignalsTruthful
  <2> SUFFICES ASSUME LearnInv PROVE SignalsTruthful
    OBVIOUS
  <2>1. DOMAIN signals = 1..Len(signals)
    BY DEF LearnInv, OutcomeTypes
  <2>2. SentTrue(verdicts, signals)
    BY DEF LearnInv, OutcomeFacts
  <2> QED
    BY <2>1, <2>2 DEF SentTrue, SignalsTruthful
<1> QED
  BY <1>1, LearnInvariant, PTL
-----------------------------------------------------------------------------
(* What the cursor leaves behind. *)

\* Between the cursor and verdict v nothing is left that the module could have resolved.
LeftDone(vs, failed, from, v) ==
    \A w \in 1..Len(vs) : from < w /\ w < v => w \in failed \/ vs[w].status # "pending"

\* The rest of a page continues the verdict in work without a gap (where core lists
\* the oldest first).
Walk(vs, failed, from, page, work) ==
    /\ \A i \in 1..Len(page) : page[i].verdict = page[1].verdict + (i - 1)
    /\ work # None => LeftDone(vs, failed, from, work.verdict)
    /\ work # None /\ page # << >> => page[1].verdict = work.verdict + 1
    /\ work = None /\ page # << >> => LeftDone(vs, failed, from, page[1].verdict)

\* Nothing younger than the mature verdicts is listed, in work or passed.
Ripe ==
    /\ stale \in 0..mature /\ learnSaved.outcome <= lcursor /\ lcursor <= mature
    /\ current.verdict <= mature
    /\ \A i \in 1..Len(lpage) : lpage[i].verdict <= mature

CursorInv == Ripe /\ (~newestFirst => Walk(verdicts, blind, lcursor, lpage, current))

RetroInv ==
    /\ shots \in Nat /\ rcursor \in 0..shots /\ learnSaved.retro \in 0..shots
    /\ learnRestarts \in Nat /\ illegible \subseteq 1..shots
    /\ rpage \in Seq(1..shots) /\ retros \in Seq(1..shots)
    /\ learnRestarts = 0 =>
           /\ \A i \in 1..Len(retros) : retros[i] <= rcursor
           /\ \A i, j \in 1..Len(retros) : retros[i] = retros[j] => i = j

LEMMA InitWalk == LearnInit => CursorInv
<1> SUFFICES ASSUME LearnInit PROVE CursorInv
  OBVIOUS
<1>1. Len(lpage) = 0 /\ lpage = << >> /\ current = None /\ current.verdict = 0
  BY NoneIsWork DEF LearnInit
<1> QED
  BY <1>1 DEF LearnInit, CursorInv, Ripe, Walk

\* Where nothing is taken up, a status changes only away from pending, and the rest grows.
LEMMA WalkStays ==
    ASSUME LearnInv, CursorInv, ~newestFirst, UNCHANGED <<lcursor, lpage, current>>,
           NEW vs, NEW failed,
           Len(verdicts) <= Len(vs), blind \subseteq failed,
           \A w \in 1..Len(verdicts) : vs[w].status = verdicts[w].status
    PROVE  Walk(vs, failed, lcursor, lpage, current)
<1>1. OutcomeTypes /\ Ripe /\ Walk(verdicts, blind, lcursor, lpage, current)
  BY DEF LearnInv, CursorInv
<1>2. ASSUME NEW v, v \in Nat, v <= mature, LeftDone(verdicts, blind, lcursor, v)
      PROVE  LeftDone(vs, failed, lcursor, v)
  <2> SUFFICES ASSUME NEW w \in 1..Len(vs), lcursor < w, w < v
               PROVE  w \in failed \/ vs[w].status # "pending"
    BY DEF LeftDone
  <2>1. w \in 1..Len(verdicts)
    BY <1>1, <1>2 DEF OutcomeTypes
  <2> QED
    BY <1>2, <2>1 DEF LeftDone
<1>3. current.verdict \in Nat /\ current.verdict <= mature
  BY <1>1 DEF OutcomeTypes, Work, Ripe
<1>4. lpage # << >> => lpage[1].verdict \in Nat /\ lpage[1].verdict <= mature
  <2> SUFFICES ASSUME lpage # << >> PROVE lpage[1].verdict \in Nat /\ lpage[1].verdict <= mature
    OBVIOUS
  <2>1. 1 \in 1..Len(lpage)
    BY <1>1, EmptySeq DEF OutcomeTypes
  <2>2. lpage[1] \in Listing
    BY <1>1, <2>1, ElementOfSeq DEF OutcomeTypes
  <2> QED
    BY <1>1, <2>1, <2>2 DEF Listing, Ripe
<1> QED
  BY <1>1, <1>2, <1>3, <1>4 DEF Walk

\* The verdict in work is done with: resolved, failed, or behind the cursor.
LEMMA WalkOn ==
    ASSUME LearnInv, CursorInv, ~newestFirst, current # None, UNCHANGED <<mature, lpage>>,
           NEW vs, NEW failed, NEW from \in Nat,
           Len(vs) = Len(verdicts), blind \subseteq failed, lcursor <= from,
           \A w \in 1..Len(verdicts) : w # current.verdict => vs[w].status = verdicts[w].status,
           \/ from >= current.verdict
           \/ current.verdict \in failed
           \/ vs[current.verdict].status # "pending"
    PROVE  Walk(vs, failed, from, lpage, None)
<1>1. OutcomeTypes /\ Ripe /\ Walk(verdicts, blind, lcursor, lpage, current)
  BY DEF LearnInv, CursorInv
<1>2. current.verdict \in Nat /\ lcursor \in Nat /\ Len(verdicts) \in Nat
  BY <1>1 DEF OutcomeTypes, Work
<1>3. LeftDone(vs, failed, from, current.verdict + 1)
  <2> SUFFICES ASSUME NEW w \in 1..Len(vs), from < w, w < current.verdict + 1
               PROVE  w \in failed \/ vs[w].status # "pending"
    BY DEF LeftDone
  <2>1. CASE w = current.verdict
    BY <1>2, <2>1
  <2>2. CASE w # current.verdict
    <3>1. lcursor < w /\ w < current.verdict
      BY <1>2, <2>2
    <3> QED
      BY <1>1, <2>2, <3>1 DEF Walk, LeftDone
  <2> QED
    BY <2>1, <2>2
<1> QED
  BY <1>1, <1>3 DEF Walk

LEMMA PassedOn ==
    ASSUME LearnInv, LearnInv', CursorInv, ~newestFirst, current # None,
           UNCHANGED <<mature, stale, lpage, learnSaved>>,
           Len(verdicts') = Len(verdicts), blind \subseteq blind',
           \A w \in 1..Len(verdicts) :
               w # current.verdict => verdicts'[w].status = verdicts[w].status,
           current' = None, lcursor' = Advance(current.verdict)
    PROVE  CursorInv'
<1>1. /\ lcursor \in Nat /\ current.verdict \in Nat /\ mature \in Nat /\ lcursor <= mature
      /\ current.verdict <= mature /\ learnSaved.outcome \in Nat
  BY DEF LearnInv, CursorInv, OutcomeTypes, Work, Ripe
<1>2. lcursor' \in Nat /\ lcursor <= lcursor' /\ lcursor' >= current.verdict /\ lcursor' <= mature
  BY <1>1 DEF Advance
<1>3. Walk(verdicts', blind', lcursor', lpage, None)
  BY <1>2, WalkOn
<1>4. None.verdict <= mature
  BY <1>1, NoneIsWork
<1> QED
  BY <1>1, <1>2, <1>3, <1>4 DEF CursorInv, Ripe

LEMMA OldestFirstStep ==
    ASSUME LearnInv, LearnInv', CursorInv, [LearnNext]_learnVars, ~newestFirst
    PROVE  CursorInv'
<1>1. /\ OutcomeTypes /\ OutcomeFacts(verdicts, lpage, current, signals)
      /\ Ripe /\ Walk(verdicts, blind, lcursor, lpage, current)
      /\ OutcomeTypes'
  BY DEF LearnInv, CursorInv
<1>2. /\ Len(verdicts) \in Nat /\ mature \in Nat /\ mature <= Len(verdicts) /\ lcursor \in Nat
      /\ current.verdict \in Nat /\ Len(lpage) \in Nat /\ lcursor' \in Nat /\ stale \in Nat
      /\ learnSaved.outcome \in Nat
      /\ \A i \in 1..Len(lpage) : lpage[i].verdict \in Nat
  <2>1. \A i \in 1..Len(lpage) : lpage[i] \in Listing
    BY <1>1, ElementOfSeq DEF OutcomeTypes
  <2> QED
    BY <1>1, <2>1 DEF OutcomeTypes, Work, Listing, Ripe
<1>3. CASE UNCHANGED <<verdicts, mature, stale, lcursor, lpage, current, blind>>
           /\ learnSaved'.outcome \in {lcursor, learnSaved.outcome}
  BY <1>1, <1>2, <1>3 DEF CursorInv, Ripe
<1>4. CASE \/ NewSnapshot \/ RetroStep \/ UNCHANGED learnVars
           \/ \E ok \in BOOLEAN : SaveLearn(ok)
  BY <1>3, <1>4 DEF NewSnapshot, RetroStep, FetchSnapshots, Retrospect, RetrospectRaises,
     SaveLearn, outcomeVars, learnVars
<1>5. CASE NewVerdict \/ NewEvidence \/ Aging
  <2>1. /\ UNCHANGED <<lcursor, lpage, current, learnSaved, blind>>
        /\ mature' >= mature /\ stale' \in 0..mature' /\ mature' \in Nat
    BY <1>1, <1>2, <1>5 DEF NewVerdict, NewEvidence, Aging, Ripe
  <2>2. /\ Len(verdicts) <= Len(verdicts')
        /\ \A w \in 1..Len(verdicts) : verdicts'[w].status = verdicts[w].status
    BY <1>1, <1>5, StatusesKept
  <2>3. Walk(verdicts', blind', lcursor, lpage, current)
    BY <2>1, <2>2, WalkStays
  <2>4. Ripe'
    <3>1. \A x \in Nat : x <= mature => x <= mature'
      BY <1>2, <2>1
    <3>2. /\ learnSaved.outcome <= lcursor /\ lcursor <= mature /\ current.verdict <= mature
          /\ \A i \in 1..Len(lpage) : lpage[i].verdict <= mature
      BY <1>1 DEF Ripe
    <3>3. /\ lcursor <= mature' /\ current.verdict <= mature'
          /\ \A i \in 1..Len(lpage) : lpage[i].verdict <= mature'
      BY <1>2, <3>1, <3>2
    <3> QED
      BY <2>1, <3>2, <3>3 DEF Ripe
  <2> QED
    BY <2>1, <2>3, <2>4 DEF CursorInv
<1>6. CASE FetchVerdicts
  <2>1. PICK n \in Nat :
            /\ n <= mature - lcursor
            /\ lpage' = [k \in 1..n |-> [verdict |-> lcursor + k,
                                         status |-> verdicts[lcursor + k].status]]
    BY <1>1, <1>2, <1>6, LearnBounds DEF FetchVerdicts, MatureAt
  <2>2. /\ Len(lpage') = n /\ \A k \in 1..n : lpage'[k].verdict = lcursor + k
        /\ lpage' # << >> => n # 0
    BY <2>1
  <2>3. UNCHANGED <<verdicts, mature, stale, lcursor, current, blind, learnSaved>> /\ current = None
    BY <1>6 DEF FetchVerdicts
  <2>4. lpage' # << >> => lpage'[1].verdict = lcursor + 1 /\ 1 \in 1..n
    BY <2>1, <2>2
  <2>5. Walk(verdicts, blind, lcursor, lpage', None)
    <3>1. LeftDone(verdicts, blind, lcursor, lcursor + 1)
      BY <1>2 DEF LeftDone
    <3>2. \A i \in 1..Len(lpage') : lpage'[i].verdict = lpage'[1].verdict + (i - 1)
      BY <1>2, <2>1, <2>2
    <3> QED
      BY <2>4, <3>1, <3>2 DEF Walk
  <2>6. Ripe'
    BY <1>1, <1>2, <2>1, <2>2, <2>3 DEF Ripe
  <2> QED
    BY <2>3, <2>5, <2>6 DEF CursorInv
<1>7. CASE NextVerdict
  <2>1. /\ UNCHANGED <<verdicts, mature, stale, lcursor, blind, learnSaved>> /\ current = None
        /\ lpage # << >>
    BY <1>7 DEF NextVerdict
  <2>2. /\ lpage' = Tail(lpage) /\ Len(lpage') = Len(lpage) - 1
        /\ \A i \in 1..Len(lpage') : lpage'[i] = lpage[i + 1]
        /\ Head(lpage) = lpage[1] /\ Len(lpage) \in Nat \ {0}
        /\ lpage' # << >> => Len(lpage') \in Nat \ {0}
    BY <1>1, <1>7, HeadTailProperties, EmptySeq DEF NextVerdict, OutcomeTypes
  <2>3. /\ \A i \in 1..Len(lpage) : lpage[i].verdict = lpage[1].verdict + (i - 1)
        /\ lpage[1].verdict \in Nat /\ lpage[1].verdict <= mature
        /\ LeftDone(verdicts, blind, lcursor, lpage[1].verdict)
    <3>1. 1 \in 1..Len(lpage)
      BY <2>2
    <3> QED
      BY <1>1, <1>2, <2>1, <3>1 DEF Walk, Ripe
  <2>4. \A i \in 1..Len(lpage') :
            /\ lpage'[i].verdict = lpage[1].verdict + i
            /\ lpage'[i].verdict = lpage'[1].verdict + (i - 1)
            /\ lpage'[i].verdict <= mature
    <3>1. \A i \in 1..Len(lpage') :
              i + 1 \in 1..Len(lpage) /\ 1 \in 1..Len(lpage') /\ 2 \in 1..Len(lpage)
      BY <2>2
    <3> QED
      BY <1>1, <2>2, <2>3, <3>1 DEF Ripe
  <2>5. lpage' # << >> => 1 \in 1..Len(lpage') /\ lpage'[1].verdict = lpage[1].verdict + 1
    BY <2>2, <2>4
  <2>6. CASE lpage[1].status = "pending"
    <3>1. current' = [None EXCEPT !.verdict = lpage[1].verdict, !.step = "attempt"]
      BY <1>7, <2>2, <2>6 DEF NextVerdict
    <3>2. current'.verdict = lpage[1].verdict /\ current' # None
      BY <3>1, NoneIsWork DEF None
    <3>3. Walk(verdicts, blind, lcursor, lpage', current')
      BY <2>3, <2>4, <2>5, <3>2 DEF Walk
    <3> QED
      BY <1>1, <2>1, <2>3, <2>4, <3>2, <3>3 DEF CursorInv, Ripe
  <2>7. CASE lpage[1].status # "pending"
    <3>1. current' = None
      BY <1>7, <2>2, <2>7 DEF NextVerdict
    <3>2. verdicts[lpage[1].verdict].status # "pending"
      <4>1. 1 \in 1..Len(lpage)
        BY <2>2
      <4> QED
        BY <1>1, <2>7, <4>1 DEF OutcomeFacts, PageFresh
    <3>3. LeftDone(verdicts, blind, lcursor, lpage[1].verdict + 1)
      <4> SUFFICES ASSUME NEW w \in 1..Len(verdicts), lcursor < w, w < lpage[1].verdict + 1
                   PROVE  w \in blind \/ verdicts[w].status # "pending"
        BY DEF LeftDone
      <4>1. w = lpage[1].verdict \/ w < lpage[1].verdict
        BY <1>2, <2>3
      <4> QED
        BY <2>3, <3>2, <4>1 DEF LeftDone
    <3>4. Walk(verdicts, blind, lcursor, lpage', None)
      BY <2>4, <2>5, <3>3 DEF Walk
    <3>5. None.verdict <= mature
      BY <1>2, NoneIsWork
    <3> QED
      BY <1>1, <2>1, <2>4, <3>1, <3>4, <3>5 DEF CursorInv, Ripe
  <2> QED
    BY <2>6, <2>7
<1>8. ASSUME NEW ok \in BOOLEAN, Attempt(ok) PROVE CursorInv'
  <2>1. /\ UNCHANGED <<verdicts, mature, stale, lpage, learnSaved>> /\ current # None
        /\ blind \subseteq blind'
    BY <1>8, NoneIsWork DEF Attempt
  <2>2. CASE UNCHANGED lcursor /\ current' # None /\ current'.verdict = current.verdict
    <3>1. Walk(verdicts, blind', lcursor, lpage, current')
      BY <1>1, <2>1, <2>2 DEF Walk, LeftDone
    <3> QED
      BY <1>1, <2>1, <2>2, <3>1 DEF CursorInv, Ripe
  <2>3. CASE current' = None /\ lcursor' = Advance(current.verdict)
    BY <1>1, <1>2, <2>1, <2>3, PassedOn
  <2>4. \/ \E r \in {"confirmed", "overridden"} :
               current' = [current EXCEPT !.step = "resolve", !.resolution = r] /\ UNCHANGED lcursor
        \/ current' = [current EXCEPT !.step = "expire"] /\ UNCHANGED lcursor
        \/ current' = None /\ lcursor' = Advance(current.verdict)
    BY <1>8 DEF Attempt
  <2>5. \/ UNCHANGED lcursor /\ current'.verdict = current.verdict
              /\ current'.step \in {"resolve", "expire"}
        \/ current' = None /\ lcursor' = Advance(current.verdict)
    BY <1>1, <2>4 DEF OutcomeTypes, Work
  <2> QED
    BY <2>2, <2>3, <2>5, NoneIsWork
<1>9. ASSUME NEW ok \in BOOLEAN, ResolveOutcome(ok) PROVE CursorInv'
  <2>1. /\ UNCHANGED <<mature, stale, lcursor, lpage, learnSaved>> /\ current # None
        /\ current.step = "resolve"
    BY <1>9, NoneIsWork DEF ResolveOutcome
  <2>2. CASE ok
    <3>1. /\ verdicts' = [verdicts EXCEPT ![current.verdict].status = current.resolution]
          /\ current' = [current EXCEPT !.step = "signal"] /\ blind' = blind
      BY <1>9, <2>2 DEF ResolveOutcome
    <3>2. current'.verdict = current.verdict /\ current' # None
      BY <1>1, <3>1, NoneIsWork DEF OutcomeTypes, Work
    <3>3. current.verdict \in 1..Len(verdicts) /\ current.resolution \in Outcomes
      BY <1>1, <2>1 DEF OutcomeFacts, WorkOpen, Outcomes
    <3>4. /\ Len(verdicts') = Len(verdicts)
          /\ \A w \in 1..Len(verdicts) : w # current.verdict => verdicts'[w] = verdicts[w]
      BY <1>1, <3>1, <3>3, StatusChange DEF OutcomeTypes
    <3>5. LeftDone(verdicts', blind, lcursor, current.verdict)
      BY <1>1, <1>2, <2>1, <3>4 DEF Walk, LeftDone
    <3>6. Walk(verdicts', blind, lcursor, lpage, current')
      BY <1>1, <2>1, <3>2, <3>5 DEF Walk
    <3> QED
      BY <1>1, <2>1, <3>1, <3>2, <3>6 DEF CursorInv, Ripe
  <2>3. CASE ~ok
    <3>1. verdicts' = verdicts /\ current' = None /\ blind' = blind \union {current.verdict}
      BY <1>9, <2>3 DEF ResolveOutcome
    <3>2. Walk(verdicts', blind', lcursor, lpage, None)
      BY <1>2, <2>1, <3>1, WalkOn
    <3>3. None.verdict <= mature
      BY <1>2, NoneIsWork
    <3> QED
      BY <1>1, <2>1, <3>1, <3>2, <3>3 DEF CursorInv, Ripe
  <2> QED
    BY <2>2, <2>3
<1>10. ASSUME NEW ok \in BOOLEAN, EmitSignal(ok) PROVE CursorInv'
  <2>1. /\ UNCHANGED <<verdicts, mature, stale, lcursor, lpage, blind, learnSaved>>
        /\ current # None /\ current.step = "signal" /\ current' = None
    BY <1>10, NoneIsWork DEF EmitSignal
  <2>2. verdicts[current.verdict].status # "pending"
    BY <1>1, <2>1 DEF OutcomeFacts, WorkOpen
  <2>3. Walk(verdicts, blind, lcursor, lpage, None)
    BY <1>2, <2>1, <2>2, WalkOn
  <2>4. None.verdict <= mature
    BY <1>2, NoneIsWork
  <2> QED
    BY <1>1, <2>1, <2>3, <2>4 DEF CursorInv, Ripe
<1>11. ASSUME NEW ok \in BOOLEAN, Expire(ok) PROVE CursorInv'
  <2>1. /\ UNCHANGED <<mature, stale, lpage, learnSaved>>
        /\ current # None /\ current.step = "expire" /\ current' = None
        /\ lcursor' = Advance(current.verdict) /\ blind \subseteq blind'
    BY <1>11, NoneIsWork DEF Expire
  <2>2. /\ Len(verdicts') = Len(verdicts)
        /\ \A w \in 1..Len(verdicts) : w # current.verdict => verdicts'[w] = verdicts[w]
    <3>1. CASE ok
      <4>1. verdicts' = [verdicts EXCEPT ![current.verdict].status = "expired"]
        BY <1>11, <3>1 DEF Expire
      <4>2. current.verdict \in 1..Len(verdicts) /\ "expired" \in Outcomes
        BY <1>1, <2>1 DEF OutcomeFacts, WorkOpen, Outcomes
      <4> QED
        BY <1>1, <4>1, <4>2, StatusChange DEF OutcomeTypes
    <3>2. CASE ~ok
      BY <1>11, <3>2 DEF Expire
    <3> QED
      BY <3>1, <3>2
  <2> QED
    BY <1>1, <1>2, <2>1, <2>2, PassedOn
<1>12. CASE LearnCrash
  <2>1. /\ UNCHANGED <<verdicts, mature, stale, blind, learnSaved>>
        /\ lcursor' = learnSaved.outcome /\ lpage' = << >> /\ current' = None
    BY <1>12 DEF LearnCrash
  <2>2. Len(lpage') = 0 /\ None.verdict <= mature
    BY <1>2, <2>1, NoneIsWork
  <2>3. Walk(verdicts', blind', lcursor', lpage', None)
    BY <2>1, <2>2 DEF Walk
  <2> QED
    BY <1>1, <1>2, <2>1, <2>2, <2>3 DEF CursorInv, Ripe
<1> QED
  BY <1>4, <1>5, <1>6, <1>7, <1>8, <1>9, <1>10, <1>11, <1>12 DEF LearnNext, OutcomeStep

LEMMA NewestFirstStep ==
    ASSUME LearnInv, LearnInv', CursorInv, [LearnNext]_learnVars, newestFirst
    PROVE  CursorInv'
<1>1. /\ OutcomeTypes /\ Ripe /\ OutcomeTypes'
      /\ lcursor \in Nat /\ mature \in Nat /\ stale \in Nat /\ current.verdict \in Nat
      /\ learnSaved.outcome \in Nat
      /\ \A i \in 1..Len(lpage) : lpage[i].verdict \in Nat
  <2>1. OutcomeTypes /\ Ripe /\ OutcomeTypes'
    BY DEF LearnInv, CursorInv
  <2>2. \A i \in 1..Len(lpage) : lpage[i] \in Listing
    BY <2>1, ElementOfSeq DEF OutcomeTypes
  <2> QED
    BY <2>1, <2>2 DEF OutcomeTypes, Work, Listing, Ripe
<1>2. UNCHANGED newestFirst
  BY DEF LearnNext, OutcomeStep, RetroStep, NewVerdict, NewEvidence, Aging, NewSnapshot,
     FetchVerdicts, NextVerdict, Attempt, ResolveOutcome, EmitSignal, Expire, FetchSnapshots,
     Retrospect, RetrospectRaises, SaveLearn, LearnCrash, learnVars, retroVars
<1> SUFFICES Ripe'
  BY <1>2 DEF CursorInv
<1>3. CASE UNCHANGED <<mature, stale, lcursor, lpage, current>>
           /\ learnSaved'.outcome \in {lcursor, learnSaved.outcome}
  BY <1>1, <1>3 DEF Ripe
<1>4. CASE \/ NewVerdict \/ NewEvidence \/ NewSnapshot \/ RetroStep \/ UNCHANGED learnVars
           \/ \E ok \in BOOLEAN : SaveLearn(ok)
  <2>1. UNCHANGED <<mature, stale, lcursor, lpage, current>>
    BY <1>4 DEF NewVerdict, NewEvidence, NewSnapshot, RetroStep, FetchSnapshots, Retrospect,
       RetrospectRaises, SaveLearn, outcomeVars, learnVars
  <2>2. CASE \/ NewVerdict \/ NewEvidence \/ NewSnapshot \/ RetroStep \/ UNCHANGED learnVars
    BY <1>3, <2>1, <2>2 DEF NewVerdict, NewEvidence, NewSnapshot, RetroStep, FetchSnapshots,
       Retrospect, RetrospectRaises, learnVars
  <2>3. ASSUME NEW ok \in BOOLEAN, SaveLearn(ok) PROVE Ripe'
    <3>1. learnSaved' \in {learnSaved, [outcome |-> lcursor, retro |-> rcursor]}
      BY <2>3 DEF SaveLearn
    <3> QED
      BY <1>3, <2>1, <3>1
  <2> QED
    BY <1>4, <2>2, <2>3
<1>5. CASE Aging
  <2>1. /\ UNCHANGED <<lcursor, lpage, current, learnSaved>>
        /\ mature' >= mature /\ stale' \in 0..mature' /\ mature' \in Nat
    BY <1>1, <1>5 DEF Aging, Ripe
  <2> QED
    BY <1>1, <2>1 DEF Ripe
<1>6. CASE FetchVerdicts
  <2>1. PICK n \in Nat :
            /\ n <= mature - lcursor
            /\ lpage' = [k \in 1..n |-> [verdict |-> MatureAt(k),
                                         status |-> verdicts[MatureAt(k)].status]]
    BY <1>1, <1>6, LearnBounds DEF FetchVerdicts
  <2>2. Len(lpage') = n /\ \A k \in 1..n : lpage'[k].verdict = MatureAt(k)
    BY <2>1
  <2>3. \A k \in 1..n : MatureAt(k) <= mature
    BY <1>1, <2>1 DEF MatureAt
  <2>4. UNCHANGED <<mature, stale, lcursor, current, learnSaved>>
    BY <1>6 DEF FetchVerdicts
  <2> QED
    BY <1>1, <2>2, <2>3, <2>4 DEF Ripe
<1>7. CASE NextVerdict
  <2>1. /\ UNCHANGED <<mature, stale, lcursor, learnSaved>> /\ lpage # << >>
        /\ lpage' = Tail(lpage)
        /\ current'.verdict \in {0, lpage[1].verdict}
    BY <1>7, NoneIsWork DEF NextVerdict, None
  <2>2. /\ Len(lpage') = Len(lpage) - 1 /\ Len(lpage) \in Nat \ {0}
        /\ \A i \in 1..Len(lpage') : lpage'[i] = lpage[i + 1]
    BY <1>1, <2>1, HeadTailProperties, EmptySeq DEF OutcomeTypes
  <2>3. 1 \in 1..Len(lpage) /\ \A i \in 1..Len(lpage') : i + 1 \in 1..Len(lpage)
    BY <2>2
  <2> QED
    BY <1>1, <2>1, <2>2, <2>3 DEF Ripe
<1>8. ASSUME NEW ok \in BOOLEAN,
             Attempt(ok) \/ ResolveOutcome(ok) \/ EmitSignal(ok) \/ Expire(ok)
      PROVE  Ripe'
  <2>1. /\ UNCHANGED <<mature, stale, lpage, learnSaved>>
        /\ lcursor' \in {lcursor, Advance(current.verdict)}
    BY <1>8 DEF Attempt, ResolveOutcome, EmitSignal, Expire
  <2>2. current'.verdict \in {0, current.verdict}
    <3>1. current' = None \/ \E st \in {"resolve", "expire", "signal"}, res \in {"confirmed", "overridden"} :
              \/ current' = [current EXCEPT !.step = st, !.resolution = res]
              \/ current' = [current EXCEPT !.step = st]
      BY <1>8 DEF Attempt, ResolveOutcome, EmitSignal, Expire
    <3> QED
      BY <1>1, <3>1, NoneIsWork DEF OutcomeTypes, Work
  <2>3. lcursor <= Advance(current.verdict) /\ Advance(current.verdict) <= mature
    BY <1>1 DEF Advance, Ripe
  <2> QED
    BY <1>1, <2>1, <2>2, <2>3 DEF Ripe
<1>9. CASE LearnCrash
  <2>1. /\ UNCHANGED <<mature, stale, learnSaved>>
        /\ lcursor' = learnSaved.outcome /\ lpage' = << >> /\ current' = None
    BY <1>9 DEF LearnCrash
  <2>2. Len(lpage') = 0 /\ None.verdict <= mature
    BY <1>1, <2>1, NoneIsWork
  <2> QED
    BY <1>1, <2>1, <2>2 DEF Ripe
<1> QED
  BY <1>3, <1>4, <1>5, <1>6, <1>7, <1>8, <1>9 DEF LearnNext, OutcomeStep

LEMMA CursorStep == LearnInv /\ LearnInv' /\ CursorInv /\ [LearnNext]_learnVars => CursorInv'
BY OldestFirstStep, NewestFirstStep

LEMMA CursorInvariant == LearnSpec => [](LearnInv /\ CursorInv)
  BY InitLearn, NextLearn, InitWalk, CursorStep, PTL DEF LearnSpec

-----------------------------------------------------------------------------
(* The retrospective module. *)

LEMMA ListedType ==
    ASSUME shots \in Nat
    PROVE  Listed(shots) \in Seq(1..shots)
<1> DEFINE len == IF shots < ListLimit THEN shots ELSE ListLimit
<1>1. len \in Nat /\ len <= shots
  BY LearnBounds
<1>2. \A k \in 1..len : (IF newestFirst THEN shots + 1 - k ELSE k) \in 1..shots
  BY <1>1
<1>3. Listed(shots) = [k \in 1..len |-> IF newestFirst THEN shots + 1 - k ELSE k]
  BY DEF Listed
<1> HIDE DEF len
<1> QED
  BY <1>1, <1>2, <1>3

LEMMA InitRetro == LearnInit => RetroInv
  BY DEF LearnInit, RetroInv

LEMMA RetroKeeps == RetroInv /\ [LearnNext]_learnVars => RetroInv'
<1> SUFFICES ASSUME RetroInv, [LearnNext]_learnVars PROVE RetroInv'
  OBVIOUS
<1>1. CASE /\ UNCHANGED <<shots, illegible, rcursor, rpage, retros, learnRestarts>>
           /\ learnSaved'.retro \in {rcursor, learnSaved.retro}
  BY <1>1 DEF RetroInv
<1>2. CASE \/ NewVerdict \/ NewEvidence \/ Aging \/ OutcomeStep \/ UNCHANGED learnVars
           \/ \E ok \in BOOLEAN : SaveLearn(ok)
  <2>1. CASE \/ NewVerdict \/ NewEvidence \/ Aging \/ UNCHANGED learnVars
             \/ FetchVerdicts \/ NextVerdict
    BY <1>1, <2>1 DEF NewVerdict, NewEvidence, Aging, FetchVerdicts, NextVerdict, learnVars,
       retroVars
  <2>2. ASSUME NEW ok \in BOOLEAN,
               Attempt(ok) \/ ResolveOutcome(ok) \/ EmitSignal(ok) \/ Expire(ok)
        PROVE  RetroInv'
    BY <1>1, <2>2 DEF Attempt, ResolveOutcome, EmitSignal, Expire, retroVars
  <2>3. ASSUME NEW ok \in BOOLEAN, SaveLearn(ok) PROVE RetroInv'
    <3>1. learnSaved' \in {learnSaved, [outcome |-> lcursor, retro |-> rcursor]}
      BY <2>3 DEF SaveLearn
    <3> QED
      BY <1>1, <2>3, <3>1 DEF SaveLearn, retroVars
  <2> QED
    BY <1>2, <2>1, <2>2, <2>3 DEF OutcomeStep
<1>3. CASE NewSnapshot
  <2>1. /\ shots' = shots + 1 /\ UNCHANGED <<rcursor, rpage, retros, learnSaved, learnRestarts>>
        /\ illegible' \subseteq illegible \union {shots'}
    BY <1>3 DEF NewSnapshot
  <2>2. \A s \in 1..shots : s \in 1..(shots + 1)
    BY DEF RetroInv
  <2>3. rpage \in Seq(1..(shots + 1)) /\ retros \in Seq(1..(shots + 1))
    BY <2>2 DEF RetroInv
  <2> QED
    BY <2>1, <2>3 DEF RetroInv
<1>4. CASE FetchSnapshots \/ RetrospectRaises
  <2>1. /\ UNCHANGED <<shots, illegible, rcursor, retros, learnSaved, learnRestarts>>
        /\ rpage' = << >> \/ rpage' = Listed(shots)
    BY <1>4 DEF FetchSnapshots, RetrospectRaises
  <2>2. Listed(shots) \in Seq(1..shots) /\ << >> \in Seq(1..shots)
    BY ListedType DEF RetroInv
  <2>3. rpage' \in Seq(1..shots)
    BY <2>1, <2>2
  <2> QED
    BY <2>1, <2>3 DEF RetroInv
<1>5. ASSUME NEW ok \in BOOLEAN, Retrospect(ok) PROVE RetroInv'
  <2>1. /\ rpage # << >> /\ rpage' = Tail(rpage)
        /\ UNCHANGED <<shots, illegible, learnSaved, learnRestarts>>
    BY <1>5 DEF Retrospect
  <2>2. Head(rpage) \in 1..shots /\ Tail(rpage) \in Seq(1..shots)
    BY <2>1, HeadTailProperties DEF RetroInv
  <2>3. CASE UNCHANGED <<rcursor, retros>>
    BY <2>1, <2>2, <2>3 DEF RetroInv
  <2>4. ASSUME NEW s \in 1..shots, s > rcursor, retros' = Append(retros, s), rcursor' = s
        PROVE  RetroInv'
    <3>1. /\ retros' \in Seq(1..shots) /\ Len(retros') = Len(retros) + 1 /\ Len(retros) \in Nat
          /\ retros'[Len(retros) + 1] = s
          /\ \A i \in 1..Len(retros) : retros'[i] = retros[i] /\ retros[i] \in 1..shots
      BY <2>4, ElementOfSeq DEF RetroInv
    <3>2. \A i \in 1..Len(retros') : i \in 1..Len(retros) \/ i = Len(retros) + 1
      BY <3>1
    <3>3. learnRestarts = 0 =>
              /\ \A i \in 1..Len(retros') : retros'[i] <= s
              /\ \A i \in 1..Len(retros) : retros[i] # s
      BY <2>4, <3>1, <3>2 DEF RetroInv
    <3>4. learnRestarts = 0 =>
              \A i, j \in 1..Len(retros') : retros'[i] = retros'[j] => i = j
      BY <3>1, <3>2, <3>3 DEF RetroInv
    <3> QED
      BY <2>1, <2>2, <2>4, <3>1, <3>3, <3>4 DEF RetroInv
  <2>5. \/ UNCHANGED <<rcursor, retros>>
        \/ /\ ~(Head(rpage) <= rcursor) /\ retros' = Append(retros, Head(rpage))
           /\ rcursor' = Head(rpage)
    BY <1>5 DEF Retrospect
  <2> QED
    BY <2>2, <2>3, <2>4, <2>5 DEF RetroInv
<1>6. CASE LearnCrash
  BY <1>6 DEF LearnCrash, RetroInv
<1> QED
  BY <1>2, <1>3, <1>4, <1>5, <1>6 DEF LearnNext, RetroStep

LEMMA RetroInvariant == LearnSpec => []RetroInv
  BY InitRetro, RetroKeeps, PTL DEF LearnSpec

-----------------------------------------------------------------------------

LEMMA LearnTypes == LearnInv /\ CursorInv /\ RetroInv => LearnTypeOK
<1> SUFFICES ASSUME LearnInv, CursorInv, RetroInv PROVE LearnTypeOK
  OBVIOUS
<1>1. \A v \in DOMAIN verdicts : verdicts[v] \in Verdict
  BY ElementOfSeq DEF LearnInv, OutcomeTypes
<1> QED
  BY <1>1 DEF LearnInv, CursorInv, RetroInv, OutcomeTypes, Ripe, Verdict, Work, LearnTypeOK

\* The cursors are never past a verdict that is still too young or a snapshot that was
\* not published, through crashes and failed saves.
THEOREM LearnTypeCorrect == LearnSpec => []LearnTypeOK
BY LearnTypes, CursorInvariant, RetroInvariant, PTL

LEMMA RetrospectsApart == RetroInv => RetrospectsOnce
BY DEF RetroInv, RetrospectsOnce

\* While the module keeps its cursor no snapshot gets a second retrospective, in
\* whichever order core lists them.
THEOREM OneRetrospective == LearnSpec => []RetrospectsOnce
BY RetrospectsApart, RetroInvariant, PTL

\* Where core lists the oldest first, the cursor passes no pending verdict whose
\* evidence the module could have read.
THEOREM NoEvidencePassed == LearnSpec => EvidenceIsUsed
<1> DEFINE Used == ~newestFirst => \A v \in DOMAIN verdicts :
                       (lcursor < v /\ v <= lcursor' /\ verdicts'[v].status = "pending")
                           => v \in blind' \/ verdicts[v].evidence = {}
<1>1. LearnInv /\ LearnInv' /\ CursorInv /\ [LearnNext]_learnVars => [Used]_learnVars
  <2> SUFFICES ASSUME LearnInv, LearnInv', CursorInv, LearnNext, ~newestFirst,
                      NEW v \in DOMAIN verdicts, lcursor < v, v <= lcursor', verdicts'[v].status = "pending"
               PROVE  v \in blind' \/ verdicts[v].evidence = {}
    OBVIOUS
  <2>1. /\ OutcomeTypes /\ OutcomeFacts(verdicts, lpage, current, signals) /\ Ripe
        /\ Walk(verdicts, blind, lcursor, lpage, current)
        /\ DOMAIN verdicts = 1..Len(verdicts) /\ Len(verdicts) \in Nat
        /\ lcursor \in Nat /\ current.verdict \in Nat
    BY DEF LearnInv, CursorInv, OutcomeTypes, Work
  <2>2. CASE UNCHANGED lcursor
    BY <2>1, <2>2
  <2>3. CASE LearnCrash
    BY <2>1, <2>3 DEF LearnCrash, Ripe, OutcomeTypes, LearnInv
  <2>4. v < current.verdict /\ verdicts'[v].status = verdicts[v].status /\ current # None
            => v \in blind
    BY <2>1 DEF Walk, LeftDone
  <2>5. ASSUME NEW ok \in BOOLEAN, Attempt(ok), ~(UNCHANGED lcursor)
        PROVE  v \in blind' \/ verdicts[v].evidence = {}
    <3>1. /\ UNCHANGED verdicts /\ current # None /\ lcursor' = Advance(current.verdict)
          /\ blind' = IF ok THEN blind ELSE blind \union {current.verdict}
          /\ ok => {"execution", "overridden"} \intersect verdicts[current.verdict].evidence = {}
      BY <2>5, NoneIsWork DEF Attempt
    <3>2. v <= current.verdict
      BY <2>1, <2>5, <3>1 DEF Advance
    <3>3. verdicts[v].evidence \subseteq {"execution", "overridden"}
      <4>1. verdicts[v] \in Verdict
        BY <2>1, ElementOfSeq DEF OutcomeTypes
      <4> QED
        BY <4>1 DEF Verdict
    <3>4. CASE v < current.verdict
      BY <2>4, <3>1, <3>4
    <3>5. CASE v = current.verdict
      BY <3>1, <3>3, <3>5
    <3> QED
      BY <2>1, <3>2, <3>4, <3>5
  <2>6. ASSUME NEW ok \in BOOLEAN, Expire(ok), ~(UNCHANGED lcursor)
        PROVE  v \in blind' \/ verdicts[v].evidence = {}
    <3>1. /\ current # None /\ lcursor' = Advance(current.verdict)
          /\ blind' = IF ok THEN blind ELSE blind \union {current.verdict}
          /\ verdicts' = IF ok THEN [verdicts EXCEPT ![current.verdict].status = "expired"]
                         ELSE verdicts
      BY <2>6, NoneIsWork DEF Expire
    <3>2. v <= current.verdict
      BY <2>1, <2>6, <3>1 DEF Advance
    <3>3. CASE v < current.verdict
      BY <2>1, <2>4, <3>1, <3>3
    <3>4. CASE v = current.verdict
      <4>1. ok => verdicts'[v].status = "expired"
        <5>1. "expired" \in Outcomes
          BY DEF Outcomes
        <5> QED
          BY <2>1, <3>1, <3>4, <5>1, StatusChange DEF OutcomeTypes
      <4> QED
        BY <3>1, <3>4, <4>1
    <3> QED
      BY <2>1, <3>2, <3>3, <3>4
  <2>7. CASE ~(UNCHANGED lcursor)
    <3>1. LearnCrash \/ \E ok \in BOOLEAN : Attempt(ok) \/ Expire(ok)
      <4>1. ~(NewVerdict \/ NewEvidence \/ Aging \/ NewSnapshot \/ FetchVerdicts
              \/ NextVerdict \/ FetchSnapshots \/ RetrospectRaises)
        BY <2>7 DEF NewVerdict, NewEvidence, Aging, NewSnapshot, FetchVerdicts, NextVerdict,
           FetchSnapshots, RetrospectRaises, outcomeVars
      <4>2. \A ok \in BOOLEAN :
                ~(ResolveOutcome(ok) \/ EmitSignal(ok) \/ Retrospect(ok) \/ SaveLearn(ok))
        BY <2>7 DEF ResolveOutcome, EmitSignal, Retrospect, SaveLearn, outcomeVars
      <4> QED
        BY <4>1, <4>2 DEF LearnNext, OutcomeStep, RetroStep
    <3> QED
      BY <2>3, <2>5, <2>6, <2>7, <3>1
  <2> QED
    BY <2>2, <2>7
<1>2. [][LearnNext]_learnVars /\ [](LearnInv /\ CursorInv) => [][Used]_learnVars
  BY <1>1, PTL
<1> QED
  BY <1>2, CursorInvariant, PTL DEF LearnSpec, EvidenceIsUsed
================================================================================
