------------------------- MODULE RespondIngestProofs -------------------------
(***************************************************************************)
(* Theorems about RespondIngest for any number of breaches, snapshots,     *)
(* incidents and faults.                                                   *)
(***************************************************************************)
EXTENDS RespondIngest, SequenceTheorems, TLAPS

-----------------------------------------------------------------------------
(* The inductive invariant: the cursors in memory are covered by what was  *)
(* driven to its end together with what is in memory, the stored ones by   *)
(* what was driven to its end together with what is stored, and a terminal *)
(* incident was driven to its end, so that pruning it uncovers nothing; and*)
(* a snapshot is never held without its breaches, because the fallback     *)
(* passes a breach when a snapshot represents it.                          *)

\* n breaches and the snapshots ss are published.
Published(n, ss) == {Breach(b) : b \in 1..n} \union {Snapshot(s) : s \in 1..Len(ss)}

Whole(n, ss, T) ==
    /\ T \subseteq Published(n, ss)
    /\ \A s \in 1..Len(ss) :
           Snapshot(s) \in T => \A b \in ss[s].parents : Breach(b) \in T

AllWhole(n, ss, incs) == \A i \in DOMAIN incs : Whole(n, ss, incs[i].triggers)

\* The triggers T cover the first s snapshots and the first b breaches, but for the
\* records that cannot be opened, the breaches lost among them.
Covered(ss, lost, s, b, T) ==
    /\ \A r \in 1..s : Snapshot(r) \in T \/ ss[r].data # "fine"
    /\ \A c \in 1..b : \/ Breach(c) \in T
                       \/ c \in lost
                       \/ \E r \in 1..Len(ss) : c \in ss[r].parents /\ ss[r].data # "fine"

\* The terminal incidents were driven to their end.
AllEnded(incs, T) ==
    \A i \in DOMAIN incs : incs[i].state = "terminal" => incs[i].triggers \subseteq T

SourcesOf(incident) == {t \in incident.triggers : t[1] = "snapshot"}

\* FallbackYields of two incidents, the second opened later.
Yields(first, second) ==
    first.triggers \intersect second.triggers # {}
        => SourcesOf(first) \intersect SourcesOf(second) = {} /\ SourcesOf(second) # {}

AllYield(incs) == \A i, j \in DOMAIN incs : i < j => Yields(incs[i], incs[j])

Held == settled \union TriggeredFrom(incidents)

IngestInv ==
    /\ IngestTypeOK
    /\ cycle = "breaches" => snapPage <= snapCursor
    /\ Whole(breachCount, snapshots, settled)
    /\ AllWhole(breachCount, snapshots, incidents)
    /\ AllWhole(breachCount, snapshots, stored.incidents)
    /\ Covered(snapshots, broken, snapCursor, breachCursor, Held)
    /\ Covered(snapshots, broken, stored.snapCursor, stored.breachCursor, Accounted)
    /\ AllYield(incidents) /\ AllYield(stored.incidents)
    /\ AllEnded(incidents, settled) /\ AllEnded(stored.incidents, settled)

-----------------------------------------------------------------------------

\* The two kinds of triggers are told apart.
LEMMA TriggersDiffer ==
    /\ \A b, c : Breach(b) = Breach(c) => b = c
    /\ \A s, r : Snapshot(s) = Snapshot(r) => s = r
    /\ \A b, s : Breach(b) # Snapshot(s)
    /\ \A b, s : Breach(b)[1] # "snapshot" /\ Snapshot(s)[1] = "snapshot"
BY DEF Breach, Snapshot

\* What Open leaves.
LEMMA OpenEffect ==
    ASSUME IngestTypeOK, NEW triggers, NEW anchored, NEW caseOk, Open(triggers, anchored, caseOk)
    PROVE  /\ DOMAIN incidents' = DOMAIN incidents \union {nextId}
           /\ nextId \notin DOMAIN incidents /\ nextId' = nextId + 1 /\ nextId \in Nat \ {0}
           /\ incidents'[nextId] = [triggers |-> triggers, state |-> "open"]
           /\ \A i \in DOMAIN incidents : incidents'[i] = incidents[i] /\ i < nextId /\ i \in Nat
           /\ TriggeredFrom(incidents') = TriggeredFrom(incidents) \union triggers
           /\ cases' \subseteq cases \union {nextId} /\ faults' \in 0..MaxFaults
<1>1. /\ DOMAIN incidents' = DOMAIN incidents \union {nextId}
      /\ nextId \notin DOMAIN incidents /\ nextId' = nextId + 1 /\ nextId \in Nat \ {0}
      /\ \A i \in DOMAIN incidents : i < nextId /\ i \in Nat
  BY DEF IngestTypeOK, Open
<1>2. /\ incidents'[nextId] = [triggers |-> triggers, state |-> "open"]
      /\ \A i \in DOMAIN incidents : incidents'[i] = incidents[i]
  BY <1>1 DEF Open
<1>3. incidents'[nextId].triggers = triggers
  BY <1>2
<1>4. TriggeredFrom(incidents') = TriggeredFrom(incidents) \union triggers
  BY <1>1, <1>2, <1>3 DEF TriggeredFrom
<1>5. cases' \subseteq cases \union {nextId} /\ faults' \in 0..MaxFaults
  BY IngestBounds DEF Open, Answers, IngestTypeOK
<1> QED
  BY <1>1, <1>2, <1>4, <1>5

LEMMA InitIngest == IngestInit => IngestInv
<1> SUFFICES ASSUME IngestInit PROVE IngestInv
  OBVIOUS
<1>1. /\ DOMAIN incidents = {} /\ DOMAIN stored.incidents = {} /\ Len(snapshots) = 0
      /\ stored.snapCursor = 0 /\ stored.breachCursor = 0
  BY DEF IngestInit, NoState
<1>2. IngestTypeOK
  BY <1>1, IngestBounds DEF IngestInit, IngestTypeOK
<1>3. /\ Whole(breachCount, snapshots, settled)
      /\ Covered(snapshots, broken, snapCursor, breachCursor, Held)
      /\ Covered(snapshots, broken, stored.snapCursor, stored.breachCursor, Accounted)
  BY <1>1 DEF IngestInit, Whole, Covered
<1> QED
  BY <1>1, <1>2, <1>3 DEF IngestInit, IngestInv, AllWhole, AllYield, AllEnded

\* Every variable keeps its type through every step.
LEMMA IngestTypeStep == IngestTypeOK /\ [IngestNext]_ingestVars => IngestTypeOK'
<1> SUFFICES ASSUME IngestTypeOK, [IngestNext]_ingestVars PROVE IngestTypeOK'
  OBVIOUS
<1> USE IngestBounds
<1>0. /\ snapshots \in Seq(Assessment)
      /\ \A s \in 1..Len(snapshots) : snapshots[s].parents \subseteq 1..breachCount
      /\ Len(snapshots) \in Nat /\ MaxBreaches \in Nat /\ MaxFaults \in Nat /\ MaxSnapshots \in Nat
      /\ \A i \in DOMAIN incidents : i \in 1..(nextId - 1) /\ incidents[i] \in Incident
      /\ \A i \in DOMAIN stored.incidents :
             i \in 1..(nextId - 1) /\ stored.incidents[i] \in Incident
  BY DEF IngestTypeOK
<1>1. CASE PublishBreach
  <2>1. 1..breachCount \subseteq 1..(breachCount + 1) /\ breachCount + 1 \in 1..(breachCount + 1)
    BY DEF IngestTypeOK
  <2>2. faults' \in 0..MaxFaults
    BY <1>1 DEF PublishBreach, Answers, IngestTypeOK
  <2>3. broken' \subseteq 1..(breachCount + 1)
    BY <1>1, <2>1 DEF PublishBreach, IngestTypeOK
  <2> QED
    BY <1>0, <1>1, <2>1, <2>2, <2>3 DEF PublishBreach, IngestTypeOK, memory
<1>2. CASE PublishSnapshot
  <2>1. PICK new \in [parents : SUBSET (1..breachCount), data : {"fine", "unopenable", "unreadable"}],
            n \in {0, 1}, m \in {0, 1} :
            /\ snapshots' = Append(snapshots, new)
            /\ faults' = faults + n + m
    BY <1>2 DEF PublishSnapshot
  <2>2. new \in Assessment /\ new.parents \subseteq 1..breachCount
    BY <1>0, <2>1 DEF Assessment, IngestTypeOK
  <2>3. /\ snapshots' \in Seq(Assessment)
        /\ Len(snapshots') = Len(snapshots) + 1
        /\ \A s \in 1..Len(snapshots) : snapshots'[s] = snapshots[s]
        /\ snapshots'[Len(snapshots) + 1] = new
    BY <1>0, <2>1, <2>2
  <2>4. \A s \in 1..Len(snapshots') : snapshots'[s].parents \subseteq 1..breachCount
    BY <1>0, <2>2, <2>3
  <2>5. faults' \in 0..MaxFaults
    <3>1. faults' <= MaxFaults
      BY <1>2, Zenon DEF PublishSnapshot
    <3>2. faults \in Nat
      BY <1>0 DEF IngestTypeOK
    <3> QED
      BY <1>0, <2>1, <3>1, <3>2
  <2>6. Len(snapshots') <= MaxSnapshots /\ Len(snapshots) < Len(snapshots')
    BY <1>0, <1>2, <2>3 DEF PublishSnapshot
  <2>7. UNCHANGED <<breachCount, broken, cutoff, memory, cases, stored, cycle, snapPage,
                    breachPage, nextId, settled>>
    BY <1>2 DEF PublishSnapshot
  <2> QED
    BY <1>0, <2>3, <2>4, <2>5, <2>6, <2>7 DEF IngestTypeOK, memory
<1>3. CASE TimePasses
  BY <1>0, <1>3 DEF TimePasses, IngestTypeOK, memory
<1>4. ASSUME NEW ok \in BOOLEAN, PollSnapshots(ok) \/ PollBreaches(ok) \/ FallbackRaises
      PROVE  IngestTypeOK'
  <2>1. faults' \in 0..MaxFaults
    BY <1>4 DEF PollSnapshots, PollBreaches, FallbackRaises, Answers, IngestTypeOK
  <2>2. UNCHANGED <<coreVars, memory, cases, stored, nextId>>
    BY <1>4 DEF PollSnapshots, PollBreaches, FallbackRaises
  <2>3. /\ snapPage' \in 0..Len(snapshots) /\ breachPage' \in 0..breachCount
        /\ cycle' \in {"snapshots", "breaches", "idle"}
    BY <1>0, <1>4 DEF PollSnapshots, PollBreaches, FallbackRaises, IngestTypeOK
  <2> QED
    BY <1>0, <2>1, <2>2, <2>3 DEF IngestTypeOK, coreVars, memory
<1>5. ASSUME NEW ok \in BOOLEAN, IngestSnapshot(ok) PROVE IngestTypeOK'
  <2> DEFINE s == snapCursor + 1
  <2>1. s \in 1..Len(snapshots) /\ snapCursor' = s
        /\ UNCHANGED <<coreVars, breachCursor, stored, cycle, snapPage, breachPage, settled>>
    BY <1>0, <1>5 DEF IngestSnapshot, IngestTypeOK
  <2>2. SnapshotTriggers(s) \in SUBSET Trigger
    <3>1. snapshots[s].parents \subseteq 1..MaxBreaches /\ s \in 1..MaxSnapshots
      <4>1. snapshots[s] \in Assessment
        BY <1>0, <2>1, ElementOfSeq
      <4> QED
        BY <1>0, <2>1, <4>1 DEF Assessment, IngestTypeOK
    <3> QED
      BY <3>1 DEF SnapshotTriggers, Trigger, Snapshot, Breach
  <2>3. CASE Skip
    BY <1>0, <2>1, <2>3 DEF Skip, coreVars, IngestTypeOK
  <2>4. CASE Open(SnapshotTriggers(s), snapshots[s].parents # {}, ok)
    <3>1. [triggers |-> SnapshotTriggers(s), state |-> "open"] \in Incident
      BY <2>2 DEF Incident
    <3>2. /\ DOMAIN incidents' = DOMAIN incidents \union {nextId} /\ nextId' = nextId + 1
          /\ incidents'[nextId] = [triggers |-> SnapshotTriggers(s), state |-> "open"]
          /\ \A i \in DOMAIN incidents : incidents'[i] = incidents[i]
          /\ cases' \subseteq cases \union {nextId} /\ faults' \in 0..MaxFaults
      <4> HIDE DEF s
      <4> QED
        BY <2>4, OpenEffect
    <3> QED
      BY <1>0, <2>1, <3>1, <3>2 DEF coreVars, IngestTypeOK
  <2> QED
    BY <1>5, <2>3, <2>4 DEF IngestSnapshot
<1>6. ASSUME NEW ok \in BOOLEAN, IngestBreach(ok) PROVE IngestTypeOK'
  <2> DEFINE b == breachCursor + 1
  <2>1. b \in 1..breachCount /\ breachCursor' = b
        /\ UNCHANGED <<coreVars, snapCursor, stored, cycle, snapPage, breachPage, settled>>
    BY <1>0, <1>6 DEF IngestBreach, IngestTypeOK
  <2>2. CASE Skip
    BY <1>0, <2>1, <2>2 DEF Skip, coreVars, IngestTypeOK
  <2>3. CASE Open({Breach(b)}, TRUE, ok)
    <3>1. [triggers |-> {Breach(b)}, state |-> "open"] \in Incident
      BY <1>0, <2>1 DEF Incident, Trigger, Breach, IngestTypeOK
    <3>2. /\ DOMAIN incidents' = DOMAIN incidents \union {nextId} /\ nextId' = nextId + 1
          /\ incidents'[nextId] = [triggers |-> {Breach(b)}, state |-> "open"]
          /\ \A i \in DOMAIN incidents : incidents'[i] = incidents[i]
          /\ cases' \subseteq cases \union {nextId} /\ faults' \in 0..MaxFaults
      <4> HIDE DEF b
      <4> QED
        BY <2>3, OpenEffect
    <3>4. incidents'[nextId] \in Incident
      BY <3>1, <3>2
    <3> HIDE DEF b
    <3>3. nextId' \in Nat \ {0} /\ nextId \in 1..(nextId' - 1)
          /\ \A i \in DOMAIN incidents' : i \in 1..(nextId' - 1) /\ incidents'[i] \in Incident
      <4>1. nextId \in Nat \ {0}
        BY DEF IngestTypeOK
      <4> HIDE DEF Incident
      <4> QED
        <5>1. nextId' \in Nat \ {0} /\ nextId \in 1..(nextId' - 1)
          BY <3>2, <4>1
        <5>2. ASSUME NEW i \in DOMAIN incidents
              PROVE  i \in 1..(nextId' - 1) /\ incidents'[i] \in Incident
          <6>1. i \in 1..(nextId - 1) /\ incidents'[i] \in Incident
            BY <1>0, <3>2
          <6> QED
            BY <3>2, <4>1, <6>1
        <5> QED
          BY <3>2, <3>4, <5>1, <5>2
    <3> QED
      BY <1>0, <2>1, <3>2, <3>3 DEF coreVars, IngestTypeOK
  <2> QED
    BY <1>6, <2>2, <2>3 DEF IngestBreach
<1>7. CASE Drive
  <2>1. PICK left \in [OpenIds -> {"awaiting", "terminal"}] :
            incidents' = [i \in DOMAIN incidents |->
                             IF i \in OpenIds THEN [incidents[i] EXCEPT !.state = left[i]]
                             ELSE incidents[i]]
    BY <1>7 DEF Drive
  <2>2. \A i \in DOMAIN incidents : \A q \in {"awaiting", "terminal"} :
            [incidents[i] EXCEPT !.state = q] \in Incident
    BY <1>0 DEF Incident
  <2>3. DOMAIN incidents' = DOMAIN incidents /\ \A i \in DOMAIN incidents : incidents'[i] \in Incident
    BY <1>0, <2>1, <2>2 DEF OpenIds
  <2> QED
    BY <1>0, <1>7, <2>3 DEF Drive, coreVars, IngestTypeOK
<1>8. ASSUME NEW ok \in BOOLEAN, Persist(ok) PROVE IngestTypeOK'
  <2>1. \/ stored' = stored
        \/ /\ stored'.snapCursor = snapCursor /\ stored'.breachCursor = breachCursor
           /\ \A i \in DOMAIN stored'.incidents :
                  i \in DOMAIN incidents /\ stored'.incidents[i] = incidents[i]
    BY <1>8 DEF Persist
  <2>2. faults' \in 0..MaxFaults
    BY <1>8 DEF Persist, Answers, IngestTypeOK
  <2> QED
    BY <1>0, <1>8, <2>1, <2>2 DEF Persist, coreVars, memory, IngestTypeOK
<1>9. CASE Crash
  BY <1>0, <1>9 DEF Crash, coreVars, memory, IngestTypeOK
<1>10. ASSUME NEW ok \in BOOLEAN, Restart(ok) PROVE IngestTypeOK'
  <2>1. \/ incidents' = stored.incidents /\ snapCursor' = stored.snapCursor
           /\ breachCursor' = stored.breachCursor
        \/ DOMAIN incidents' = {} /\ snapCursor' = 0 /\ breachCursor' = 0
    BY <1>10 DEF Restart, NoState
  <2>2. faults' \in 0..MaxFaults
    BY <1>10 DEF Restart, Answers, IngestTypeOK
  <2> QED
    BY <1>0, <1>10, <2>1, <2>2 DEF Restart, coreVars, IngestTypeOK
<1>11. CASE UNCHANGED ingestVars
  BY <1>0, <1>11 DEF ingestVars, coreVars, memory, IngestTypeOK
<1> QED
  BY <1>1, <1>2, <1>3, <1>4, <1>5, <1>6, <1>7, <1>8, <1>9, <1>10, <1>11
     DEF IngestNext, IngestStep

-----------------------------------------------------------------------------
(* The rest of the invariant, one lemma per kind of step. *)

\* The logs of core only grow, which leaves what is whole or covered so.
LEMMA LogsGrow ==
    ASSUME NEW n \in Nat, NEW m \in Nat, n <= m, NEW ss, NEW tt,
           Len(ss) \in Nat, Len(tt) \in Nat, Len(ss) <= Len(tt),
           \A s \in 1..Len(ss) : tt[s] = ss[s], NEW lost, NEW more, lost \subseteq more
    PROVE  /\ \A T : Whole(n, ss, T) => Whole(m, tt, T)
           /\ \A incs : AllWhole(n, ss, incs) => AllWhole(m, tt, incs)
           /\ \A s \in 0..Len(ss) : \A b, T :
                  Covered(ss, lost, s, b, T) => Covered(tt, more, s, b, T)
<1>1. ASSUME NEW T, Whole(n, ss, T) PROVE Whole(m, tt, T)
  <2>1. T \subseteq Published(m, tt)
    <3>1. 1..n \subseteq 1..m /\ 1..Len(ss) \subseteq 1..Len(tt)
      OBVIOUS
    <3> QED
      BY <1>1, <3>1 DEF Whole, Published
  <2>2. ASSUME NEW s \in 1..Len(tt), Snapshot(s) \in T PROVE s \in 1..Len(ss)
    <3>1. Snapshot(s) \in Published(n, ss)
      BY <1>1, <2>2 DEF Whole
    <3> QED
      BY <3>1, TriggersDiffer DEF Published
  <2> QED
    BY <1>1, <2>1, <2>2 DEF Whole
<1>2. ASSUME NEW s \in 0..Len(ss), NEW b, NEW T, Covered(ss, lost, s, b, T)
      PROVE  Covered(tt, more, s, b, T)
  <2>1. 1..s \subseteq 1..Len(ss) /\ 1..Len(ss) \subseteq 1..Len(tt)
    OBVIOUS
  <2> QED
    BY <1>2, <2>1 DEF Covered
<1> QED
  BY <1>1, <1>2 DEF AllWhole

\* A wider set of triggers covers as much.
LEMMA CoveredByMore ==
    ASSUME NEW ss, NEW lost, NEW s, NEW b, NEW T, NEW U, T \subseteq U, Covered(ss, lost, s, b, T)
    PROVE  Covered(ss, lost, s, b, U)
BY DEF Covered

\* What the incidents hold is whole when each of them is.
LEMMA WholeTogether ==
    ASSUME NEW n, NEW ss, NEW incs, AllWhole(n, ss, incs)
    PROVE  Whole(n, ss, TriggeredFrom(incs))
<1>1. \A t : t \in TriggeredFrom(incs) <=> \E i \in DOMAIN incs : t \in incs[i].triggers
  BY DEF TriggeredFrom
<1> QED
  BY <1>1 DEF AllWhole, Whole

\* The producers.
LEMMA ProducersStep ==
    IngestInv /\ IngestTypeOK' /\ (PublishBreach \/ PublishSnapshot \/ TimePasses) => IngestInv'
<1> SUFFICES ASSUME IngestInv, IngestTypeOK', PublishBreach \/ PublishSnapshot \/ TimePasses
             PROVE  IngestInv'
  OBVIOUS
<1>1. UNCHANGED <<snapCursor, breachCursor, incidents, stored, cycle, snapPage, settled>>
  BY DEF PublishBreach, PublishSnapshot, TimePasses, memory
<1>2. /\ breachCount \in Nat /\ breachCount' \in Nat /\ breachCount <= breachCount'
      /\ Len(snapshots) \in Nat /\ Len(snapshots') \in Nat /\ Len(snapshots) <= Len(snapshots')
      /\ \A s \in 1..Len(snapshots) : snapshots'[s] = snapshots[s]
  <2>0. IngestTypeOK
    BY DEF IngestInv
  <2>1. /\ breachCount \in Nat /\ breachCount' \in Nat /\ Len(snapshots) \in Nat
        /\ snapshots \in Seq(Assessment)
        /\ Len(snapshots') \in Nat
    <3>1. /\ breachCount \in Nat /\ Len(snapshots) \in Nat
          /\ snapshots \in Seq(Assessment)
      BY <2>0, IngestBounds DEF IngestTypeOK
    <3>2. breachCount' \in Nat
      BY IngestBounds DEF IngestTypeOK
    <3>3. snapshots' \in Seq(Assessment)
      BY DEF IngestTypeOK
    <3> QED
      BY <3>1, <3>2, <3>3
  <2>2. breachCount' \in {breachCount, breachCount + 1}
    BY DEF PublishBreach, PublishSnapshot, TimePasses
  <2>3. CASE snapshots' = snapshots
    BY <2>1, <2>2, <2>3
  <2>4. CASE PublishSnapshot
    <3>1. PICK new : snapshots' = Append(snapshots, new)
      BY <2>4 DEF PublishSnapshot
    <3>2. Len(snapshots') = Len(snapshots) + 1 /\ \A s \in 1..Len(snapshots) : snapshots'[s] = snapshots[s]
      BY <2>1, <3>1
    <3> QED
      BY <2>1, <2>2, <3>2
  <2> QED
    BY <2>3, <2>4 DEF PublishBreach, TimePasses
<1>3. /\ \A T : Whole(breachCount, snapshots, T) => Whole(breachCount', snapshots', T)
      /\ \A incs : AllWhole(breachCount, snapshots, incs) => AllWhole(breachCount', snapshots', incs)
      /\ \A s \in 0..Len(snapshots) : \A b, T :
             Covered(snapshots, broken, s, b, T) => Covered(snapshots', broken', s, b, T)
  <2>1. broken \subseteq broken'
    BY DEF PublishBreach, PublishSnapshot, TimePasses
  <2> QED
    BY <1>2, <2>1, LogsGrow
<1>4. snapCursor \in 0..Len(snapshots) /\ stored.snapCursor \in 0..Len(snapshots)
  BY DEF IngestInv, IngestTypeOK
<1>5. Held' = Held /\ Accounted' = Accounted
  BY <1>1 DEF Held, Accounted, TriggeredFrom
<1> QED
  BY <1>1, <1>3, <1>4, <1>5 DEF IngestInv, AllYield, Yields, SourcesOf, AllEnded

\* The polls, an unreadable page and a crash leave cursors and incidents alone.
LEMMA QuietStep ==
    ASSUME IngestInv, IngestTypeOK',
           \/ \E ok \in BOOLEAN : PollSnapshots(ok) \/ PollBreaches(ok)
           \/ FallbackRaises \/ Crash \/ UNCHANGED ingestVars
    PROVE  IngestInv'
<1>1. UNCHANGED <<breachCount, broken, snapshots, snapCursor, breachCursor, incidents, stored, settled>>
  BY DEF PollSnapshots, PollBreaches, FallbackRaises, Crash, ingestVars, coreVars, memory
<1>2. cycle' = "breaches" => snapPage' <= snapCursor'
  <2>1. CASE \E ok \in BOOLEAN : PollSnapshots(ok)
    BY <2>1 DEF PollSnapshots
  <2>2. CASE \E ok \in BOOLEAN : PollBreaches(ok)
    BY <2>2, <1>1 DEF PollBreaches, IngestInv, IngestTypeOK
  <2>3. CASE FallbackRaises \/ Crash \/ UNCHANGED ingestVars
    BY <2>3, <1>1 DEF FallbackRaises, Crash, ingestVars, coreVars, memory, IngestInv
  <2> QED
    BY <2>1, <2>2, <2>3
<1>3. Held' = Held /\ Accounted' = Accounted
  BY <1>1 DEF Held, Accounted
<1> QED
  BY <1>1, <1>2, <1>3 DEF IngestInv

\* The coordinator leaves every incident with its triggers; one that it ends is settled.
LEMMA DriveStep ==
    ASSUME IngestInv, IngestTypeOK', Drive
    PROVE  IngestInv'
<1>1. UNCHANGED <<breachCount, broken, snapshots, snapCursor, breachCursor, stored>>
      /\ cycle' = "driven"
  BY DEF Drive, coreVars
<1>2. PICK left \in [OpenIds -> {"awaiting", "terminal"}] :
          /\ incidents' = [i \in DOMAIN incidents |->
                              IF i \in OpenIds THEN [incidents[i] EXCEPT !.state = left[i]]
                              ELSE incidents[i]]
          /\ settled' = settled \union
                 UNION {incidents[i].triggers : i \in {j \in OpenIds : left[j] = "terminal"}}
  BY DEF Drive
<1>3. \A i \in DOMAIN incidents : incidents[i] \in Incident
  BY DEF IngestInv, IngestTypeOK
<1>4. \A i \in DOMAIN incidents : \A q \in {"awaiting", "terminal"} :
          /\ [incidents[i] EXCEPT !.state = q].triggers = incidents[i].triggers
          /\ [incidents[i] EXCEPT !.state = q].state = q
  BY <1>3 DEF Incident
<1>5. /\ DOMAIN incidents' = DOMAIN incidents
      /\ \A i \in DOMAIN incidents : incidents'[i].triggers = incidents[i].triggers
  BY <1>2, <1>4 DEF OpenIds
<1>6. settled \subseteq settled' /\ settled' \subseteq Held
  BY <1>2 DEF Held, TriggeredFrom, OpenIds
<1>7. AllEnded(incidents', settled')
  <2> SUFFICES ASSUME NEW i \in DOMAIN incidents, incidents'[i].state = "terminal"
               PROVE  incidents[i].triggers \subseteq settled'
    BY <1>5 DEF AllEnded
  <2>1. CASE i \in OpenIds
    <3>1. left[i] = "terminal"
      BY <1>2, <1>4, <2>1
    <3> QED
      BY <1>2, <2>1, <3>1
  <2>2. CASE i \notin OpenIds
    BY <1>2, <1>6, <2>2 DEF IngestInv, AllEnded
  <2> QED
    BY <2>1, <2>2
<1>8. AllEnded(stored.incidents, settled')
  BY <1>6 DEF IngestInv, AllEnded
<1>9. Held' = Held
  <2>1. TriggeredFrom(incidents') = TriggeredFrom(incidents)
    BY <1>5 DEF TriggeredFrom
  <2> QED
    BY <1>6, <2>1 DEF Held
<1>10. Covered(snapshots, broken, stored.snapCursor, stored.breachCursor, Accounted')
  <2>1. Accounted \subseteq Accounted'
    BY <1>1, <1>6 DEF Accounted
  <2> QED
    BY <2>1, CoveredByMore DEF IngestInv
<1>11. Whole(breachCount, snapshots, settled')
  <2>1. Whole(breachCount, snapshots, Held)
    BY WholeTogether DEF IngestInv, Held, Whole
  <2>2. settled' \subseteq Published(breachCount, snapshots)
    BY <1>6, <2>1 DEF Whole
  <2>3. ASSUME NEW s \in 1..Len(snapshots), Snapshot(s) \in settled', NEW b \in snapshots[s].parents
        PROVE  Breach(b) \in settled'
    <3>1. CASE Snapshot(s) \in settled
      BY <1>6, <2>3, <3>1 DEF IngestInv, Whole
    <3>2. CASE \E i \in OpenIds : left[i] = "terminal" /\ Snapshot(s) \in incidents[i].triggers
      <4>1. PICK i \in OpenIds : left[i] = "terminal" /\ Snapshot(s) \in incidents[i].triggers
        BY <3>2
      <4>2. Breach(b) \in incidents[i].triggers
        BY <2>3, <4>1 DEF IngestInv, AllWhole, Whole, OpenIds
      <4> QED
        BY <1>2, <4>1, <4>2
    <3> QED
      BY <1>2, <2>3, <3>1, <3>2
  <2> QED
    BY <2>2, <2>3 DEF Whole
<1>12. AllWhole(breachCount, snapshots, incidents') /\ AllYield(incidents')
  BY <1>5 DEF IngestInv, AllWhole, AllYield, Yields, SourcesOf
<1> QED
  BY <1>1, <1>7, <1>8, <1>9, <1>10, <1>11, <1>12 DEF IngestInv

\* The runner's store: what memory covered is now covered by core, because whatever
\* was pruned had been driven to its end.
LEMMA PersistStep ==
    ASSUME IngestInv, IngestTypeOK', NEW ok \in BOOLEAN, Persist(ok)
    PROVE  IngestInv'
<1>1. UNCHANGED <<breachCount, broken, snapshots, snapCursor, breachCursor, incidents, snapPage, settled>>
      /\ cycle' = "idle"
  BY DEF Persist, coreVars, memory
<1>2. Held' = Held
  BY <1>1 DEF Held
<1>3. CASE stored' = stored
  <2>1. Accounted' = Accounted
    BY <1>1, <1>3 DEF Accounted
  <2> QED
    BY <1>1, <1>2, <1>3, <2>1 DEF IngestInv
<1>4. ASSUME NEW pruned \in SUBSET Aged,
             stored' = [snapCursor |-> snapCursor, breachCursor |-> breachCursor,
                        incidents |-> [i \in DOMAIN incidents \ pruned |-> incidents[i]]]
      PROVE  IngestInv'
  <2> DEFINE saved == [i \in DOMAIN incidents \ pruned |-> incidents[i]]
  <2>1. DOMAIN saved \subseteq DOMAIN incidents /\ \A i \in DOMAIN saved : saved[i] = incidents[i]
    OBVIOUS
  <2>2. /\ stored'.snapCursor = snapCursor /\ stored'.breachCursor = breachCursor
        /\ stored'.incidents = saved
    BY <1>4
  <2>3. Held \subseteq Accounted'
    <3>1. ASSUME NEW t \in Held PROVE t \in settled \union TriggeredFrom(saved)
      <4>1. CASE t \in settled
        BY <4>1
      <4>2. CASE \E i \in DOMAIN incidents : t \in incidents[i].triggers
        <5>1. PICK i \in DOMAIN incidents : t \in incidents[i].triggers
          BY <4>2
        <5>2. CASE i \in pruned
          BY <5>1, <5>2 DEF IngestInv, AllEnded, Aged
        <5>3. CASE i \in DOMAIN saved
          BY <2>1, <5>1, <5>3 DEF TriggeredFrom
        <5> QED
          BY <5>2, <5>3
      <4> QED
        BY <3>1, <4>1, <4>2 DEF Held, TriggeredFrom
    <3> QED
      BY <1>1, <2>2, <3>1 DEF Accounted
  <2>4. Covered(snapshots, broken, snapCursor, breachCursor, Accounted')
    BY <2>3, CoveredByMore DEF IngestInv
  <2>5. AllWhole(breachCount, snapshots, saved) /\ AllYield(saved) /\ AllEnded(saved, settled)
    BY <2>1 DEF IngestInv, AllWhole, AllYield, AllEnded
  <2> HIDE DEF saved
  <2> QED
    BY <1>1, <1>2, <2>2, <2>4, <2>5 DEF IngestInv
<1> QED
  BY <1>3, <1>4 DEF Persist

\* restore_state: the stored state, or nothing at all, is in memory again.
LEMMA RestartStep ==
    ASSUME IngestInv, IngestTypeOK', NEW ok \in BOOLEAN, Restart(ok)
    PROVE  IngestInv'
<1>1. UNCHANGED <<breachCount, broken, snapshots, stored, settled>> /\ cycle' = "idle"
  BY DEF Restart, coreVars
<1>2. Accounted' = Accounted
  BY <1>1 DEF Accounted
<1>3. CASE /\ incidents' = stored.incidents /\ snapCursor' = stored.snapCursor
           /\ breachCursor' = stored.breachCursor
  <2>1. Held' = Accounted
    BY <1>1, <1>3 DEF Held, Accounted
  <2> QED
    BY <1>1, <1>2, <1>3, <2>1 DEF IngestInv
<1>4. CASE DOMAIN incidents' = {} /\ snapCursor' = 0 /\ breachCursor' = 0
  <2>1. /\ Covered(snapshots, broken, snapCursor', breachCursor', Held')
        /\ AllWhole(breachCount, snapshots, incidents') /\ AllYield(incidents')
        /\ AllEnded(incidents', settled)
    BY <1>4 DEF Covered, AllWhole, AllYield, AllEnded
  <2> QED
    BY <1>1, <1>2, <2>1 DEF IngestInv
<1> QED
  BY <1>3, <1>4 DEF Restart, NoState

\* An incident that is opened for whole triggers and yields to those before it.
LEMMA OpenKeeps ==
    ASSUME IngestInv, NEW T, NEW anchored, NEW ok, Open(T, anchored, ok),
           UNCHANGED <<settled, stored>>,
           Whole(breachCount, snapshots, T),
           \A i \in DOMAIN incidents : Yields(incidents[i], [triggers |-> T, state |-> "open"])
    PROVE  /\ AllWhole(breachCount, snapshots, incidents') /\ AllYield(incidents')
           /\ Held' = Held \union T /\ Accounted' = Accounted /\ AllEnded(incidents', settled)
<1>1. /\ DOMAIN incidents' = DOMAIN incidents \union {nextId} /\ nextId \in Nat
      /\ nextId \notin DOMAIN incidents
      /\ incidents'[nextId] = [triggers |-> T, state |-> "open"]
      /\ \A i \in DOMAIN incidents : incidents'[i] = incidents[i] /\ i < nextId /\ i \in Nat
      /\ TriggeredFrom(incidents') = TriggeredFrom(incidents) \union T
  BY OpenEffect DEF IngestInv
<1>2. AllWhole(breachCount, snapshots, incidents')
  <2>1. incidents'[nextId].triggers = T
    BY <1>1
  <2> QED
    BY <1>1, <2>1 DEF IngestInv, AllWhole
<1>3. ASSUME NEW i \in DOMAIN incidents', NEW j \in DOMAIN incidents', i < j
      PROVE  Yields(incidents'[i], incidents'[j])
  <2>1. i \in DOMAIN incidents
    BY <1>1, <1>3
  <2>2. CASE j = nextId
    BY <1>1, <2>1, <2>2
  <2>3. CASE j \in DOMAIN incidents
    BY <1>1, <1>3, <2>1, <2>3 DEF IngestInv, AllYield
  <2> QED
    BY <1>1, <2>2, <2>3
<1>4. Held' = Held \union T /\ Accounted' = Accounted
  BY <1>1 DEF Held, Accounted
<1>5. incidents'[nextId].state # "terminal"
  BY <1>1
<1>6. AllEnded(incidents', settled)
  BY <1>1, <1>5 DEF IngestInv, AllEnded
<1> QED
  BY <1>2, <1>3, <1>4, <1>6 DEF AllYield

\* One turn of _ingest_snapshots: the snapshot is opened, held already or cannot be.
LEMMA SnapshotStep ==
    ASSUME IngestInv, IngestTypeOK', NEW ok \in BOOLEAN, IngestSnapshot(ok)
    PROVE  IngestInv'
<1> DEFINE s == snapCursor + 1
           T == SnapshotTriggers(s)
<1>1. /\ UNCHANGED <<breachCount, broken, snapshots, breachCursor, stored, snapPage, settled>>
      /\ cycle' = "snapshots" /\ snapCursor' = s
  BY DEF IngestSnapshot, coreVars
<1>2. /\ s \in 1..Len(snapshots) /\ 1..s = (1..snapCursor) \union {s}
      /\ snapshots[s].parents \subseteq 1..breachCount
  <2>1. /\ snapCursor \in Nat /\ snapPage \in 0..Len(snapshots) /\ Len(snapshots) \in Nat
        /\ \A r \in 1..Len(snapshots) : snapshots[r].parents \subseteq 1..breachCount
    <3>1. IngestTypeOK
      BY DEF IngestInv
    <3>2. Len(snapshots) \in Nat /\ snapCursor \in 0..Len(snapshots) /\ snapPage \in 0..Len(snapshots)
      BY <3>1 DEF IngestTypeOK
    <3>3. \A r \in 1..Len(snapshots) : snapshots[r].parents \subseteq 1..breachCount
      BY <3>1 DEF IngestTypeOK
    <3> QED
      BY <3>2, <3>3
  <2>2. snapCursor < snapPage
    BY DEF IngestSnapshot
  <2> QED
    BY <2>1, <2>2
<1>3. ASSUME NEW U, Held \subseteq U, Snapshot(s) \in U \/ snapshots[s].data # "fine"
      PROVE  Covered(snapshots, broken, s, breachCursor, U)
  <2>1. Covered(snapshots, broken, snapCursor, breachCursor, U)
    BY <1>3, CoveredByMore DEF IngestInv
  <2> HIDE DEF s
  <2> QED
    BY <1>2, <1>3, <2>1 DEF Covered
<1>4. CASE Skip /\ (Snapshot(s) \in TriggeredFrom(incidents) \/ snapshots[s].data # "fine")
  <2>1. Held' = Held /\ Accounted' = Accounted /\ incidents' = incidents
    BY <1>1, <1>4 DEF Skip, Held, Accounted
  <2>2. Covered(snapshots, broken, s, breachCursor, Held)
    BY <1>3, <1>4 DEF Held
  <2> QED
    BY <1>1, <2>1, <2>2 DEF IngestInv
<1>5. CASE /\ Open(T, snapshots[s].parents # {}, ok)
           /\ Snapshot(s) \notin TriggeredFrom(incidents)
  <2>1. Snapshot(s) \in T /\ \A t \in T : t = Snapshot(s) \/ \E b \in snapshots[s].parents : t = Breach(b)
    BY DEF SnapshotTriggers
  <2>2. Whole(breachCount, snapshots, T)
    <3>1. T \subseteq Published(breachCount, snapshots)
      BY <1>2, <2>1 DEF Published
    <3>2. \A r : Snapshot(r) \in T => r = s
      BY <2>1, TriggersDiffer
    <3>3. \A b \in snapshots[s].parents : Breach(b) \in T
      BY DEF SnapshotTriggers
    <3> QED
      BY <3>1, <3>2, <3>3 DEF Whole
  <2>3. ASSUME NEW i \in DOMAIN incidents
        PROVE  Yields(incidents[i], [triggers |-> T, state |-> "open"])
    <3>1. Snapshot(s) \notin incidents[i].triggers
      BY <1>5 DEF TriggeredFrom
    <3>2. \A t \in T : t[1] = "snapshot" => t = Snapshot(s)
      BY <2>1, TriggersDiffer
    <3>3. SourcesOf([triggers |-> T, state |-> "open"]) = {Snapshot(s)}
      BY <2>1, <3>2, TriggersDiffer DEF SourcesOf
    <3> QED
      BY <3>1, <3>3 DEF Yields, SourcesOf
  <2>4. /\ AllWhole(breachCount, snapshots, incidents') /\ AllYield(incidents')
        /\ Held' = Held \union T /\ Accounted' = Accounted /\ AllEnded(incidents', settled)
    <3> HIDE DEF T
    <3> QED
      BY <1>1, <1>5, <2>2, <2>3, OpenKeeps
  <2>5. Covered(snapshots, broken, s, breachCursor, Held')
    BY <1>3, <2>1, <2>4
  <2> QED
    BY <1>1, <2>4, <2>5 DEF IngestInv
<1> QED
  BY <1>4, <1>5 DEF IngestSnapshot

\* One turn of _ingest_orphan_breaches: the breach is opened, or an incident or a
\* snapshot that the cursor has passed holds it.
LEMMA BreachStep ==
    ASSUME IngestInv, IngestTypeOK', NEW ok \in BOOLEAN, IngestBreach(ok)
    PROVE  IngestInv'
<1> DEFINE b == breachCursor + 1
<1>1. /\ UNCHANGED <<breachCount, broken, snapshots, snapCursor, stored, cycle, snapPage, settled>>
      /\ breachCursor' = b /\ cycle = "breaches"
  BY DEF IngestBreach, coreVars
<1>2. b \in 1..breachCount /\ 1..b = (1..breachCursor) \union {b}
  <2>1. breachCursor \in Nat /\ breachPage \in 0..breachCount /\ breachCount \in Nat
    BY IngestBounds DEF IngestInv, IngestTypeOK
  <2>2. breachCursor < breachPage
    BY DEF IngestBreach
  <2> QED
    BY <2>1, <2>2
<1>3. ASSUME NEW U, Held \subseteq U,
             \/ Breach(b) \in U
             \/ b \in broken
             \/ \E r \in 1..Len(snapshots) : b \in snapshots[r].parents /\ snapshots[r].data # "fine"
      PROVE  Covered(snapshots, broken, snapCursor, b, U)
  <2>1. Covered(snapshots, broken, snapCursor, breachCursor, U)
    BY <1>3, CoveredByMore DEF IngestInv
  <2> HIDE DEF b
  <2> QED
    BY <1>2, <1>3, <2>1 DEF Covered
<1>4. CASE /\ Skip
           /\ \/ Breach(b) \in TriggeredFrom(incidents) \/ b \in BreachIdsWithSnapshots
              \/ b \in broken
  <2>1. Held' = Held /\ Accounted' = Accounted /\ incidents' = incidents
    BY <1>1, <1>4 DEF Skip, Held, Accounted
  <2>2. ASSUME b \in BreachIdsWithSnapshots
        PROVE  \/ Breach(b) \in Held
               \/ \E r \in 1..Len(snapshots) : b \in snapshots[r].parents /\ snapshots[r].data # "fine"
    <3>1. PICK r \in 1..snapPage : b \in snapshots[r].parents
      BY <2>2 DEF BreachIdsWithSnapshots
    <3>2. r \in 1..snapCursor /\ r \in 1..Len(snapshots)
      BY <1>1 DEF IngestInv, IngestTypeOK
    <3>3. Snapshot(r) \in Held \/ snapshots[r].data # "fine"
      BY <3>2 DEF IngestInv, Covered
    <3>4. Whole(breachCount, snapshots, settled) /\ Whole(breachCount, snapshots, TriggeredFrom(incidents))
      BY WholeTogether DEF IngestInv
    <3> QED
      BY <3>1, <3>2, <3>3, <3>4 DEF Whole, Held
  <2>3. Covered(snapshots, broken, snapCursor, b, Held)
    BY <1>3, <1>4, <2>2 DEF Held
  <2> QED
    BY <1>1, <2>1, <2>3 DEF IngestInv
<1>5. CASE Open({Breach(b)}, TRUE, ok) /\ Breach(b) \notin TriggeredFrom(incidents)
  <2>1. Whole(breachCount, snapshots, {Breach(b)})
    BY <1>2, TriggersDiffer DEF Whole, Published
  <2>2. ASSUME NEW i \in DOMAIN incidents
        PROVE  Yields(incidents[i], [triggers |-> {Breach(b)}, state |-> "open"])
    BY <1>5 DEF Yields, TriggeredFrom
  <2>3. /\ AllWhole(breachCount, snapshots, incidents') /\ AllYield(incidents')
        /\ Held' = Held \union {Breach(b)} /\ Accounted' = Accounted
        /\ AllEnded(incidents', settled)
    <3> HIDE DEF b
    <3> QED
      BY <1>1, <1>5, <2>1, <2>2, OpenKeeps
  <2>4. Covered(snapshots, broken, snapCursor, b, Held')
    BY <1>3, <2>3
  <2> QED
    BY <1>1, <2>3, <2>4 DEF IngestInv
<1> QED
  BY <1>4, <1>5 DEF IngestBreach

LEMMA IngestInvariant == IngestSpec => []IngestInv
<1>1. IngestInv /\ [IngestNext]_ingestVars => IngestInv'
  <2> SUFFICES ASSUME IngestInv, [IngestNext]_ingestVars PROVE IngestInv'
    OBVIOUS
  <2>1. IngestTypeOK'
    BY IngestTypeStep DEF IngestInv
  <2> QED
    BY <2>1, ProducersStep, QuietStep, DriveStep, PersistStep, RestartStep, SnapshotStep, BreachStep
       DEF IngestNext, IngestStep
<1> QED
  BY InitIngest, <1>1, PTL DEF IngestSpec

-----------------------------------------------------------------------------

\* Every variable of the ingestion's model keeps its type.
THEOREM IngestTypeCorrect == IngestSpec => []IngestTypeOK
<1>1. IngestInv => IngestTypeOK
  BY DEF IngestInv
<1> QED
  BY IngestInvariant, <1>1, PTL

\* get_state and restore_state: through any number of bad records, failed polls, refused
\* cases, lost writes, crashes and failed restores, and whatever retention drops, the
\* stored cursors pass only what is in an incident stored with them, what was driven to
\* its end, or what cannot be opened.
THEOREM NothingPassedUnheld == IngestSpec => []CursorCovered
<1>1. IngestInv => CursorCovered
  BY DEF IngestInv, IngestTypeOK, CursorCovered, Covered, Unopenable
<1> QED
  BY IngestInvariant, <1>1, PTL

\* _ingest_orphan_breaches never opens a breach that an incident holds: of two incidents
\* that share a trigger the later one was opened for a snapshot of its own.
THEOREM FallbackNeverRepeats == IngestSpec => []FallbackYields
<1>1. IngestInv => FallbackYields
  <2>1. IngestInv => \A i \in DOMAIN incidents : Sources(i) = SourcesOf(incidents[i])
    BY DEF Sources, SourcesOf
  <2> QED
    BY <2>1 DEF IngestInv, AllYield, Yields, FallbackYields
<1> QED
  BY IngestInvariant, <1>1, PTL
=============================================================================
