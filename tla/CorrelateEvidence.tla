--------------------------- MODULE CorrelateEvidence ---------------------------
(***************************************************************************)
(* The evidence of correlate and what it concludes from it: traces and the *)
(* declared topology (traces/*.py, worker.py), contracts (worker.py), the  *)
(* chain of overridden verdicts (verdict_chain.py), the model's reading of *)
(* the groups (snapshot/model.py, reasoning.py), and `correlate` itself    *)
(* (cli.py, prometheus.py).                                                *)
(***************************************************************************)
EXTENDS Decision, Integers, Sequences, FiniteSets, SequencesExt, FiniteSetsExt

CONSTANTS
    Traced,             \* services, numbered from 1
    MaxSpans,           \* bound on the client spans of one call
    MaxChain            \* max_depth of the chain analysis

Nobody == 0             \* a span without a peer
Words(n, S) == UNION {[1..k -> S] : k \in 0..n}
NoDeps == [s \in Traced |-> {}]

-----------------------------------------------------------------------------
(* TempoTraceBackend: c is [asked, requests, spans, graph]; a span is [from, to, kind]. *)

\* The service graph metrics know only calls between the services asked for; the
\* spans also those to others, but not a service's calls to itself.
KnownCalls(c) ==
    IF c.graph THEN {p \in c.asked \X c.asked : \E i \in DOMAIN c.spans : <<c.spans[i].from, c.spans[i].to>> = p}
    ELSE {p \in c.asked \X Traced : p[1] # p[2] /\ \E i \in DOMAIN c.spans : <<c.spans[i].from, c.spans[i].to>> = p}
Calling(c, p, kinds) ==
    Cardinality({i \in DOMAIN c.spans : <<c.spans[i].from, c.spans[i].to>> = p /\ c.spans[i].kind \in kinds})
CallEdge(c, p) ==
    [from |-> p[1], to |-> p[2], count |-> Calling(c, p, {"fine", "error", "slow"}),
     errors |-> Calling(c, p, {"error"}), slow |-> Calling(c, p, {"slow"}) > 0]
TraceEdges(c) == {CallEdge(c, p) : p \in KnownCalls(c)}

\* A service without requests has no profile; any failed query fails the whole.
Profiled(c) == {s \in c.asked : c.requests[s] > 0}
Callees(c, s) == {e \in TraceEdges(c) : e.from = s}
Callers(c, s) == {e \in TraceEdges(c) : e.to = s}

\* detect_topology_divergence
ObservedEdges(c) == {<<e.from, e.to>> : e \in UNION {Callees(c, s) \union Callers(c, s) : s \in Profiled(c)}}
DeclaredEdges(c) == {p \in Profiled(c) \X Profiled(c) : p[2] \in c.declared[p[1]]}
Divergence(c) ==
    [unobserved |-> DeclaredEdges(c) \ ObservedEdges(c),
     undeclared |-> ObservedEdges(c) \ DeclaredEdges(c)]

\* _check_guarantee_mismatches: each dependency promises an availability of one half
\* and no slow call.
GuaranteeMismatches(c) ==
    LET edges == UNION {Callees(c, s) : s \in Profiled(c)}
        declared == {e \in edges : e.to \in c.declared[e.from]}
    IN  {[edge |-> <<e.from, e.to>>, metric |-> "availability"] :
             e \in {e \in declared : 2 * (e.count - e.errors) < e.count}}
        \union {[edge |-> <<e.from, e.to>>, metric |-> "latency"] : e \in {e \in declared : e.slow}}

\* CorrelateTopologyModule.process_cycle
TopologyCycle(c) ==
    IF ~c.answers \/ Profiled(c) = {} THEN << >>
    ELSE LET d == Divergence(c)
             report == [unobserved |-> d.unobserved, undeclared |-> d.undeclared,
                        mismatches |-> GuaranteeMismatches(c)]
         IN  IF \A k \in DOMAIN report : report[k] = {} THEN << >> ELSE <<report>>

-----------------------------------------------------------------------------
(* CorrelateContractModule: a contract is [avail, latency], each a promise in tenths *)
(* or Unpromised; a service has SLOs that answer, in tenths, or NoFigure.             *)

Unpromised == -1
NoFigure == -2
Broken(service, contract) ==
    LET avail == contract.avail # Unpromised /\ service.avail # NoFigure
                     /\ service.avail < contract.avail
        latency == contract.latency # Unpromised /\ service.latency # NoFigure
                     /\ service.latency > contract.latency
    IN  {m \in {"availability", "latency"} : (m = "availability" /\ avail) \/ (m = "latency" /\ latency)}
\* A promise above one ends the contract's check, not the service's.
NotARatio(contract) == contract.avail > 10
Reported(service) ==
    LET contracts == service.contracts
        reports[i \in 0..Len(contracts)] ==
            IF i = 0 THEN << >>
            ELSE IF NotARatio(contracts[i]) \/ Broken(service, contracts[i]) = {} THEN reports[i - 1]
            ELSE Append(reports[i - 1], [contract |-> i, metrics |-> Broken(service, contracts[i])])
    IN  reports
ContractReports(service) == Reported(service)[Len(service.contracts)]
\* A service whose check raises loses what was not yet submitted; the next goes on.
ContractCycle(services) ==
    [s \in DOMAIN services |->
        LET reports == ContractReports(services[s])
        IN  IF services[s].raisesAt \in DOMAIN reports
            THEN SubSeq(reports, 1, services[s].raisesAt - 1) ELSE reports]

-----------------------------------------------------------------------------
(* VerdictChainAnalyzer: a verdict is [service, before, overridden, confidence,   *)
(* context], its context the numbers of the verdicts it was made from; "before" is *)
(* the baseline, the rest the incident.                                            *)

Reversed(vs, s) == {i \in DOMAIN vs : vs[i].service = s /\ ~vs[i].before /\ vs[i].overridden}
\* A verdict is counted once per context, so a share may exceed one.
References(vs, s, u) ==
    {p \in Reversed(vs, s) \X (DOMAIN vs) : p[2] \in vs[p[1]].context /\ vs[p[2]].service = u}
Upstreams(vs, s) ==
    {u \in Traced : LET n == Cardinality(References(vs, s, u))
                    IN  n > 0 /\ 10 * n >= Cardinality(Reversed(vs, s))}
Primary(vs, s) ==
    CHOOSE u \in Upstreams(vs, s) : \A w \in Upstreams(vs, s) \ {u} :
        LET n == Cardinality(References(vs, s, u))  m == Cardinality(References(vs, s, w))
        IN  n > m \/ (n = m /\ u < w)
Confidences(vs, S) ==
    LET sum[i \in 0..Len(vs)] ==
            IF i = 0 THEN 0 ELSE sum[i - 1] + (IF i \in S THEN vs[i].confidence ELSE 0)
    IN  sum
\* The mean confidence fell by more than 0.05; confidences are in twentieths.
MeanBelow(vs, new, old) ==
    Confidences(vs, new)[Len(vs)] * Cardinality(old)
        < (Confidences(vs, old)[Len(vs)] - Cardinality(old)) * Cardinality(new)
During(vs, u, before) == {i \in DOMAIN vs : vs[i].service = u /\ vs[i].before = before}
Degraded(vs, u) ==
    LET old == During(vs, u, TRUE)  new == During(vs, u, FALSE)
    IN  old # {} /\ new # {} /\ MeanBelow(vs, new, old)

\* _traverse: the upstream services blamed, nearest first; a deeper answer is preferred,
\* "left" levels deeper at most.
Traverse(vs) ==
    LET chains[left \in 0..(MaxChain - 1)] == [s \in Traced |->
            IF Upstreams(vs, s) = {} \/ ~Degraded(vs, Primary(vs, s)) THEN << >>
            ELSE IF left > 0 /\ Reversed(vs, Primary(vs, s)) # {}
                 THEN <<Primary(vs, s)>> \o chains[left - 1][Primary(vs, s)]
                 ELSE <<Primary(vs, s)>>]
    IN  chains
Analyze(vs, s) == Traverse(vs)[MaxChain - 1][s]

-----------------------------------------------------------------------------
(* The model: interpret and reason_about_correlations. *)

\* interpret: a child for each assessment of the answer, whatever the groups, put one by
\* one, then the parent; putsOk is how many puts succeed.  A failed call gives templates
\* that nobody stores; an answer with "untagged" children has no parent.
Interpret(groups, children, reply, putsOk) ==
    LET all == [i \in 1..(children + 1) |-> IF i <= children THEN "child" ELSE "parent"]
        built == IF reply = "untagged" /\ children > 0 THEN children ELSE children + 1
        kept == Min({putsOk, built})
    IN  CASE groups = 0 -> [stored |-> << >>, returned |-> 0, raised |-> FALSE]
          [] groups # 0 /\ reply = "fails" ->
                 [stored |-> << >>, returned |-> groups + 1, raised |-> FALSE]
          [] OTHER -> [stored |-> SubSeq(all, 1, kept),
                       returned |-> IF kept = children + 1 THEN kept ELSE 0,
                       raised |-> kept < children + 1]

\* _parse_reasoning_response: an answer is [group, cause]; answers about unknown groups
\* are dropped, and the last one about a group counts.
Reason(c) ==
    IF c.reasoning # "answers" THEN [mode |-> "heuristic", by |-> {}]
    ELSE [mode |-> "model", by |-> {i \in DOMAIN c.answers : c.answers[i].group \in DOMAIN c.groups}]
LastAbout(c, g) ==
    {i \in Reason(c).by : /\ c.answers[i].group = g
                          /\ \A j \in Reason(c).by : c.answers[j].group = g => j <= i}

-----------------------------------------------------------------------------
(* correlate_command: specs declare the dependencies; an alert, breach or verdict is *)
(* about a service.  A group is the number of its change candidates.                 *)

Dependents(deps, S) == {s \in Traced : deps[s] \cap S # {}}
BlastRadius(deps, known, s) ==
    LET reach[n \in 0..Cardinality(Traced)] ==
            IF n = 0 THEN {s}
            ELSE reach[n - 1] \union (Dependents(deps, reach[n - 1] \cap known) \cap known)
    IN  reach[Cardinality(Traced)] \union (IF s \in known THEN deps[s] ELSE {})

\* Each query of Prometheus fails on its own; what is gathered is about the blast radius.
\* An answer of an unforeseen shape raises, and so does the verdict store: the command
\* ends there.
GatheredEvents(c) ==
    LET affected == BlastRadius(c.deps, c.known, c.trigger)
    IN  {e \in c.events : ~c.raises /\ e.service \in affected /\ ~(e.source \in c.failing)}

FromModel(g) == <<[group |-> g, from |-> "model"]>>
FromChanges(c, g) == [k \in 1..c.groups[g] |-> [group |-> g, from |-> "change"]]
\* The model's answer silences the changes of the groups it left out.
MutCausesOf(c, g) == IF Reason(c).by # {} THEN FromModel(g) ELSE FromChanges(c, g)
CausesOf(c, g) ==
    IF \E i \in LastAbout(c, g) : c.answers[i].cause THEN FromModel(g) ELSE FromChanges(c, g)
RootCauses(c) ==
    LET causes[g \in 0..Len(c.groups)] ==
            IF g = 0 THEN << >> ELSE causes[g - 1] \o CausesOf(c, g)
    IN  causes
NoCorrelation == [exit |-> 0, stored |-> FALSE, forwarded |-> FALSE, causes |-> << >>]
CorrelateCommand(c) ==
    IF ~c.found \/ c.raises THEN [NoCorrelation EXCEPT !.exit = 1]
    ELSE IF c.groups = << >> THEN NoCorrelation
    ELSE [exit |-> IF c.respond = "unreadable" THEN 1 ELSE 0, stored |-> TRUE,
          forwarded |-> c.respond = "given", causes |-> RootCauses(c)[Len(c.groups)]]

-----------------------------------------------------------------------------
(* The calls, and what the answers must be. *)

Declarations == {NoDeps, [s \in Traced |-> IF s = 1 THEN {2} ELSE {}],
                 [s \in Traced |-> IF s = 1 THEN {2, 3} ELSE IF s = 2 THEN {1} ELSE {}]}
CallsOfTraces ==
    [about : {"traces"}, asked : {{1, 2}, Traced},
     requests : {[s \in Traced |-> IF s = quiet THEN 0 ELSE 4] : quiet \in {Nobody, 2, 3}},
     spans : Words(MaxSpans, [from : {1, 2}, to : {Nobody, 1, 2, 3}, kind : {"fine", "error", "slow"}]),
     graph : BOOLEAN, answers : {TRUE}, declared : Declarations]
    \union [about : {"traces"}, asked : {Traced}, requests : {[s \in Traced |-> 4]},
            spans : {<< >>}, graph : BOOLEAN, answers : {FALSE}, declared : Declarations]

Contracts == [avail : {Unpromised, 8, 11}, latency : {Unpromised, 3}]
Services == [avail : {7, 9, NoFigure}, latency : {2, 5}, raisesAt : {0, 1}, contracts : [1..2 -> Contracts]]
CallsOfContracts ==
    [about : {"contracts"},
     services : Services \X {s \in Services : s.avail = 7 /\ s.latency = 2 /\ s.contracts[1].avail = 8}]

\* Service 1 before and during the incident, service 2 likewise, and one verdict more.
Lineage(last, conf, over, cites) ==
    [i \in 1..5 |-> [service |-> IF i <= 2 THEN 1 ELSE IF i <= 4 THEN 2 ELSE last,
                     before |-> i \in {1, 3}, overridden |-> i \in over,
                     confidence |-> IF i \in conf THEN 16 ELSE 8,
                     context |-> IF i \in DOMAIN cites THEN cites[i] ELSE {}]]
CallsOfLineage ==
    [about : {"lineage"},
     verdicts : {Lineage(last, conf, over, cites) :
        last \in {2, 3}, conf \in SUBSET (1..4), over \in SUBSET {2, 4, 5},
        cites \in [{2, 4, 5} -> {{}, {2}, {4}, {2, 4}}]}]

CallsOfModel == [about : {"interpret"}, groups : 0..2, children : 0..3,
                 reply : {"answers", "untagged", "fails"}, putsOk : 0..4]
CallsOfCommand ==
    [about : {"correlate"}, found : BOOLEAN, raises : BOOLEAN, groups : Words(2, 0..2),
     reasoning : {"off", "unavailable", "fails", "answers"},
     answers : Words(2, [group : 1..3, cause : BOOLEAN]), respond : {"none", "unreadable", "given"}]
CallsOfGather ==
    [about : {"gather"}, trigger : Traced, known : {{1, 2}, Traced},
     deps : Declarations \union {[s \in Traced |-> IF s > 1 THEN {s - 1} ELSE {}]},
     events : {[service : Traced, source : {"alerts", "metrics", "verdicts"}]},
     failing : SUBSET {"alerts", "metrics"}, raises : BOOLEAN]

\* Between services that served requests the drift report is exact, whatever was asked
\* for; every difference is on one side; and a guarantee is only held against a call
\* that was declared and made.
Seen(c, a, b) == \E i \in DOMAIN c.spans : c.spans[i].from = a /\ c.spans[i].to = b
DriftIsExact ==
    call.about = "traces" =>
        LET report == TopologyCycle(call)
            d == Divergence(call)
        IN  /\ \A a, b \in Profiled(call) : a # b =>
                   /\ (<<a, b>> \in d.undeclared <=> Seen(call, a, b) /\ b \notin call.declared[a])
                   /\ (<<a, b>> \in d.unobserved <=> ~Seen(call, a, b) /\ b \in call.declared[a])
            /\ d.undeclared \cap d.unobserved = {}
            /\ \A m \in GuaranteeMismatches(call) :
                   Seen(call, m.edge[1], m.edge[2]) /\ m.edge[2] \in call.declared[m.edge[1]]
            /\ report = << >> <=> \/ ~call.answers
                                  \/ d.undeclared \union d.unobserved = {} /\ GuaranteeMismatches(call) = {}

\* A contract's report depends on that contract alone, and a service's on that service
\* alone; a contract with a readable promise that is broken is reported before the
\* service's check raises.
ContractsStandAlone ==
    call.about = "contracts" =>
        LET answers == ContractCycle(call.services)
        IN  \A s \in DOMAIN call.services :
                LET service == call.services[s]
                    alone(i) == ContractReports([service EXCEPT !.contracts = <<service.contracts[i]>>])
                IN  /\ answers[s] = ContractCycle(<<service>>)[1]
                    /\ service.raisesAt = 0 => \A i \in DOMAIN service.contracts :
                           (\E k \in DOMAIN answers[s] : answers[s][k].contract = i) <=> alone(i) # << >>

\* Every service blamed was cited by an overridden verdict of the one before it and did
\* get worse; a lineage that runs in a circle ends at the depth allowed; and nothing is
\* blamed for verdicts that nobody overrode.
BlameIsGrounded ==
    call.about = "lineage" =>
        \A s \in Traced :
            LET chain == Analyze(call.verdicts, s)
                before(k) == IF k = 1 THEN s ELSE chain[k - 1]
            IN  /\ Len(chain) <= MaxChain
                /\ \A k \in DOMAIN chain :
                       /\ \E d \in Reversed(call.verdicts, before(k)) :
                              \E x \in call.verdicts[d].context : call.verdicts[x].service = chain[k]
                       /\ \E x, y \in DOMAIN call.verdicts :
                              /\ call.verdicts[x].service = chain[k] /\ call.verdicts[y].service = chain[k]
                              /\ call.verdicts[x].before /\ ~call.verdicts[y].before
                              /\ call.verdicts[y].confidence < call.verdicts[x].confidence

\* A parent is stored only after all its children, as many as the answer has, and never
\* when a put or the roll-up raises.
ParentAfterChildren ==
    call.about = "interpret" =>
        LET done == Interpret(call.groups, call.children, call.reply, call.putsOk)
        IN  /\ Contains(done.stored, "parent") => Len(done.stored) = call.children + 1
            /\ done.raised => ~Contains(done.stored, "parent")

\* Every group is explained by the model or by its own changes, never by both; one the
\* model left out keeps its changes; and a responder is only started for an assessment
\* that is stored.
GroupsAreExplained ==
    call.about = "correlate" =>
        LET done == CorrelateCommand(call)
        IN  /\ done.forwarded => done.stored
            /\ done.stored => \A g \in DOMAIN call.groups :
                   LET own == {i \in DOMAIN done.causes : done.causes[i].group = g}
                       told == \E i \in DOMAIN call.answers : call.answers[i].group = g /\ call.answers[i].cause
                   IN  /\ \A i, j \in own : done.causes[i].from = done.causes[j].from
                       /\ ~(call.reasoning = "answers" /\ told) => Cardinality(own) = call.groups[g]
            /\ call.reasoning # "answers" => \A i \in DOMAIN done.causes : done.causes[i].from = "change"

\* One query of Prometheus that fails hides nothing of the others, unless the command
\* raises, and no event comes from a service that neither reaches the trigger nor is called
\* by it.
Reaches(deps, a, b) ==
    \A S \in SUBSET Traced : (a \in S /\ \A m \in S : deps[m] \subseteq S) => b \in S
GatherIsLocal ==
    call.about = "gather" =>
        LET got == GatheredEvents(call)
        IN  /\ \A e \in got : Reaches(call.deps, e.service, call.trigger)
                                \/ e.service \in call.deps[call.trigger]
            /\ ~call.raises => \A e \in call.events :
                   (e.service = call.trigger /\ e.source \notin call.failing) => e \in got
=============================================================================
