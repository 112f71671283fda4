----------------------------- MODULE Dependencies -----------------------------
(***************************************************************************)
(* Dependency discovery (observe/dependencies): what each provider reads   *)
(* out of its registry for a service, how the providers' answers are       *)
(* merged, the graph, and the blast radius computed on it.                 *)
(*                                                                         *)
(* A fact is something declared in one registry:                           *)
(*   by    the provider                                                    *)
(*   how   the form of the declaration                                     *)
(*   from, to, type   who depends on whom, and as what                     *)
(***************************************************************************)
EXTENDS Decision, Integers, Sequences, FiniteSets, SequencesExt, FiniteSetsExt

CONSTANTS
    MaxFacts,       \* bound on the facts of the registries
    MaxDepth        \* calculate_blast_radius(max_depth)

Apps == {"a", "b", "c"}
Edge(source, target, type, confidence, provider) ==
    [source |-> source, target |-> target, type |-> type,
     confidence |-> confidence, providers |-> {provider}]
Key(e) == <<e.source, e.target, e.type>>

-----------------------------------------------------------------------------
(* The providers: whether a fact is found when service s is looked at from its own *)
(* side (Up) or from the side of those that call it (Down), and as which edge.     *)

FromIngress(f, s) == f.how = "ingress" /\ f.to = s
FromEgressPolicy(f, s) == f.how = "egress" /\ f.from = s
FromIngressPolicy(f, s) == f.how = "policy" /\ f.to = s
FromOwnEnv(f, s) == f.how \in {"url", "host"} /\ f.from = s /\ f.to # s
\* A service host variable names the service in its name, and only values are searched.
FromOthersEnv(f, s) == f.how = "url" /\ f.to = s /\ f.from # s
KubernetesUp(f, s) == FromIngress(f, s) \/ FromEgressPolicy(f, s) \/ FromOwnEnv(f, s)
KubernetesDown(f, s) == FromIngress(f, s) \/ FromIngressPolicy(f, s) \/ FromOthersEnv(f, s)
KubernetesEdge(f) ==
    CASE f.how = "ingress" -> Edge("ingress", f.to, "infrastructure", 95, f.by)
      [] f.how \in {"egress", "policy"} -> Edge(f.from, f.to, "service", 85, f.by)
      [] OTHER -> Edge(f.from, f.to, f.type, 75, f.by)

PrometheusUp(f, s) == f.from = s
\* The target filter names the first of the labels, which the other queries lack.
TargetFilter(f, s) == f.to = s /\ f.how = "first"
PrometheusDown(f, s) == TargetFilter(f, s)
PrometheusEdge(f) ==
    Edge(f.from, f.to, f.type, IF f.type = "service" THEN 90 ELSE 85, f.by)

ConsulAllows(f) == f.how = "allow"
ConsulUp(f, s) == f.from = s /\ (f.how \in {"tag", "meta"} \/ ConsulAllows(f))
ConsulDown(f, s) == f.to = s /\ ConsulAllows(f)
ConsulEdge(f) ==
    CASE f.how = "tag" -> Edge(f.from, f.to, f.type, 80, f.by)
      [] f.how = "meta" -> Edge(f.from, f.to, f.type, 85, f.by)
      [] OTHER -> Edge(f.from, f.to, "service", 95, f.by)

BackstageUp(f, s) == f.from = s
BackstageDown(f, s) == f.to = s /\ f.from # s
\* Seen from the side of its target, a dependency is one on a service.
BackstageEdge(f, up) ==
    Edge(f.from, f.to, IF up /\ f.how = "dependsOn" THEN f.type ELSE "service",
         IF f.how = "dependsOn" THEN 95 ELSE 90, f.by)

EtcdUp(f, s) == f.from = s
EtcdEdge(f) == Edge(f.from, f.to, f.type, IF f.type = "service" THEN 80 ELSE 85, f.by)

ZookeeperUp(f, s) == f.from = s
ZookeeperEdge(f) == Edge(f.from, f.to, f.type, IF f.how = "instance" THEN 90 ELSE 85, f.by)

Providers == {"kubernetes", "prometheus", "consul", "backstage", "etcd", "zookeeper"}
UpFacts(f, s) ==
    CASE f.by = "kubernetes" -> KubernetesUp(f, s) [] f.by = "prometheus" -> PrometheusUp(f, s)
      [] f.by = "consul" -> ConsulUp(f, s) [] f.by = "backstage" -> BackstageUp(f, s)
      [] f.by = "etcd" -> EtcdUp(f, s) [] OTHER -> ZookeeperUp(f, s)
DownFacts(f, s) ==
    CASE f.by = "kubernetes" -> KubernetesDown(f, s) [] f.by = "prometheus" -> PrometheusDown(f, s)
      [] f.by = "consul" -> ConsulDown(f, s) [] f.by = "backstage" -> BackstageDown(f, s)
      [] OTHER -> FALSE
EdgeOf(f, up) ==
    CASE f.by = "kubernetes" -> KubernetesEdge(f) [] f.by = "prometheus" -> PrometheusEdge(f)
      [] f.by = "consul" -> ConsulEdge(f) [] f.by = "backstage" -> BackstageEdge(f, up)
      [] f.by = "etcd" -> EtcdEdge(f) [] OTHER -> ZookeeperEdge(f)

\* deduplicate_dependencies: per key the most confident, the first of equals.
Strongest(edges) ==
    LET best(i) == \A j \in DOMAIN edges : Key(edges[j]) = Key(edges[i]) =>
                       \/ edges[j].confidence < edges[i].confidence
                       \/ edges[j].confidence = edges[i].confidence /\ j >= i
    IN  {edges[i] : i \in {k \in DOMAIN edges : best(k)}}

\* A form of declaration that may not be read (forbidden, or its query fails) gives
\* nothing; the rest of the provider's answer stands.
Answer(facts, p, s, up, denied) ==
    LET found(f) == f.by = p /\ f.how \notin denied /\ IF up THEN UpFacts(f, s) ELSE DownFacts(f, s)
        hits == SelectSeq(facts, found)
    IN  Strongest([i \in DOMAIN hits |-> EdgeOf(hits[i], up)])

-----------------------------------------------------------------------------
(* DependencyDiscovery *)

\* The first edge of a key stays as it is.
MutAbsorb(edges, e) ==
    IF \E d \in edges : Key(d) = Key(e) THEN edges ELSE edges \union {e}
\* The first edge of a key takes over the providers and the confidence of the others.
Absorb(edges, e) ==
    IF \E d \in edges : Key(d) = Key(e)
    THEN LET d == CHOOSE x \in edges : Key(x) = Key(e) IN
         (edges \ {d}) \union
             {[d EXCEPT !.providers = @ \union e.providers,
                        !.confidence = IF e.confidence > @ THEN e.confidence ELSE @]}
    ELSE edges \union {e}

\* discover: providers in order, those in failing raise.
Gathered(c, s, up) ==
    FoldLeft(LAMBDA edges, p : IF p \in c.failing THEN edges
                               ELSE FoldSet(LAMBDA e, acc : Absorb(acc, e), edges,
                                            Answer(c.facts, p, s, up, c.denied)),
             {}, c.order)
Errors(c) == Range(c.order) \intersect c.failing

\* build_graph: what is discovered from each of the services asked about.
GraphOf(c, services) == UNION {Gathered(c, s, TRUE) \union Gathered(c, s, FALSE) : s \in services}

-----------------------------------------------------------------------------
(* calculate_blast_radius *)

DependentsOf(graph, apps) == {e.source : e \in {d \in graph : d.target \in apps}}
\* The services a failure reaches within n steps; the graph's own search is breadth
\* first and does not return to where it started.
Reached(graph, s) ==
    LET within[n \in 0..MaxDepth] ==
            IF n = 0 THEN {} ELSE DependentsOf(graph, {s} \union within[n - 1]) \ {s}
    IN  within
Affected(graph, s) == DependentsOf(graph, {s}) \union Reached(graph, s)[MaxDepth]

RiskLevels == <<"low", "medium", "high", "critical">>
RiskLevel(total, critical) ==
    CASE critical >= 2 \/ total >= 10 -> 4
      [] total >= 6 -> 3
      [] total >= 3 \/ critical >= 1 -> 2
      [] OTHER -> 1
Risk(graph, s, tiers) ==
    RiskLevel(Cardinality(Affected(graph, s)),
              Cardinality({a \in Affected(graph, s) : a \in DOMAIN tiers /\ tiers[a] = "critical"}))
BlastExit(level) == <<0, 1, 2, 2>>[level]

-----------------------------------------------------------------------------
(* The calls, and what the answers must be. *)

Fact(by, how, type, arcs) ==
    {[by |-> by, how |-> how, type |-> type, from |-> a[1], to |-> a[2]] : a \in arcs}
Arcs == {<<"a", "b">>, <<"b", "c">>, <<"c", "a">>}
Facts ==
    UNION {Fact("kubernetes", h, "datastore", {<<"a", "b">>}) : h \in {"ingress", "egress", "policy", "url", "host"}}
      \union Fact("prometheus", "first", "service", Arcs) \union Fact("prometheus", "other", "queue", {<<"a", "b">>})
      \union UNION {Fact("consul", h, "service", {<<"a", "b">>, <<"b", "c">>}) : h \in {"tag", "meta", "allow", "deny"}}
      \union UNION {Fact("backstage", h, "datastore", {<<"a", "b">>}) : h \in {"dependsOn", "consumes"}}
      \union Fact("etcd", "list", "service", {<<"a", "b">>}) \union Fact("etcd", "typed", "datastore", {<<"a", "b">>})
      \union UNION {Fact("zookeeper", h, "service", {<<"a", "b">>}) : h \in {"service", "instance"}}
\* The registries hold their facts in some order; a provider is asked once.
Registries == {<<f>> : f \in Facts} \union {<<f, g>> : f, g \in Facts}
CallsOfDependencies ==
    {c \in [about : {"dependencies"}, facts : Registries, failing : SUBSET {"consul", "prometheus"},
            denied : {{}, {"url", "allow"}}, service : {"a", "b"},
            order : {<<"kubernetes", "prometheus", "consul", "backstage", "etcd", "zookeeper">>}] :
        Len(c.facts) <= MaxFacts}
Chains == [1..3 -> {"a", "b", "c", "ingress"} \X Apps]
CallsOfBlast ==
    [about : {"blast"}, arcs : {Range(ch) : ch \in Chains}, tiers : {[a |-> "critical"], [b |-> "critical", c |-> "critical"]}]

\* What is discovered does not depend on the order in which providers are asked, and a
\* provider that fails is reported and hides nothing that another one knows.
DiscoveryIsMerged ==
    call.about = "dependencies" =>
        LET found(c) == Gathered(c, c.service, TRUE) \union Gathered(c, c.service, FALSE)
            without(p) == [call EXCEPT !.failing = @ \union {p}]
        IN  /\ found(call) = found([call EXCEPT !.order = Reverse(@)])
            /\ \A p \in Providers : {Key(e) : e \in found(without(p))}
                   = {Key(e) : e \in {d \in found(call) : d.providers # {p}}}
            /\ \A e \in found(call) : e.providers \intersect Errors(call) = {}
            /\ \A e, d \in Gathered(call, call.service, TRUE) : Key(e) = Key(d) => e = d

\* What a readable registry declares of a service that is asked about is in the graph,
\* from whichever side it can be seen (a network policy's source and an intention
\* that denies excepted).
GraphHasWhatIsDeclared ==
    call.about = "dependencies" =>
        LET graph == GraphOf(call, Apps) IN
        \A i \in DOMAIN call.facts :
            LET f == call.facts[i] IN
            (f.by \notin call.failing /\ f.how \notin call.denied \union {"deny"})
                => \E e \in graph : /\ e.target = f.to
                                    /\ e.source = f.from \/ f.how = "ingress"
                                    /\ f.by \in e.providers

\* The blast radius is everything from which a chain of dependencies leads to the
\* service and nothing that depends only on services apart from it, and a graph with
\* more dependencies is never judged less risky.
BlastGraph(arcs) == {Edge(a[1], a[2], "service", 90, "prometheus") : a \in arcs}
BlastIsReachability ==
    call.about = "blast" =>
        \A s \in Apps :
            LET graph == BlastGraph(call.arcs) IN
            /\ \A a \in Apps \ {s} :
                   a \in Affected(graph, s)
                     <=> \/ <<a, s>> \in call.arcs
                         \/ \E x \in Apps \ {s} : <<a, x>> \in call.arcs /\ x \in Affected(graph, s)
            /\ \A apart \in SUBSET (Apps \ {s}) :
                   (\A arc \in call.arcs : arc[1] \in apart => arc[2] \in apart)
                     => apart \intersect Affected(graph, s) = {}
            /\ \A arc \in call.arcs :
                   Risk(graph, s, call.tiers) >= Risk(BlastGraph(call.arcs \ {arc}), s, call.tiers)
            /\ \A a \in Affected(graph, s) : (a \in DOMAIN call.tiers /\ call.tiers[a] = "critical") =>
                   BlastExit(Risk(graph, s, call.tiers)) > 0
=============================================================================
