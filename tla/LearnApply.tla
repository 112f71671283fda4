------------------------------ MODULE LearnApply ------------------------------
(***************************************************************************)
(* From a closed incident to a pull request: the recommendations drawn     *)
(* from its retrospective (recommendations.py), the operator's walk        *)
(* through them (_interactive.py), their application to the manifests      *)
(* (_apply.py, _yaml.py) and the pull request (cli.py, _gh.py).            *)
(***************************************************************************)
EXTENDS Decision, Integers, Sequences, FiniteSets, SequencesExt, FiniteSetsExt

CONSTANTS
    Specified,          \* services with recommendations, numbered
    MaxRecommended,     \* bound on the recommendations of one plan
    MaxKeys             \* bound on the keys pressed in one walk

Listings(n, S) == UNION {[1..k -> S] : k \in 0..n}

-----------------------------------------------------------------------------
(* analyze_incident: an evaluation is [service, judgment, breach, target, current] *)
(* in percent, a cause [service, change]; a proposal to tighten is doubled.        *)

Gap(e) == Max({0, e.target - e.current})
TightenSlo(evals) ==
    {i \in DOMAIN evals :
        /\ evals[i].breach /\ evals[i].judgment /\ evals[i].target < 100
        /\ 10 * Gap(evals[i]) >= 8 * (100 - evals[i].target)}
Midpoint(e) == e.current + e.target

\* The gate is keyed on the first judgment SLO of the service that was breached.
GateSignal(evals, s) ==
    LET own == {i \in DOMAIN evals : evals[i].service = s /\ evals[i].judgment /\ evals[i].breach}
    IN  IF own = {} THEN 0 ELSE Min(own)
AddDeployGate(evals, causes) ==
    [i \in {i \in DOMAIN causes : causes[i].change} |->
        [service |-> causes[i].service, signal |-> GateSignal(evals, causes[i].service)]]

\* _normalize_blast_radius drops entries without a service and repeats.
FirstSeen(out, s) == IF s \in {0} \union Range(out) THEN out ELSE Append(out, s)
NormalizeBlast(blast) ==
    LET seen[k \in 0..Len(blast)] == IF k = 0 THEN << >> ELSE FirstSeen(seen[k - 1], blast[k])
    IN  seen[Len(blast)]
AddDependency(trigger, blast, declared) ==
    LET normal == NormalizeBlast(blast)
        recs[k \in 0..Len(normal)] ==
            IF k = 0 THEN << >>
            ELSE IF normal[k] \in {trigger} \union declared THEN recs[k - 1]
            ELSE Append(recs[k - 1], normal[k])
    IN  IF trigger = 0 THEN << >> ELSE recs[Len(normal)]

-----------------------------------------------------------------------------
(* The walk.  ids[i] is the id of the i-th recommendation: the type and field of  *)
(* the incident, not the service, so two services may share one.                  *)

Walk0 == [index |-> 1, accepted |-> {}, modified |-> {}]
Advanced(w, ids) == [w EXCEPT !.index = Min({@ + 1, Len(ids) + 1})]

\* A rejected recommendation keeps its edit.
MutPress(w, key, ids) ==
    IF w.index \in DOMAIN ids /\ key = "reject"
    THEN Advanced([w EXCEPT !.accepted = @ \ {ids[w.index]}], ids)
    ELSE IF w.index \in DOMAIN ids /\ key \in {"accept", "modify"}
    THEN Advanced([w EXCEPT !.accepted = @ \union {ids[w.index]},
                            !.modified = IF key = "modify" THEN @ \union {ids[w.index]} ELSE @], ids)
    ELSE IF key = "prev" THEN [w EXCEPT !.index = Max({1, @ - 1})]
    ELSE IF key = "next" THEN Advanced(w, ids) ELSE w
Press(w, key, ids) ==
    CASE key = "next" -> Advanced(w, ids)
      [] key = "prev" -> [w EXCEPT !.index = Max({1, @ - 1})]
      [] key \notin {"next", "prev"} /\ w.index \notin DOMAIN ids -> w
      [] key = "misedit" -> w
      [] key = "accept" /\ w.index \in DOMAIN ids ->
            Advanced([w EXCEPT !.accepted = @ \union {ids[w.index]}], ids)
      [] key = "reject" /\ w.index \in DOMAIN ids ->
            Advanced([w EXCEPT !.accepted = @ \ {ids[w.index]}, !.modified = @ \ {ids[w.index]}], ids)
      [] key = "modify" /\ w.index \in DOMAIN ids ->
            Advanced([w EXCEPT !.accepted = @ \union {ids[w.index]},
                               !.modified = @ \union {ids[w.index]}], ids)
\* The state of the walk after each of the keys.
Walked(keys, ids) ==
    LET walk[k \in 0..Len(keys)] == IF k = 0 THEN Walk0 ELSE Press(walk[k - 1], keys[k], ids)
    IN  walk
Finalize(w, ids) ==
    {[rec |-> i, edited |-> ids[i] \in w.modified] : i \in {i \in DOMAIN ids : ids[i] \in w.accepted}}

-----------------------------------------------------------------------------
(* apply_recommendations: a manifest is [found, spec, value, list]: whether it exists, *)
(* whether its spec is a mapping, the scalar at the target path and the names in the   *)
(* dependency list.  A recommendation is [service, kind, current, proposed].           *)

NoValue == 0
NotAList == {0}
Proposed(rec) == rec.proposed
\* classify_outcome: changing a value, adding one, or appending to a list
Classify(m, rec) ==
    CASE rec.kind = "append" ->
            IF ~m.spec \/ m.list = {} THEN "clean"
            ELSE IF m.list = NotAList THEN "drift"
            ELSE IF Proposed(rec) \in m.list THEN "already" ELSE "clean"
      [] rec.kind = "add" ->
            IF ~m.spec \/ m.value = NoValue THEN "clean"
            ELSE IF m.value = Proposed(rec) THEN "already" ELSE "drift"
      [] OTHER ->
            IF ~m.spec \/ m.value = NoValue THEN "pathMissing"
            ELSE IF m.value = Proposed(rec) THEN "already"
            ELSE IF m.value = rec.current THEN "clean" ELSE "drift"

\* apply_at_path raises on a spec that is no mapping and on a list that is none.
Raises(m, rec) == ~m.spec \/ (rec.kind = "append" /\ m.list = NotAList)
ApplyAtPath(m, rec) ==
    IF rec.kind = "append" THEN [m EXCEPT !.list = @ \union {Proposed(rec)}]
    ELSE [m EXCEPT !.value = Proposed(rec)]

\* The outcomes and the documents in memory; what is raised ends the run unwritten.
Apply1(acc, rec, force) ==
    LET m == acc.docs[rec.service]
        outcome == IF ~m.found THEN "notFound" ELSE Classify(m, rec)
        writes == outcome = "clean" \/ (outcome = "drift" /\ force)
    IN  CASE acc.raised -> acc
          [] ~acc.raised /\ writes /\ Raises(m, rec) -> [acc EXCEPT !.raised = TRUE]
          [] ~acc.raised /\ writes /\ ~Raises(m, rec) ->
                [acc EXCEPT !.docs[rec.service] = ApplyAtPath(m, rec), !.outcomes = Append(@, "clean"),
                            !.modified = @ \union {rec.service}]
          [] OTHER -> [acc EXCEPT !.outcomes = Append(@, outcome)]
Unapplied(manifests) == [docs |-> manifests, outcomes |-> << >>, modified |-> {}, raised |-> FALSE]
Classified(plan, manifests, force) ==
    LET after[k \in 0..Len(plan)] ==
            IF k = 0 THEN Unapplied(manifests) ELSE Apply1(after[k - 1], plan[k], force)
    IN  after[Len(plan)]
\* Files are written in order; the one that fails ends the run.  write_text opens
\* the file, which empties it, and then writes: a write that fails after that
\* leaves a manifest whose document is no mapping.
Emptied == [found |-> TRUE, spec |-> FALSE, value |-> NoValue, list |-> {}]
WrittenFiles(done, failing) ==
    IF done.raised THEN {} ELSE {s \in done.modified : \A f \in failing \cap done.modified : s < f}
FailedFile(done, failing) ==
    IF done.raised THEN {}
    ELSE {s \in failing \cap done.modified : \A f \in failing \cap done.modified : s <= f}
ApplyRecommendations(plan, manifests, force, failing, opened) ==
    LET done == Classified(plan, manifests, force)
    IN  [outcomes |-> done.outcomes, raised |-> done.raised \/ failing \cap done.modified # {},
         manifests |-> [s \in DOMAIN manifests |->
            IF s \in WrittenFiles(done, failing) THEN done.docs[s]
            ELSE IF opened /\ s \in FailedFile(done, failing) THEN Emptied ELSE manifests[s]]]

ExitCode(outcomes) ==
    LET seen == Range(outcomes)
    IN  CASE seen \subseteq {"clean", "already"} -> 0
          [] ~(seen \subseteq {"clean", "already"}) /\ seen \cap {"clean", "already"} # {} -> 1
          [] OTHER -> 2

-----------------------------------------------------------------------------
(* _run_pr_path, after the manifests were written: each step may fail. *)

PrSteps == <<"incident", "gh", "auth", "repo", "remote", "branchFree", "checkout", "add", "commit", "push", "create">>
\* The steps that were done when the first failing one ended the run.
DoneSteps(failing) ==
    {k \in DOMAIN PrSteps : \A j \in 1..k : PrSteps[j] \notin failing}
PrPath(modified, outcome, failing) ==
    IF ~modified THEN [exit |-> outcome, branch |-> FALSE, pushed |-> FALSE, pr |-> FALSE]
    ELSE LET done == {PrSteps[k] : k \in DoneSteps(failing)}
         IN  [branch |-> "checkout" \in done, pushed |-> "push" \in done, pr |-> "create" \in done,
              exit |-> IF "create" \in done THEN outcome
                       ELSE IF "branchFree" \notin done THEN 2 ELSE 1]

-----------------------------------------------------------------------------
(* The calls, and what the answers must be. *)

Findings ==
    [service : Specified, judgment : BOOLEAN, breach : BOOLEAN, target : {90, 95, 100}, current : {86, 88, 96}]
CallsOfRecommend ==
    [about : {"recommend"}, causes : Listings(2, [service : Specified, change : BOOLEAN]),
     evals : Listings(1, Findings) \union Listings(2, {e \in Findings : e.target = 90 /\ e.current = 86}),
     trigger : {0}, blast : {<< >>}, declared : {{}}]
    \union
    [about : {"recommend"}, causes : {<< >>}, evals : {<< >>},
     trigger : {0, 1}, blast : Listings(3, 0..3), declared : {{}, {2}}]

CallsOfWalk ==
    [about : {"walk"}, ids : {<<1, 2, 3>>, <<1, 2, 1>>},
     keys : [1..MaxKeys -> {"accept", "reject", "modify", "misedit", "next", "prev"}]]

Manifests ==
    {[found |-> TRUE, spec |-> TRUE, value |-> v[1], list |-> v[2]] :
        v \in ({NoValue, 90, 91, 93} \X {{}}) \union ({90} \X {{2}, NotAList})}
Recs == [service : Specified, kind : {"change"}, current : {90}, proposed : {91, 93}]
          \union [service : Specified, kind : {"add"}, current : {NoValue}, proposed : {91}]
          \union [service : Specified, kind : {"append"}, current : {NoValue}, proposed : {2, 3}]
Odd == {[found |-> FALSE, spec |-> TRUE, value |-> NoValue, list |-> {}],
        [found |-> TRUE, spec |-> FALSE, value |-> NoValue, list |-> {}]}
CallsOfApply ==
    {c \in [about : {"apply"}, plan : Listings(MaxRecommended, Recs), force : BOOLEAN,
            failing : {{}, {2}, {1, 2}}, opened : BOOLEAN, manifests : Manifests \X (Manifests \union Odd)] :
        c.opened => c.failing # {}}

\* A plan that modified a file applied something: its exit code is not 2.
CallsOfPr ==
    {c \in [about : {"pr"}, modified : BOOLEAN, outcome : 0..2, failing : SUBSET Range(PrSteps)] :
        c.modified => c.outcome # 2}

\* What is recommended follows from the incident: a target is moved only after the
\* figure lost most of the budget, and stays between the two; a dependency is proposed
\* once, neither declared already nor the service itself; and a gate is keyed on a
\* breached judgment of the service that changed, where there is one.
RecommendationsAreGrounded ==
    call.about = "recommend" =>
        LET deps == AddDependency(call.trigger, call.blast, call.declared)
        IN  /\ \A i \in TightenSlo(call.evals) :
                   LET e == call.evals[i]
                   IN  2 * e.current < Midpoint(e) /\ Midpoint(e) < 2 * e.target
            /\ IsInjective(deps) /\ Range(deps) \cap (call.declared \union {0, call.trigger}) = {}
            /\ call.trigger # 0 => \A s \in Range(call.blast) \ {0, call.trigger} :
                   s \in call.declared \/ s \in Range(deps)
            /\ \A g \in Range(AddDeployGate(call.evals, call.causes)) :
                   g.signal # 0 => call.evals[g.signal].service = g.service

\* The last decision about an id stands, for every recommendation that has it; a
\* recommendation that was rejected after an edit is proposed unedited when it is
\* accepted again; and a key that does not parse decides nothing.
WalkKeepsDecisions ==
    call.about = "walk" =>
        LET ids == call.ids
            walk == Walked(call.keys, ids)
            at(k) == walk[k - 1].index
            decided(i) == {k \in DOMAIN call.keys : /\ call.keys[k] \in {"accept", "reject", "modify"}
                                                    /\ at(k) \in DOMAIN ids /\ ids[at(k)] = ids[i]}
            kept == Finalize(walk[Len(call.keys)], ids)
        IN  \A i \in DOMAIN ids :
                LET ds == decided(i)
                    accepted == ds # {} /\ call.keys[Max(ds)] # "reject"
                    edited == \E k \in ds : call.keys[k] = "modify"
                                 /\ \A j \in ds : j > k => call.keys[j] # "reject"
                IN  {c \in kept : c.rec = i} = IF accepted THEN {[rec |-> i, edited |-> edited]} ELSE {}

\* Without force nothing is overwritten that is not what the plan was made from; a run
\* that raises before writing writes nothing; writes that fail cost one manifest at most,
\* and only if it was open already; running the plan again changes nothing more; and
\* success means that what was recommended is in the manifests.
Holds(m, rec) ==
    m.found /\ m.spec /\ IF rec.kind = "append" THEN Proposed(rec) \in m.list ELSE m.value = Proposed(rec)
ApplyIsSafe ==
    call.about = "apply" =>
        LET plan == call.plan
            done == ApplyRecommendations(plan, call.manifests, call.force, call.failing, call.opened)
            again == ApplyRecommendations(plan, done.manifests, FALSE, {}, FALSE)
            changed == {s \in DOMAIN call.manifests : done.manifests[s] # call.manifests[s]}
        IN  /\ Classified(plan, call.manifests, call.force).raised => changed = {}
            /\ \A s, t \in changed \cap call.failing : call.opened /\ s = t
            /\ ~call.force => \A s \in changed \ call.failing :
                   LET old == call.manifests[s]  new == done.manifests[s]
                   IN  /\ old.list # NotAList => old.list \subseteq new.list
                       /\ old.value \notin {new.value, NoValue} =>
                              \E i \in DOMAIN plan : plan[i].service = s /\ plan[i].current = old.value
            /\ (~call.force /\ ~done.raised) =>
                   /\ again.manifests = done.manifests
                   /\ ExitCode(done.outcomes) = 0 =>
                          \A i \in DOMAIN plan : Holds(done.manifests[plan[i].service], plan[i])
                   /\ ExitCode(done.outcomes) = 0 => ExitCode(again.outcomes) = 0

\* A pull request is only opened from a pushed branch, success is only reported with
\* one or when nothing was changed, and a failed check before the branch leaves no branch.
\* (The manifests have been written by then in every case.)
PullRequestIsLast ==
    call.about = "pr" =>
        LET done == PrPath(call.modified, call.outcome, call.failing)
        IN  /\ done.pr => done.pushed /\ done.branch
            /\ done.exit = 0 => call.outcome = 0 /\ (done.pr \/ ~call.modified)
            /\ done.exit = 2 => ~done.branch
=============================================================================
