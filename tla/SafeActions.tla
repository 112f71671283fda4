---------------------------- MODULE SafeActions ----------------------------
(***************************************************************************)
(* SafeActionRegistry.execute (respond/safe_actions/registry.py) and the   *)
(* webhook handler it awaits (actions.py, webhook.py).  Several            *)
(* executions of one action on one target may be under way: the registry's *)
(* lock covers a statement of the cooldown table, not an execution, and    *)
(* the table is a file that a restarted process and the command line       *)
(* share.                                                                  *)
(***************************************************************************)
EXTENDS Naturals, FiniteSets

CONSTANTS
    Executions,     \* calls of execute, all for one action and target
    Policies,       \* the action's specification: cooldown and binding
    MaxClock        \* bound on the clock

ASSUME SafeActionBounds == MaxClock \in Nat
ASSUME PoliciesAssumption ==
    Policies \subseteq [cooldown : Nat, stub : BOOLEAN, secretSet : BOOLEAN,
                        allowed : BOOLEAN, attempts : Nat, verify : BOOLEAN]

NotRecorded == MaxClock + 1

VARIABLES
    policy,         \* the registered action
    now,            \* time.time(), in ticks
    lastExecutedAt, \* the row of cooldown_log, NotRecorded when there is none
    exec,           \* execution -> where its coroutine is and what it saw
    posts           \* history: execution -> instants and fates of its POSTs

safeVars == <<policy, now, lastExecutedAt, exec, posts>>

NoPolicy == [cooldown |-> 0, stub |-> TRUE, secretSet |-> TRUE, allowed |-> FALSE,
             attempts |-> 0, verify |-> FALSE]
Idle == [phase |-> "idle", attempt |-> 0, begun |-> 0, ended |-> NotRecorded,
         success |-> FALSE, verified |-> "none"]

Fates == {"acted", "refused", "unanswered"}
ExecutionPhases == {"idle", "resolving", "posting", "backoff", "verifying", "returned", "done"}
Execution == [phase : ExecutionPhases, attempt : Nat, begun : 0..MaxClock,
              ended : 0..NotRecorded, success : BOOLEAN, verified : {"none", "yes", "no"}]

SafeTypeOK ==
    /\ policy \in Policies \union {NoPolicy}
    /\ now \in 0..MaxClock /\ lastExecutedAt \in 0..NotRecorded
    /\ exec \in [Executions -> Execution]
    /\ posts \in [Executions -> SUBSET [attempt : Nat, fate : Fates]]

SafeInit ==
    /\ policy = NoPolicy /\ now = 0 /\ lastExecutedAt = NotRecorded
    /\ exec = [e \in Executions |-> Idle]
    /\ posts = [e \in Executions |-> {}]

-----------------------------------------------------------------------------

\* register_builtin_actions
Register ==
    /\ policy = NoPolicy
    /\ policy' \in Policies
    /\ UNCHANGED <<now, lastExecutedAt, exec, posts>>

TimeTick ==
    /\ now < MaxClock
    /\ now' = now + 1
    /\ UNCHANGED <<policy, lastExecutedAt, exec, posts>>

CheckCooldown ==
    \/ policy.cooldown = 0
    \/ lastExecutedAt = NotRecorded
    \/ now - lastExecutedAt >= policy.cooldown

\* execute up to its first await: a cooldown, or a blast radius check that
\* refuses, raises.
BeginExecution(e, allowed) ==
    /\ policy # NoPolicy /\ exec[e].phase = "idle"
    /\ exec' = [exec EXCEPT ![e] = [@ EXCEPT !.begun = now,
                    !.phase = IF CheckCooldown /\ allowed THEN "resolving" ELSE "done"]]
    /\ UNCHANGED <<policy, now, lastExecutedAt, posts>>

\* WebhookDispatcher.execute before its first call: a stub succeeds; a variable
\* that holds a secret reference, a secret that is not set and a host that is
\* not on the allowlist each end it with a failure.
Resolve(e, secretRef) ==
    /\ exec[e].phase = "resolving"
    /\ exec' = [exec EXCEPT ![e] =
           IF policy.stub THEN [@ EXCEPT !.phase = "returned", !.success = TRUE]
           ELSE IF secretRef \/ ~policy.secretSet \/ ~policy.allowed \/ policy.attempts = 0
           THEN [@ EXCEPT !.phase = "returned"]
           ELSE [@ EXCEPT !.phase = "posting"]]
    /\ UNCHANGED <<policy, now, lastExecutedAt, posts>>
\* One POST.  The target may have acted although the answer was lost.
Post(e, fate) ==
    /\ exec[e].phase = "posting"
    /\ LET k == exec[e].attempt + 1 IN
       /\ posts' = [posts EXCEPT ![e] = @ \union {[attempt |-> k, fate |-> fate]}]
       /\ exec' = [exec EXCEPT ![e] =
              IF fate = "acted"
              THEN [@ EXCEPT !.attempt = k, !.success = TRUE,
                             !.phase = IF policy.verify THEN "verifying" ELSE "returned"]
              ELSE [@ EXCEPT !.attempt = k,
                             !.phase = IF k < policy.attempts THEN "backoff" ELSE "returned"]]
    /\ UNCHANGED <<policy, now, lastExecutedAt>>

Retry(e) ==
    /\ exec[e].phase = "backoff"
    /\ exec' = [exec EXCEPT ![e].phase = "posting"]
    /\ UNCHANGED <<policy, now, lastExecutedAt, posts>>

\* _verify: the query's value, or nothing when there is no data or no answer.
Verify(e, verified) ==
    /\ exec[e].phase = "verifying"
    /\ exec' = [exec EXCEPT ![e].phase = "returned", ![e].verified = verified]
    /\ UNCHANGED <<policy, now, lastExecutedAt, posts>>

\* Mutant: only a success starts the cooldown.
MutRecord(e) ==
    /\ exec[e].phase = "returned"
    /\ lastExecutedAt' = IF exec[e].success THEN now ELSE lastExecutedAt
    /\ exec' = [exec EXCEPT ![e].phase = "done", ![e].ended = now]
    /\ UNCHANGED <<policy, now, posts>>

\* The handler returned, with success or without: the execution is recorded.
Record(e) ==
    /\ exec[e].phase = "returned"
    /\ lastExecutedAt' = now
    /\ exec' = [exec EXCEPT ![e].phase = "done", ![e].ended = now]
    /\ UNCHANGED <<policy, now, posts>>

\* The process dies, or the remediation step's timeout cancels the coroutine:
\* what was posted stays posted and nothing is recorded.
Cancel(e) ==
    /\ exec[e].phase \notin {"idle", "done"}
    /\ exec' = [exec EXCEPT ![e].phase = "done"]
    /\ UNCHANGED <<policy, now, lastExecutedAt, posts>>

SafeStep(e) ==
    \/ \E allowed \in BOOLEAN : BeginExecution(e, allowed)
    \/ \E secretRef \in BOOLEAN : Resolve(e, secretRef)
    \/ \E fate \in Fates : Post(e, fate)
    \/ Retry(e) \/ Record(e) \/ Cancel(e)
    \/ \E verified \in {"none", "yes", "no"} : Verify(e, verified)

SafeNext == Register \/ TimeTick \/ \E e \in Executions : SafeStep(e)

SafeSpec == SafeInit /\ [][SafeNext]_safeVars

-----------------------------------------------------------------------------
(* Properties. *)

Recorded(e) == exec[e].ended # NotRecorded
Sent(e) == posts[e] # {} \/ exec[e].success

\* registry.py: between the end of one recorded execution and the beginning of
\* the next one that gets past the check lies the whole cooldown, whether the
\* first one succeeded or not and however many were under way at once.  (Two
\* executions that overlap are not kept apart.)
CooldownSpacing ==
    \A d, e \in Executions :
        (Recorded(d) /\ Sent(e) /\ exec[e].begun > exec[d].ended)
            => exec[e].begun - exec[d].ended >= policy.cooldown

\* webhook.py: an action is posted again only while no answer said that it was
\* done, so it is done twice only when an answer was lost; success is reported
\* exactly when the last attempt said so.
RetriesStop ==
    \A e \in Executions :
        /\ Cardinality({p \in posts[e] : p.fate = "acted"}) <= 1
        /\ \A p \in posts[e] : p.fate = "acted" => p.attempt = exec[e].attempt
        /\ ~policy.stub /\ exec[e].success
               => \E p \in posts[e] : p.fate = "acted"
        /\ exec[e].verified # "none" => exec[e].success
=============================================================================
