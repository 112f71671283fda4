-------------------------- MODULE SafeActionsProofs --------------------------
(***************************************************************************)
(* Theorems about SafeActions for every set of executions and policies, and *)
(* about OnCall for every set of incidents, escalation policies and        *)
(* schedules.                                                              *)
(***************************************************************************)
EXTENDS SafeActions, OnCall, FiniteSetTheorems, SequenceTheorems, TLAPS

-----------------------------------------------------------------------------
(* Safe actions: the inductive invariant. *)

\* An execution has got past the cooldown check and may still act.
Active(e) == exec[e].phase \notin {"idle", "done"}

\* Nothing begins before the action is registered, and what has not begun is blank.
BlankBeforeBegin ==
    \A e \in Executions :
        /\ policy = NoPolicy => exec[e].phase = "idle"
        /\ exec[e].phase = "idle" => exec[e] = Idle /\ posts[e] = {}

\* The row of the cooldown table is no older than any recorded execution.
RowIsLatest ==
    /\ lastExecutedAt # NotRecorded => lastExecutedAt <= now
    /\ \A e \in Executions :
           /\ exec[e].begun <= now
           /\ Recorded(e) => lastExecutedAt # NotRecorded /\ exec[e].ended <= lastExecutedAt

Spaced(d, e) ==
    (Recorded(d) /\ exec[e].begun > exec[d].ended)
        => exec[e].begun - exec[d].ended >= policy.cooldown

\* What may still act is already spaced, not only what has acted.
ActiveSpaced == \A d, e \in Executions : Active(e) \/ Sent(e) => Spaced(d, e)

\* How far an execution can be with the answers it has had.
AnswersFollowed ==
    \A e \in Executions :
        /\ \A p \in posts[e] : p.attempt <= exec[e].attempt
        /\ \A p \in posts[e] : p.fate = "acted" =>
               /\ p.attempt = exec[e].attempt
               /\ exec[e].phase \in {"verifying", "returned", "done"}
        /\ exec[e].phase \in {"resolving", "posting", "backoff"} => ~exec[e].success
        /\ exec[e].phase = "verifying" => exec[e].success
        /\ ~policy.stub /\ exec[e].success => \E p \in posts[e] : p.fate = "acted"
        /\ exec[e].verified # "none" => exec[e].success

SafeInv == SafeTypeOK /\ BlankBeforeBegin /\ RowIsLatest /\ ActiveSpaced /\ AnswersFollowed

Spacing == BlankBeforeBegin /\ RowIsLatest /\ ActiveSpaced

-----------------------------------------------------------------------------

LEMMA InitSafe == SafeInit => SafeInv
<1> SUFFICES ASSUME SafeInit PROVE SafeInv
  OBVIOUS
<1>1. SafeTypeOK
  BY SafeActionBounds DEF SafeInit, SafeTypeOK, Execution, Idle, ExecutionPhases, NotRecorded
<1>2. BlankBeforeBegin /\ RowIsLatest /\ ActiveSpaced /\ AnswersFollowed
  BY SafeActionBounds DEF SafeInit, Idle, NotRecorded, BlankBeforeBegin, RowIsLatest,
     ActiveSpaced, AnswersFollowed, Active, Sent, Recorded
<1> QED
  BY <1>1, <1>2 DEF SafeInv

\* Every variable keeps its type through every step.
LEMMA TypeStep == SafeTypeOK /\ [SafeNext]_safeVars => SafeTypeOK'
<1> SUFFICES ASSUME SafeTypeOK, [SafeNext]_safeVars PROVE SafeTypeOK'
  OBVIOUS
<1> USE SafeActionBounds DEF SafeTypeOK, NotRecorded
<1>1. CASE Register
  BY <1>1 DEF Register
<1>2. CASE TimeTick
  BY <1>2 DEF TimeTick
<1>3. ASSUME NEW e \in Executions, SafeStep(e) PROVE SafeTypeOK'
  <2> USE DEF ExecutionPhases, Fates, Execution
  <2>1. ASSUME NEW allowed \in BOOLEAN, BeginExecution(e, allowed) PROVE SafeTypeOK'
    <3>1. \E q \in {"resolving", "done"} :
              exec' = [exec EXCEPT ![e] = [exec[e] EXCEPT !.begun = now, !.phase = q]]
      BY <2>1 DEF BeginExecution
    <3>2. \A q \in {"resolving", "done"} :
              [exec[e] EXCEPT !.begun = now, !.phase = q] \in Execution
      OBVIOUS
    <3> QED
      BY <2>1, <3>1, <3>2 DEF BeginExecution
  <2>2. ASSUME NEW secretRef \in BOOLEAN, Resolve(e, secretRef) PROVE SafeTypeOK'
    <3>1. \/ exec' = [exec EXCEPT ![e] = [exec[e] EXCEPT !.phase = "returned", !.success = TRUE]]
          \/ exec' = [exec EXCEPT ![e] = [exec[e] EXCEPT !.phase = "returned"]]
          \/ exec' = [exec EXCEPT ![e] = [exec[e] EXCEPT !.phase = "posting"]]
      BY <2>2 DEF Resolve
    <3>2. /\ [exec[e] EXCEPT !.phase = "returned", !.success = TRUE] \in Execution
          /\ [exec[e] EXCEPT !.phase = "returned"] \in Execution
          /\ [exec[e] EXCEPT !.phase = "posting"] \in Execution
      OBVIOUS
    <3> QED
      BY <2>2, <3>1, <3>2 DEF Resolve
  <2>3. ASSUME NEW fate \in Fates, Post(e, fate) PROVE SafeTypeOK'
    <3> DEFINE k == exec[e].attempt + 1
    <3>1. \E q \in {"verifying", "returned", "backoff"}, b \in BOOLEAN :
              exec' = [exec EXCEPT ![e] = [exec[e] EXCEPT !.attempt = k, !.success = b,
                                                         !.phase = q]]
      <4>1. CASE fate = "acted"
        BY <2>3, <4>1 DEF Post
      <4>2. CASE fate # "acted"
        <5>1. exec[e] = [exec[e] EXCEPT !.success = exec[e].success]
          OBVIOUS
        <5>2. \E q \in {"returned", "backoff"} :
                 exec' = [exec EXCEPT ![e] = [exec[e] EXCEPT !.attempt = k, !.phase = q]]
          BY <2>3, <4>2 DEF Post
        <5>3. \A q \in {"returned", "backoff"} :
                 [exec[e] EXCEPT !.attempt = k, !.phase = q]
                     = [exec[e] EXCEPT !.attempt = k, !.success = exec[e].success, !.phase = q]
          OBVIOUS
        <5>4. exec[e].success \in BOOLEAN
          OBVIOUS
        <5> QED
          BY <5>2, <5>3, <5>4
      <4> QED
        BY <4>1, <4>2
    <3>2. k \in Nat
      OBVIOUS
    <3>3. \A q \in {"verifying", "returned", "backoff"}, b \in BOOLEAN :
              [exec[e] EXCEPT !.attempt = k, !.success = b, !.phase = q] \in Execution
      BY <3>2
    <3>4. exec' \in [Executions -> Execution]
      <4> HIDE DEF Execution, k
      <4> QED BY <3>1, <3>3
    <3>5. posts' \in [Executions -> SUBSET [attempt : Nat, fate : Fates]]
      BY <2>3, <3>2 DEF Post
    <3> QED
      BY <2>3, <3>4, <3>5 DEF Post
  <2>4. CASE Retry(e) \/ Record(e) \/ Cancel(e)
    BY <2>4 DEF Retry, Record, Cancel
  <2>5. ASSUME NEW verified \in {"none", "yes", "no"}, Verify(e, verified) PROVE SafeTypeOK'
    BY <2>5 DEF Verify
  <2> QED
    BY <1>3, <2>1, <2>2, <2>3, <2>4, <2>5 DEF SafeStep
<1>4. CASE UNCHANGED safeVars
  BY <1>4 DEF safeVars
<1> QED
  BY <1>1, <1>2, <1>3, <1>4 DEF SafeNext

\* The beginning of an execution that passes the check lies a cooldown behind every
\* recorded one, because the row is the latest of them.
LEMMA BeginSpaced ==
    ASSUME SafeTypeOK, Spacing, NEW d \in Executions, CheckCooldown, Recorded(d),
           now > exec[d].ended
    PROVE  now - exec[d].ended >= policy.cooldown
<1>1. policy.cooldown \in Nat /\ exec[d].ended \in Nat /\ now \in Nat /\ lastExecutedAt \in Nat
  BY SafeActionBounds, PoliciesAssumption DEF SafeTypeOK, Execution, NotRecorded, NoPolicy
<1> QED
  BY <1>1 DEF CheckCooldown, Spacing, RowIsLatest

\* The cooldown part of the invariant is kept by every step.
LEMMA SpacingStep ==
    SafeTypeOK /\ Spacing /\ [SafeNext]_safeVars => Spacing'
<1> SUFFICES ASSUME SafeTypeOK, Spacing, [SafeNext]_safeVars PROVE Spacing'
  OBVIOUS
<1> USE SafeActionBounds DEF Spacing, NotRecorded
<1>0. /\ now \in Nat /\ lastExecutedAt \in Nat
      /\ \A e \in Executions : exec[e].begun \in Nat /\ exec[e].ended \in Nat
  BY DEF SafeTypeOK, Execution
<1>1. CASE Register
  <2>1. \A e \in Executions : exec[e] = Idle /\ posts[e] = {}
    BY <1>1 DEF Register, BlankBeforeBegin
  <2>2. \A e \in Executions : exec'[e] = Idle /\ posts'[e] = {}
    BY <1>1, <2>1 DEF Register
  <2> QED
    <3>1. \A e \in Executions : ~Active(e)' /\ ~Sent(e)' /\ exec'[e].phase = "idle"
      BY <2>2 DEF Active, Sent, Idle
    <3>2. RowIsLatest'
      BY <1>1, <2>1, <2>2 DEF Register, RowIsLatest, Recorded
    <3> QED
      BY <2>2, <3>1, <3>2 DEF BlankBeforeBegin, ActiveSpaced
<1>2. CASE TimeTick
  BY <1>0, <1>2 DEF TimeTick, BlankBeforeBegin, RowIsLatest, ActiveSpaced, Spaced,
     Active, Sent, Recorded
<1>3. ASSUME NEW e \in Executions, SafeStep(e) PROVE Spacing'
  <2>0. exec \in [Executions -> Execution] /\ exec[e] \in Execution
    BY DEF SafeTypeOK
  <2> USE DEF Execution
  <2>1. ASSUME NEW allowed \in BOOLEAN, BeginExecution(e, allowed) PROVE Spacing'
    <3>1. /\ exec'[e].begun = now /\ exec'[e].ended = NotRecorded /\ ~exec'[e].success
          /\ exec'[e].phase = IF CheckCooldown /\ allowed THEN "resolving" ELSE "done"
          /\ \A d \in Executions \ {e} : exec'[d] = exec[d]
          /\ policy # NoPolicy /\ posts[e] = {}
          /\ UNCHANGED <<policy, now, lastExecutedAt, posts>>
      <4>1. exec[e] = Idle /\ posts[e] = {} /\ policy # NoPolicy
        BY <2>1 DEF BeginExecution, BlankBeforeBegin
      <4>2. exec' = [exec EXCEPT ![e] = [Idle EXCEPT !.begun = now,
                         !.phase = IF CheckCooldown /\ allowed THEN "resolving" ELSE "done"]]
        BY <2>1, <4>1 DEF BeginExecution
      <4>3. \A q : LET r == [Idle EXCEPT !.begun = now, !.phase = q]
                   IN  r.begun = now /\ r.ended = NotRecorded /\ r.success = FALSE /\ r.phase = q
        BY DEF Idle
      <4> QED
        BY <2>0, <2>1, <4>1, <4>2, <4>3 DEF BeginExecution
    <3>2. exec'[e].phase # "idle"
      BY <3>1
    <3>3. BlankBeforeBegin'
      BY <3>1, <3>2 DEF BlankBeforeBegin
    <3>4. RowIsLatest'
      BY <1>0, <3>1 DEF RowIsLatest, Recorded
    <3>5. ASSUME NEW d \in Executions, NEW f \in Executions, (Active(f) \/ Sent(f))'
          PROVE  Spaced(d, f)'
      <4>1. ~Recorded(e)'
        BY <3>1 DEF Recorded
      <4>2. CASE f = e
        <5>1. exec'[e].phase = "resolving" /\ CheckCooldown
          BY <3>1, <3>5, <4>2 DEF Active, Sent
        <5> QED
          BY <3>1, <4>1, <4>2, <5>1, BeginSpaced DEF Spaced, Recorded
      <4>3. CASE f # e
        BY <3>1, <3>5, <4>1, <4>3 DEF ActiveSpaced, Spaced, Active, Sent, Recorded
      <4> QED
        BY <4>2, <4>3
    <3> QED
      BY <3>3, <3>4, <3>5 DEF ActiveSpaced
  <2>2. CASE Record(e)
    <3>1. /\ exec'[e].phase = "done" /\ exec'[e].ended = now
          /\ exec'[e].begun = exec[e].begun /\ exec'[e].success = exec[e].success
          /\ \A d \in Executions \ {e} : exec'[d] = exec[d]
          /\ lastExecutedAt' = now /\ UNCHANGED <<policy, now, posts>>
          /\ exec[e].phase = "returned"
      BY <2>0, <2>2 DEF Record
    <3>2. now # NotRecorded /\ (lastExecutedAt # NotRecorded => lastExecutedAt <= now)
      BY DEF SafeTypeOK, RowIsLatest
    <3>3. BlankBeforeBegin'
      BY <3>1 DEF BlankBeforeBegin
    <3>4. RowIsLatest'
      BY <1>0, <3>1, <3>2 DEF RowIsLatest, Recorded
    <3>5. ASSUME NEW d \in Executions, NEW f \in Executions, (Active(f) \/ Sent(f))'
          PROVE  Spaced(d, f)'
      <4>1. exec'[f].begun = exec[f].begun /\ exec[f].begun <= now
        BY <3>1, <3>4, <2>0 DEF RowIsLatest
      <4>2. CASE d = e
        BY <1>0, <3>1, <4>1, <4>2 DEF Spaced
      <4>3. CASE d # e
        <5>1. Active(f) \/ Sent(f)
          BY <3>1, <3>5 DEF Active, Sent
        <5>2. Spaced(d, f)
          BY <5>1 DEF ActiveSpaced
        <5> QED
          BY <3>1, <4>1, <4>3, <5>2 DEF Spaced, Recorded
      <4> QED
        BY <4>2, <4>3
    <3> QED
      BY <3>3, <3>4, <3>5 DEF ActiveSpaced
  <2>3. ASSUME /\ exec'[e].begun = exec[e].begun /\ exec'[e].ended = exec[e].ended
               /\ Active(e) /\ exec'[e].phase # "idle"
               /\ \A d \in Executions \ {e} : exec'[d] = exec[d] /\ posts'[d] = posts[d]
               /\ UNCHANGED <<policy, now, lastExecutedAt>>
        PROVE  Spacing'
    <3>1. policy # NoPolicy
      BY <2>3 DEF BlankBeforeBegin, Active
    <3>2. BlankBeforeBegin' /\ RowIsLatest'
      BY <2>3, <3>1 DEF BlankBeforeBegin, RowIsLatest, Recorded
    <3>3. ActiveSpaced'
      BY <2>3 DEF ActiveSpaced, Spaced, Active, Sent, Recorded
    <3> QED
      BY <3>2, <3>3
  <2>4. CASE \E secretRef \in BOOLEAN : Resolve(e, secretRef)
    BY <2>0, <2>3, <2>4 DEF Resolve, Active
  <2>5. CASE \E fate \in Fates : Post(e, fate)
    BY <2>0, <2>3, <2>5 DEF Post, Active, SafeTypeOK
  <2>6. CASE Retry(e) \/ Cancel(e)
    BY <2>0, <2>3, <2>6 DEF Retry, Cancel, Active
  <2>7. CASE \E verified \in {"none", "yes", "no"} : Verify(e, verified)
    BY <2>0, <2>3, <2>7 DEF Verify, Active
  <2> QED
    BY <1>3, <2>1, <2>2, <2>4, <2>5, <2>6, <2>7 DEF SafeStep
<1>4. CASE UNCHANGED safeVars
  BY <1>4 DEF safeVars, BlankBeforeBegin, RowIsLatest, ActiveSpaced, Spaced, Active, Sent,
     Recorded
<1> QED
  BY <1>1, <1>2, <1>3, <1>4 DEF SafeNext

\* An execution's answers keep up with its phase through every step.
LEMMA AnswersStep ==
    SafeTypeOK /\ BlankBeforeBegin /\ AnswersFollowed /\ [SafeNext]_safeVars => AnswersFollowed'
<1> SUFFICES ASSUME SafeTypeOK, BlankBeforeBegin, AnswersFollowed, [SafeNext]_safeVars
             PROVE  AnswersFollowed'
  OBVIOUS
<1>1. CASE Register
  <2>1. \A e \in Executions : exec'[e] = Idle /\ posts'[e] = {}
    BY <1>1 DEF Register, BlankBeforeBegin
  <2> QED
    BY <2>1 DEF AnswersFollowed, Idle
<1>2. CASE TimeTick
  BY <1>2 DEF TimeTick, AnswersFollowed
<1>3. ASSUME NEW e \in Executions, SafeStep(e) PROVE AnswersFollowed'
  <2>0. exec \in [Executions -> Execution] /\ exec[e] \in Execution /\ exec[e].attempt \in Nat
        /\ posts \in [Executions -> SUBSET [attempt : Nat, fate : Fates]]
    BY DEF SafeTypeOK, Execution
  <2> USE DEF Execution
  <2>1. ASSUME NEW allowed \in BOOLEAN, BeginExecution(e, allowed) PROVE AnswersFollowed'
    <3>1. exec[e] = Idle /\ posts[e] = {}
      BY <2>1 DEF BeginExecution, BlankBeforeBegin
    <3>2. /\ exec'[e].phase \in {"resolving", "done"} /\ exec'[e].success = FALSE
          /\ exec'[e].verified = "none"
      <4>1. \E q \in {"resolving", "done"} :
                exec' = [exec EXCEPT ![e] = [Idle EXCEPT !.begun = now, !.phase = q]]
        BY <2>1, <3>1 DEF BeginExecution
      <4>2. \A q : LET r == [Idle EXCEPT !.begun = now, !.phase = q]
                   IN  r.success = FALSE /\ r.verified = "none" /\ r.phase = q
        BY DEF Idle
      <4> QED
        BY <2>0, <4>1, <4>2
    <3>3. \A d \in Executions \ {e} : exec'[d] = exec[d]
      BY <2>0, <2>1 DEF BeginExecution
    <3>4. UNCHANGED <<policy, posts>>
      BY <2>1 DEF BeginExecution
    <3> QED
      BY <3>1, <3>2, <3>3, <3>4 DEF AnswersFollowed
  <2>2. ASSUME NEW secretRef \in BOOLEAN, Resolve(e, secretRef) PROVE AnswersFollowed'
    <3>1. /\ exec[e].phase = "resolving" /\ exec'[e].attempt = exec[e].attempt
          /\ exec'[e].verified = exec[e].verified
          /\ exec'[e].verified = "none" /\ (exec'[e].success => policy.stub)
          /\ exec'[e].phase \in {"returned", "posting"}
          /\ policy.stub => exec'[e].phase = "returned"
      <4>1. exec[e].phase = "resolving" /\ exec[e].success = FALSE /\ exec[e].verified = "none"
        BY <2>0, <2>2 DEF Resolve, AnswersFollowed
      <4>2. CASE policy.stub
        BY <2>0, <2>2, <4>1, <4>2 DEF Resolve
      <4>3. CASE ~policy.stub
        BY <2>0, <2>2, <4>1, <4>3 DEF Resolve
      <4> QED
        BY <4>2, <4>3
    <3>3. \A d \in Executions \ {e} : exec'[d] = exec[d]
      BY <2>0, <2>2 DEF Resolve
    <3>4. UNCHANGED <<policy, posts>>
      BY <2>2 DEF Resolve
    <3> QED
      BY <3>1, <3>3, <3>4 DEF AnswersFollowed
  <2>3. ASSUME NEW fate \in Fates, Post(e, fate) PROVE AnswersFollowed'
    <3> DEFINE k == exec[e].attempt + 1
               answer == [attempt |-> k, fate |-> fate]
    <3>1. /\ posts'[e] = posts[e] \union {answer}
          /\ \A d \in Executions \ {e} : exec'[d] = exec[d] /\ posts'[d] = posts[d]
          /\ exec[e].phase = "posting" /\ policy' = policy
      BY <2>0, <2>3 DEF Post
    <3>2. exec'[e].attempt = k /\ exec'[e].verified = exec[e].verified
      BY <2>0, <2>3 DEF Post
    <3>3. CASE fate = "acted"
      <4>1. exec'[e].success = TRUE /\ exec'[e].phase \in {"verifying", "returned"}
        BY <2>0, <2>3, <3>3 DEF Post
      <4>2. \A p \in posts[e] : p.fate # "acted" /\ p.attempt <= k
        BY <2>0, <3>1 DEF AnswersFollowed
      <4>3. answer.attempt = k /\ answer.fate = "acted" /\ answer \in posts'[e] /\ k \in Nat
        BY <2>0, <3>1, <3>3
      <4>4. /\ \A p \in posts'[e] : p.attempt <= exec'[e].attempt
            /\ \A p \in posts'[e] : p.fate = "acted" => p = answer
        BY <3>1, <3>2, <4>2, <4>3
      <4> HIDE DEF answer, k
      <4> QED
        BY <3>1, <3>2, <4>1, <4>3, <4>4 DEF AnswersFollowed
    <3>4. CASE fate # "acted"
      <4>1. exec'[e].success = exec[e].success /\ exec'[e].phase \in {"backoff", "returned"}
        BY <2>0, <2>3, <3>4 DEF Post
      <4>2. \A p \in posts[e] : p.fate # "acted" /\ p.attempt <= k
        BY <2>0, <3>1 DEF AnswersFollowed
      <4>3. answer.attempt = k /\ answer.fate # "acted" /\ ~exec[e].success
            /\ exec[e].verified = "none"
        BY <3>1, <3>4 DEF AnswersFollowed
      <4> QED
        BY <2>0, <3>1, <3>2, <4>1, <4>2, <4>3 DEF AnswersFollowed
    <3> QED
      BY <3>3, <3>4
  <2>4. CASE Retry(e) \/ Record(e) \/ Cancel(e)
    <3>1. /\ exec'[e].attempt = exec[e].attempt /\ exec'[e].success = exec[e].success
          /\ exec'[e].verified = exec[e].verified
          /\ \A d \in Executions \ {e} : exec'[d] = exec[d]
          /\ UNCHANGED <<policy, posts>>
      BY <2>0, <2>4 DEF Retry, Record, Cancel
    <3>2. \/ exec[e].phase = "backoff" /\ exec'[e].phase = "posting"
          \/ exec'[e].phase = "done"
      BY <2>0, <2>4 DEF Retry, Record, Cancel
    <3> QED
      BY <3>1, <3>2 DEF AnswersFollowed
  <2>5. ASSUME NEW verified \in {"none", "yes", "no"}, Verify(e, verified)
        PROVE  AnswersFollowed'
    <3>1. /\ exec'[e].attempt = exec[e].attempt /\ exec'[e].success = exec[e].success
          /\ exec[e].phase = "verifying" /\ exec'[e].phase = "returned"
          /\ \A d \in Executions \ {e} : exec'[d] = exec[d]
          /\ UNCHANGED <<policy, posts>>
      BY <2>0, <2>5 DEF Verify
    <3> QED
      BY <3>1 DEF AnswersFollowed
  <2> QED
    BY <1>3, <2>1, <2>2, <2>3, <2>4, <2>5 DEF SafeStep
<1>4. CASE UNCHANGED safeVars
  BY <1>4 DEF safeVars, AnswersFollowed
<1> QED
  BY <1>1, <1>2, <1>3, <1>4 DEF SafeNext

LEMMA SafeInvStep == SafeInv /\ [SafeNext]_safeVars => SafeInv'
<1> SUFFICES ASSUME SafeInv, [SafeNext]_safeVars PROVE SafeInv'
  OBVIOUS
<1>1. SafeTypeOK'
  BY TypeStep DEF SafeInv
<1>2. Spacing'
  BY SpacingStep DEF SafeInv, Spacing
<1>3. AnswersFollowed'
  BY AnswersStep DEF SafeInv
<1> QED
  BY <1>1, <1>2, <1>3 DEF SafeInv, Spacing

LEMMA SafeInvariant == SafeSpec => []SafeInv
  BY InitSafe, SafeInvStep, PTL DEF SafeSpec

-----------------------------------------------------------------------------

LEMMA SafeTypes == SafeInv => SafeTypeOK
BY DEF SafeInv

\* Every variable of the safe actions' model keeps its type.
THEOREM SafeTypeCorrect == SafeSpec => []SafeTypeOK
BY SafeInvariant, SafeTypes, PTL

\* SafeActionRegistry.execute: however many executions overlap, fail or are cancelled,
\* one that acts has begun a whole cooldown after the end of every recorded one
\* before it.
THEOREM CooldownKept == SafeSpec => []CooldownSpacing
<1>1. SafeInv => CooldownSpacing
  BY DEF SafeInv, ActiveSpaced, Spaced, CooldownSpacing
<1> QED
  BY SafeInvariant, <1>1, PTL

LEMMA RetriesAreAnswered == SafeInv => RetriesStop
<1> SUFFICES ASSUME SafeInv, NEW e \in Executions
             PROVE  Cardinality({p \in posts[e] : p.fate = "acted"}) <= 1
  BY DEF SafeInv, AnswersFollowed, RetriesStop
<1> DEFINE only == [attempt |-> exec[e].attempt, fate |-> "acted"]
           acted == {p \in posts[e] : p.fate = "acted"}
<1>1. acted \subseteq {only}
  <2>1. posts[e] \subseteq [attempt : Nat, fate : Fates]
    BY DEF SafeInv, SafeTypeOK
  <2>2. \A p \in acted : p = [attempt |-> p.attempt, fate |-> p.fate]
    BY <2>1
  <2> QED
    BY <2>2 DEF SafeInv, AnswersFollowed
<1>2. IsFiniteSet({only}) /\ Cardinality({only}) = 1
  BY FS_Singleton
<1>3. IsFiniteSet(acted) /\ Cardinality(acted) <= 1 /\ Cardinality(acted) \in Nat
  BY <1>1, <1>2, FS_Subset, FS_CardinalityType
<1> QED
  BY <1>3

\* WebhookDispatcher: no POST follows one that was answered as done, and success is
\* reported only after such an answer.
THEOREM NoRepeatAfterSuccess == SafeSpec => []RetriesStop
BY SafeInvariant, RetriesAreAnswered, PTL
-----------------------------------------------------------------------------
(* On-call escalation: arithmetic of the rotation. *)

LEMMA DivMod ==
    ASSUME NEW a \in Int, NEW p \in Nat \ {0}
    PROVE  /\ a \div p \in Int /\ a % p \in 0..(p - 1)
           /\ a = p * (a \div p) + (a % p)
  OBVIOUS

LEMMA NextMultiple ==
    ASSUME NEW p \in Nat \ {0}, NEW x \in Int, NEW y \in Int, x < y
    PROVE  p * x + p <= p * y
<1>1. p * (y - x) >= p
  <2>1. y - x >= 1
    OBVIOUS
  <2>2. \A d \in Int : d >= 1 => p * d >= p
    OBVIOUS
  <2> QED
    BY <2>1, <2>2
<1>2. p * (y - x) = p * y - p * x
  OBVIOUS
<1>3. p * x \in Int /\ p * y \in Int /\ p * (y - x) \in Int
  OBVIOUS
<1> QED
  BY <1>1, <1>2, <1>3

LEMMA QuotientUnique ==
    ASSUME NEW a \in Int, NEW p \in Nat \ {0}, NEW q \in Int, NEW r \in 0..(p - 1),
           a = p * q + r
    PROVE  a \div p = q /\ a % p = r
<1> DEFINE d == a \div p
           m == a % p
<1>1. d \in Int /\ m \in 0..(p - 1) /\ a = p * d + m
  BY DivMod
<1> HIDE DEF d, m
<1>2. p * d \in Int /\ p * q \in Int
  BY <1>1
<1>3. ~(d < q)
  <2> SUFFICES ASSUME d < q PROVE FALSE
    OBVIOUS
  <2>1. p * d + p <= p * q
    BY <1>1, NextMultiple
  <2> QED
    BY <1>1, <1>2, <2>1
<1>4. ~(q < d)
  <2> SUFFICES ASSUME q < d PROVE FALSE
    OBVIOUS
  <2>1. p * q + p <= p * d
    BY <1>1, NextMultiple
  <2> QED
    BY <1>1, <1>2, <2>1
<1>5. d = q
  BY <1>1, <1>3, <1>4
<1>6. m = r
  BY <1>1, <1>2, <1>5
<1> QED
  BY <1>5, <1>6 DEF d, m

\* The next member of the roster is at the next position.
LEMMA NextPosition ==
    ASSUME NEW q \in Int, NEW n \in Nat \ {0}
    PROVE  (q + 1) % n = ((q % n) + 1) % n
<1> DEFINE d == q \div n
           m == q % n
<1>1. d \in Int /\ m \in 0..(n - 1) /\ q = n * d + m
  BY DivMod
<1> HIDE DEF d, m
<1>2. CASE m + 1 < n
  <2>1. q + 1 = n * d + (m + 1) /\ m + 1 \in 0..(n - 1)
    BY <1>1, <1>2
  <2>2. m + 1 = n * 0 + (m + 1)
    BY <1>1
  <2>3. (q + 1) % n = m + 1
    <3>1. \A a \in Int : \A r \in 0..(n - 1) : a = n * d + r => a % n = r
      BY <1>1, QuotientUnique
    <3> QED
      BY <2>1, <3>1
  <2>4. (m + 1) % n = m + 1
    BY <1>1, <2>1, <2>2, QuotientUnique
  <2> QED
    BY <2>3, <2>4 DEF m
<1>3. CASE m + 1 = n
  <2>1. q + 1 = n * (d + 1) + 0 /\ m + 1 = n * 1 + 0 /\ 0 \in 0..(n - 1)
    BY <1>1, <1>3
  <2>2. (q + 1) % n = 0
    BY <1>1, <2>1, QuotientUnique
  <2>3. (m + 1) % n = 0
    BY <1>1, <2>1, QuotientUnique
  <2> QED
    BY <2>2, <2>3 DEF m
<1> QED
  BY <1>1, <1>2, <1>3

-----------------------------------------------------------------------------
(* On-call escalation: the rotation. *)

Calendar(c) ==
    /\ c.n \in Nat /\ c.weekly \in BOOLEAN /\ c.dayNamed \in BOOLEAN
    /\ c.weekday \in 0..6 /\ c.tick \in 0..(TicksPerDay - 1)

LEMMA PeriodType ==
    ASSUME NEW c, Calendar(c)
    PROVE  RotationPeriod(c) \in Nat \ {0} /\ HandoffEpoch(c) \in Nat
  BY OnCallBounds DEF Calendar, RotationPeriod, HandoffEpoch

\* The last handoff is a whole number of periods after the epoch, and not further back
\* than one period.
LEMMA HandoffOnGrid ==
    ASSUME NEW c, Calendar(c), WellWritten(c), NEW t \in Int
    PROVE  \E q \in Int :
               /\ FindLastHandoff(c, t) = HandoffEpoch(c) + RotationPeriod(c) * q
               /\ FindLastHandoff(c, t) <= t
               /\ t < FindLastHandoff(c, t) + RotationPeriod(c)
<1> DEFINE day == t \div TicksPerDay
           back == IF c.dayNamed THEN (day - c.weekday) % 7 ELSE 0
           candidate == (day - back) * TicksPerDay + c.tick
           last == FindLastHandoff(c, t)
<1>1. day \in Int /\ t % TicksPerDay \in 0..(TicksPerDay - 1)
      /\ t = TicksPerDay * day + (t % TicksPerDay)
  BY OnCallBounds, DivMod
<1>2. last = IF candidate > t THEN candidate - RotationPeriod(c) ELSE candidate
  BY DEF FindLastHandoff, RotationPeriod, WellWritten, Calendar
<1> HIDE DEF day, last
<1>3. CASE c.weekly
  <2> DEFINE week == (day - c.weekday) \div 7
  <2>1. /\ week \in Int /\ (day - c.weekday) % 7 \in 0..6
        /\ day - c.weekday = 7 * week + ((day - c.weekday) % 7)
    <3>1. day - c.weekday \in Int
      BY <1>1 DEF Calendar
    <3>2. \A a \in Int : /\ a \div 7 \in Int /\ a % 7 \in 0..6
                         /\ a = 7 * (a \div 7) + (a % 7)
      OBVIOUS
    <3> QED
      BY <3>1, <3>2
  <2> HIDE DEF week
  <2>2. back \in 0..6 /\ day - back = c.weekday + 7 * week
    BY <1>1, <1>3, <2>1 DEF Calendar, WellWritten
  <2> HIDE DEF back
  <2>3. candidate = (c.weekday + 7 * week) * TicksPerDay + c.tick
    BY <2>2
  <2>4. (c.weekday + 7 * week) * TicksPerDay
            = c.weekday * TicksPerDay + (7 * TicksPerDay) * week
    BY <2>1, OnCallBounds DEF Calendar
  <2>5. RotationPeriod(c) = 7 * TicksPerDay
        /\ HandoffEpoch(c) = c.weekday * TicksPerDay + c.tick
    BY <1>3 DEF RotationPeriod, HandoffEpoch, WellWritten
  <2>6. candidate = HandoffEpoch(c) + RotationPeriod(c) * week
    BY <2>1, <2>3, <2>4, <2>5, OnCallBounds DEF Calendar
  <2>7. candidate = TicksPerDay * day - TicksPerDay * back + c.tick
    BY <1>1, <2>2, OnCallBounds DEF Calendar
  <2>8. TicksPerDay * back \in 0..(6 * TicksPerDay)
    BY <2>2, OnCallBounds
  <2>9. candidate \in Int /\ TicksPerDay * day \in Int /\ 7 * TicksPerDay \in Nat
    BY <1>1, <2>7, <2>8, OnCallBounds DEF Calendar
  <2> HIDE DEF candidate
  <2>10. CASE candidate > t
    <3>1. last = HandoffEpoch(c) + RotationPeriod(c) * (week - 1)
      <4>1. RotationPeriod(c) * (week - 1) = RotationPeriod(c) * week - RotationPeriod(c)
        BY <2>1, PeriodType
      <4>2. RotationPeriod(c) * week \in Int
        BY <2>1, PeriodType
      <4> QED
        BY <1>2, <2>6, <2>10, <4>1, <4>2, PeriodType
    <3>2. last = candidate - 7 * TicksPerDay
      BY <1>2, <2>5, <2>10
    <3>3. last <= t /\ t < last + RotationPeriod(c)
      BY <1>1, <2>5, <2>7, <2>8, <2>9, <2>10, <3>2, OnCallBounds DEF Calendar
    <3> QED
      BY <2>1, <3>1, <3>3 DEF last
  <2>11. CASE ~(candidate > t)
    <3>1. last = candidate
      BY <1>2, <2>11
    <3>2. last <= t /\ t < last + RotationPeriod(c)
      BY <1>1, <2>5, <2>7, <2>8, <2>9, <2>11, <3>1, OnCallBounds DEF Calendar
    <3> QED
      BY <2>1, <2>6, <3>1, <3>2 DEF last
  <2> QED
    BY <2>10, <2>11
<1>4. CASE ~c.weekly
  <2>1. candidate = TicksPerDay * day + c.tick
    BY <1>1, <1>4, OnCallBounds DEF Calendar, WellWritten
  <2>2. RotationPeriod(c) = TicksPerDay /\ HandoffEpoch(c) = c.tick
    BY <1>4 DEF RotationPeriod, HandoffEpoch, Calendar, WellWritten
  <2>3. TicksPerDay * day \in Int /\ TicksPerDay * (day - 1) = TicksPerDay * day - TicksPerDay
    BY <1>1, OnCallBounds
  <2> HIDE DEF candidate
  <2>4. CASE candidate > t
    <3>1. last = HandoffEpoch(c) + RotationPeriod(c) * (day - 1)
      BY <1>1, <1>2, <2>1, <2>2, <2>3, <2>4, OnCallBounds DEF Calendar
    <3>2. last <= t /\ t < last + RotationPeriod(c)
      BY <1>1, <1>2, <2>1, <2>2, <2>3, <2>4, OnCallBounds DEF Calendar
    <3> QED
      BY <1>1, <3>1, <3>2 DEF last
  <2>5. CASE ~(candidate > t)
    <3>1. last = HandoffEpoch(c) + RotationPeriod(c) * day
      BY <1>1, <1>2, <2>1, <2>2, <2>3, <2>5, OnCallBounds DEF Calendar
    <3>2. last <= t /\ t < last + RotationPeriod(c)
      BY <1>1, <1>2, <2>1, <2>2, <2>3, <2>5, OnCallBounds DEF Calendar
    <3> QED
      BY <1>1, <3>1, <3>2 DEF last
  <2> QED
    BY <2>4, <2>5
<1> QED
  BY <1>3, <1>4

\* Within a period the position stays, and the secondary has the next one.
LEMMA Rotates ==
    ASSUME NEW c, Calendar(c), NEW t \in Int, NEW q \in Int,
           HandoffEpoch(c) + RotationPeriod(c) * q <= t,
           t < HandoffEpoch(c) + RotationPeriod(c) * q + RotationPeriod(c)
    PROVE  (t - HandoffEpoch(c)) \div RotationPeriod(c) = q
<1> DEFINE a == t - HandoffEpoch(c)
           p == RotationPeriod(c)
           r == a - p * q
<1>1. p \in Nat \ {0} /\ a \in Int /\ HandoffEpoch(c) \in Nat
  BY PeriodType
<1>2. p * q \in Int
  BY <1>1
<1> HIDE DEF p
<1>3. HandoffEpoch(c) + p * q <= t /\ t < HandoffEpoch(c) + p * q + p
  BY DEF p
<1>4. r \in 0..(p - 1) /\ a = p * q + r
  BY <1>1, <1>2, <1>3
<1> HIDE DEF a, r
<1>5. a \div p = q
  BY <1>1, <1>4, QuotientUnique
<1> QED
  BY <1>5 DEF a, p

\* What the rotation answers from the epoch on.
LEMMA RotationAnswer ==
    ASSUME NEW c, NEW t, ResolveOncall(c, t).source = "rotation"
    PROVE  /\ c.n # 0
           /\ t - HandoffEpoch(c) < 0 =>
                  /\ ResolveOncall(c, t).primary = 0
                  /\ ResolveOncall(c, t).handoff = HandoffEpoch(c)
           /\ ~(t - HandoffEpoch(c) < 0) =>
                  LET position == ((t - HandoffEpoch(c)) \div RotationPeriod(c)) % c.n IN
                  /\ ResolveOncall(c, t).primary = position
                  /\ ResolveOncall(c, t).secondary = (position + 1) % c.n
                  /\ ResolveOncall(c, t).handoff = FindLastHandoff(c, t) + RotationPeriod(c)
  BY DEF ResolveOncall

\* RotationHandsOver of any instant.
LEMMA HandsOver ==
    ASSUME NEW c, Calendar(c), WellWritten(c), NEW s \in Nat, ResolveOncall(c, s).source = "rotation"
    PROVE  LET here == ResolveOncall(c, s)
               then == ResolveOncall(c, here.handoff)
           IN  /\ here.handoff > s
               /\ \A t \in s..(here.handoff - 1) :
                      ResolveOncall(c, t).source = "rotation"
                          => ResolveOncall(c, t).primary = here.primary
               /\ (then.source = "rotation" /\ s >= HandoffEpoch(c))
                      => then.primary = here.secondary
<1> DEFINE here == ResolveOncall(c, s)
           p == RotationPeriod(c)
           epoch == HandoffEpoch(c)
<1>1. p \in Nat \ {0} /\ epoch \in Nat /\ c.n \in Nat
  BY PeriodType DEF Calendar
<1>2. CASE s - epoch < 0
  <2>1. here.primary = 0 /\ here.handoff = epoch
    BY <1>2, RotationAnswer
  <2>2. \A t \in s..(epoch - 1) : t - epoch < 0
    BY <1>1
  <2>3. \A t \in s..(epoch - 1) : ResolveOncall(c, t).source = "rotation"
            => ResolveOncall(c, t).primary = 0
    BY <2>2, RotationAnswer
  <2>4. epoch > s /\ ~(s >= epoch)
    BY <1>1, <1>2
  <2> QED
    BY <2>1, <2>3, <2>4
<1>3. CASE ~(s - epoch < 0)
  <2>1. PICK q \in Int : /\ FindLastHandoff(c, s) = epoch + p * q
                         /\ FindLastHandoff(c, s) <= s /\ s < FindLastHandoff(c, s) + p
    BY HandoffOnGrid
  <2>2. p * q \in Int /\ p * (q + 1) = p * q + p
    BY <1>1
  <2>3. \A t \in Int : epoch + p * q <= t /\ t < epoch + p * q + p => (t - epoch) \div p = q
    BY Rotates
  <2>4. (s - epoch) \div p = q
    BY <2>1, <2>3
  <2>5. /\ c.n # 0 /\ here.primary = q % c.n /\ here.secondary = ((q % c.n) + 1) % c.n
        /\ here.handoff = epoch + p * q + p
    BY <1>3, <2>1, <2>4, RotationAnswer
  <2>6. here.handoff > s /\ here.handoff \in Int
    BY <1>1, <2>1, <2>2, <2>5
  <2>7. ASSUME NEW t \in s..(here.handoff - 1), ResolveOncall(c, t).source = "rotation"
        PROVE  ResolveOncall(c, t).primary = here.primary
    <3>1. t \in Int /\ epoch + p * q <= t /\ t < epoch + p * q + p /\ ~(t - epoch < 0)
      BY <1>1, <1>3, <2>1, <2>2, <2>5, <2>6
    <3>2. (t - epoch) \div p = q
      BY <2>3, <3>1
    <3> QED
      BY <2>5, <2>7, <3>1, <3>2, RotationAnswer
  <2>8. ASSUME ResolveOncall(c, here.handoff).source = "rotation"
        PROVE  ResolveOncall(c, here.handoff).primary = here.secondary
    <3>1. /\ epoch + p * (q + 1) <= here.handoff
          /\ here.handoff < epoch + p * (q + 1) + p
          /\ ~(here.handoff - epoch < 0)
      BY <1>1, <1>3, <2>2, <2>5, <2>6
    <3>2. (here.handoff - epoch) \div p = q + 1
      <4>1. \A d \in Int : epoch + p * d <= here.handoff /\ here.handoff < epoch + p * d + p
                => (here.handoff - epoch) \div p = d
        BY <2>6, Rotates
      <4> QED
        BY <3>1, <4>1
    <3>3. ResolveOncall(c, here.handoff).primary = (q + 1) % c.n
      BY <2>8, <3>1, <3>2, RotationAnswer
    <3> QED
      BY <1>1, <2>5, <3>3, NextPosition
  <2> QED
    BY <2>6, <2>7, <2>8
<1> QED
  BY <1>2, <1>3

-----------------------------------------------------------------------------
(* On-call escalation: the runner. *)

Escalation == [steps : Seq(PolicySteps), index : Nat, status : Statuses,
               started : Nat, phase : EscalationPhases]
Recipients == {"channel", "primary", "next_oncall", "engineering_manager", "skipped", "raised"}
Results == {"pending", "delivered", "failed", "skipped", "raised"}
Logged == [at : Nat, to : Recipients, here : BOOLEAN, result : Results]
Sending == {"startSend", "loopSend"}
PagedHere(l, k) == l[k].here /\ l[k].result = "delivered"

\* Of an incident i, its escalation e, its log l, the incidents whose thread is anchored,
\* and the time t: while a message that pages @here waits for its answer no thread is anchored,
\* and once one was delivered there is one.
RunnerOk(i, e, l, threads, t) ==
    /\ e \in Escalation /\ l \in Seq(Logged)
    /\ Len(l) = e.index /\ e.index <= Len(e.steps) /\ e.started <= t
    /\ e.phase = "none" => e.index = 0 /\ e.started = 0
    /\ e.phase \in Sending => e.index > 0
    /\ \A k \in DOMAIN l : l[k].at >= e.started + e.steps[k].after
    /\ \A k \in DOMAIN l : l[k].here => l[k].to = "channel"
    /\ e.phase \in Sending /\ l[Len(l)].here => i \notin threads
    /\ \A k \in DOMAIN l : PagedHere(l, k) => i \in threads
    /\ \A j, k \in DOMAIN l : PagedHere(l, j) /\ PagedHere(l, k) => j = k

RunnerInv ==
    /\ schedule \in Schedules \union {Unset}
    /\ schedule = Unset => ~up /\ \A i \in Incidents : esc[i].phase = "none"
    /\ base \in Nat /\ clock \in base..(base + MaxRun)
    /\ up \in BOOLEAN /\ anchored \subseteq Incidents
    /\ DOMAIN esc = Incidents /\ DOMAIN log = Incidents
    /\ \A i \in Incidents : RunnerOk(i, esc[i], log[i], anchored, clock)

LEMMA BeginKeeps ==
    ASSUME NEW i, NEW e, NEW l, NEW threads, NEW t \in Nat, RunnerOk(i, e, l, threads, t),
           e.index < Len(e.steps), t >= e.started + e.steps[e.index + 1].after,
           NEW entry \in Logged, entry.at = t, entry.result # "delivered",
           entry.here => entry.to = "channel" /\ i \notin threads,
           NEW phase2 \in EscalationPhases, phase2 # "none"
    PROVE  RunnerOk(i, [e EXCEPT !.index = @ + 1, !.phase = phase2], Append(l, entry),
                    threads, t)
<1> DEFINE f == [e EXCEPT !.index = @ + 1, !.phase = phase2]
           m == Append(l, entry)
<1>1. /\ f \in Escalation /\ f.index = e.index + 1 /\ f.phase = phase2
      /\ f.steps = e.steps /\ f.started = e.started
  <2>1. e \in Escalation
    BY DEF RunnerOk
  <2>2. e.index + 1 \in Nat
    BY <2>1 DEF Escalation
  <2> QED
    BY <2>1, <2>2 DEF Escalation
<1>2. /\ m \in Seq(Logged) /\ Len(m) = Len(l) + 1 /\ DOMAIN m = 1..(Len(l) + 1)
      /\ m[Len(l) + 1] = entry /\ DOMAIN l = 1..Len(l) /\ Len(l) \in Nat
      /\ \A k \in 1..Len(l) : m[k] = l[k]
  BY DEF RunnerOk
<1>3. e.index \in Nat /\ e.started \in Nat /\ Len(e.steps) \in Nat
  BY DEF RunnerOk, Escalation
<1> HIDE DEF f, m
<1>4. \A k \in DOMAIN m : \/ k \in DOMAIN l /\ m[k] = l[k]
                          \/ k = Len(l) + 1 /\ m[k] = entry
  BY <1>2
<1>5. \A k \in DOMAIN m : PagedHere(m, k) => k \in DOMAIN l /\ PagedHere(l, k)
  BY <1>4 DEF PagedHere
<1> QED
  BY <1>1, <1>2, <1>3, <1>4, <1>5 DEF RunnerOk, f, m

\* A change of status or phase that begins no step.
LEMMA PhaseKeeps ==
    ASSUME NEW i, NEW e, NEW l, NEW threads, NEW t, RunnerOk(i, e, l, threads, t),
           NEW f \in Escalation, f.steps = e.steps, f.index = e.index, f.started = e.started,
           f.phase # "none", f.phase \in Sending => e.phase \in Sending
    PROVE  RunnerOk(i, f, l, threads, t)
  BY DEF RunnerOk

\* The last message gets its answer.
LEMMA AnswerKeeps ==
    ASSUME NEW i, NEW e, NEW l, NEW threads, NEW t, RunnerOk(i, e, l, threads, t),
           e.phase \in Sending, NEW delivered \in BOOLEAN,
           NEW f \in Escalation, f.steps = e.steps, f.index = e.index, f.started = e.started,
           f.phase # "none", f.phase \notin Sending,
           NEW answered \in Logged, answered.at = l[Len(l)].at, answered.to = l[Len(l)].to,
           answered.here = l[Len(l)].here,
           answered.result = (IF delivered THEN "delivered" ELSE "failed"),
           NEW threads2, i \in threads => i \in threads2,
           answered.to = "channel" /\ delivered => i \in threads2
    PROVE  RunnerOk(i, f, [l EXCEPT ![Len(l)] = answered], threads2, t)
<1> DEFINE n == Len(l)
           m == [l EXCEPT ![n] = answered]
<1>1. n \in DOMAIN l /\ DOMAIN l = 1..n /\ n \in Nat
  BY DEF RunnerOk, Escalation
<1>2. m \in Seq(Logged) /\ Len(m) = n /\ DOMAIN m = DOMAIN l
      /\ m[n] = answered /\ \A k \in DOMAIN l : k # n => m[k] = l[k]
  BY <1>1, ExceptSeq DEF RunnerOk
<1> HIDE DEF n, m
<1>3. l[n].here => i \notin threads
  BY DEF RunnerOk, n
<1>4. \A k \in DOMAIN l : m[k].at = l[k].at /\ m[k].to = l[k].to /\ m[k].here = l[k].here
  BY <1>2 DEF n
<1>5. \A k \in DOMAIN l : PagedHere(m, k) => i \in threads2 /\ (PagedHere(l, k) \/ k = n)
  BY <1>2, <1>4 DEF PagedHere, RunnerOk, n
<1>6. \A j, k \in DOMAIN l : PagedHere(m, j) /\ PagedHere(m, k) => j = k
  <2>1. PagedHere(m, n) => \A k \in DOMAIN l : ~PagedHere(l, k)
    BY <1>1, <1>3, <1>4 DEF PagedHere, RunnerOk
  <2> QED
    BY <1>2, <1>5, <2>1 DEF RunnerOk, PagedHere
<1>7. f.index \in Nat
  BY DEF Escalation
<1> QED
  BY <1>2, <1>4, <1>5, <1>6, <1>7 DEF RunnerOk, n, m
\* A step of the runner concerns one incident.
LEMMA OneIncident ==
    ASSUME RunnerInv, NEW i \in Incidents, UNCHANGED <<schedule, clock, base, up>>, up,
           DOMAIN esc' = Incidents, DOMAIN log' = Incidents, anchored' \subseteq Incidents,
           \A j \in Incidents \ {i} : /\ esc'[j] = esc[j] /\ log'[j] = log[j]
                                      /\ (j \in anchored') = (j \in anchored),
           RunnerOk(i, esc'[i], log'[i], anchored', clock)
    PROVE  RunnerInv'
<1>1. ASSUME NEW j \in Incidents PROVE RunnerOk(j, esc'[j], log'[j], anchored', clock')
  <2>1. CASE j = i
    BY <2>1
  <2>2. CASE j # i
    <3>1. RunnerOk(j, esc'[j], log'[j], anchored, clock') /\ (j \in anchored') = (j \in anchored)
      BY <2>2 DEF RunnerInv
    <3> QED
      BY <3>1 DEF RunnerOk
  <2> QED
    BY <2>1, <2>2
<1> QED
  BY <1>1 DEF RunnerInv

LEMMA RecipientType == ASSUME NEW step PROVE Recipient(step) \in Recipients
<1> DEFINE channel == step.notify = "slack_channel"
           missing == step.notify \notin schedule.backends
<1>1. CASE channel
  BY <1>1 DEF Recipient, Recipients
<1>2. CASE ~channel /\ missing
  BY <1>2 DEF Recipient, Recipients
<1>3. CASE ~channel /\ ~missing
  BY <1>3 DEF Recipient, Recipients
<1> QED
  BY <1>1, <1>2, <1>3

LEMMA BeginStepKeeps ==
    ASSUME RunnerInv, NEW i \in Incidents, up, UNCHANGED <<schedule, clock, base, anchored, up>>,
           NEW t, NextDueStep(esc[i], t), t <= clock, t \in Nat,
           NEW sending \in Sending, BeginStep(i, esc[i], sending)
    PROVE  RunnerInv'
<1> DEFINE e == esc[i]
           step == e.steps[e.index + 1]
           raises == ResolveOncall(schedule, clock).raises
           to == IF raises THEN "raised" ELSE Recipient(step)
           here == PagesHere(i, to)
           result == IF to \in {"raised", "skipped"} THEN to ELSE "pending"
           entry == [at |-> clock, to |-> to, here |-> here, result |-> result]
           next == IF raises THEN "done" ELSE sending
<1>1. /\ esc' = [esc EXCEPT ![i] = [e EXCEPT !.index = @ + 1, !.phase = next]]
      /\ log' = [log EXCEPT ![i] = Append(@, entry)]
  BY DEF BeginStep
<1>2. /\ RunnerOk(i, e, log[i], anchored, clock) /\ clock \in Nat
      /\ e \in Escalation /\ DOMAIN esc = Incidents /\ DOMAIN log = Incidents
  BY OnCallBounds DEF RunnerInv, RunnerOk
<1>3. e.index < Len(e.steps) /\ t >= e.started + step.after
  BY DEF NextDueStep
<1>4. step \in PolicySteps
  BY <1>2, <1>3, ElementOfSeq DEF Escalation
<1>5. clock >= e.started + step.after
  <2>1. step.after \in Nat /\ e.started \in Nat
    BY <1>2, <1>4 DEF PolicySteps, Escalation
  <2> QED
    BY <1>2, <1>3, <2>1
<1>6. to \in Recipients
  <2>1. Recipient(step) \in Recipients
    BY RecipientType
  <2> HIDE DEF raises, step
  <2> QED
    BY <2>1 DEF Recipients
<1>7. next \in EscalationPhases /\ next # "none"
  BY DEF Sending, EscalationPhases
<1> HIDE DEF to, next
<1>8. here \in BOOLEAN /\ (here => to = "channel" /\ i \notin anchored)
      /\ result \in Results /\ result # "delivered"
  <2>1. here \in BOOLEAN /\ (here => to = "channel" /\ i \notin anchored)
    BY DEF PagesHere
  <2>2. result \in Results /\ result # "delivered"
    BY <1>6 DEF Results
  <2> QED
    BY <2>1, <2>2
<1> HIDE DEF here, result
<1>9. /\ entry \in Logged /\ entry.at = clock /\ entry.result # "delivered"
      /\ entry.here => entry.to = "channel" /\ i \notin anchored
  BY <1>2, <1>6, <1>8 DEF Logged
<1> HIDE DEF entry, step
<1>10. RunnerOk(i, [e EXCEPT !.index = @ + 1, !.phase = next], Append(log[i], entry),
                anchored, clock)
  BY <1>2, <1>3, <1>5, <1>7, <1>9, BeginKeeps DEF step
<1>11. /\ esc'[i] = [e EXCEPT !.index = @ + 1, !.phase = next] /\ log'[i] = Append(log[i], entry)
       /\ DOMAIN esc' = Incidents /\ DOMAIN log' = Incidents
       /\ \A j \in Incidents \ {i} : esc'[j] = esc[j] /\ log'[j] = log[j]
  BY <1>1, <1>2
<1>12. up' \in BOOLEAN /\ anchored' = anchored /\ anchored' \subseteq Incidents
  BY DEF RunnerInv
<1> QED
  BY <1>10, <1>11, <1>12, OneIncident

\* Only the phase or the status of an incident changes.
LEMMA PhaseStepKeeps ==
    ASSUME RunnerInv, NEW i \in Incidents, UNCHANGED <<schedule, clock, base, anchored, log, up>>, up,
           NEW status \in Statuses, NEW phase2 \in EscalationPhases, phase2 # "none",
           phase2 \in Sending => esc[i].phase \in Sending,
           esc' = [esc EXCEPT ![i] = [esc[i] EXCEPT !.status = status, !.phase = phase2]]
    PROVE  RunnerInv'
<1> DEFINE f == [esc[i] EXCEPT !.status = status, !.phase = phase2]
<1>1. RunnerOk(i, esc[i], log[i], anchored, clock) /\ esc[i] \in Escalation
  BY DEF RunnerInv, RunnerOk
<1>2. /\ f \in Escalation /\ f.steps = esc[i].steps /\ f.index = esc[i].index
      /\ f.started = esc[i].started /\ f.phase = phase2
  BY <1>1 DEF Escalation
<1>3. esc' = [esc EXCEPT ![i] = f]
  OBVIOUS
<1> HIDE DEF f
<1>4. RunnerOk(i, f, log[i], anchored, clock)
  BY <1>1, <1>2, PhaseKeeps
<1>5. /\ esc'[i] = f /\ DOMAIN esc' = Incidents /\ DOMAIN log' = Incidents
      /\ \A j \in Incidents \ {i} : esc'[j] = esc[j]
      /\ up' \in BOOLEAN /\ anchored' \subseteq Incidents
  BY <1>3 DEF RunnerInv
<1> QED
  BY <1>4, <1>5, OneIncident
LEMMA SendReturnsKeeps ==
    ASSUME RunnerInv, NEW i \in Incidents, NEW delivered \in BOOLEAN, SendReturns(i, delivered)
    PROVE  RunnerInv' /\ Len(log'[i]) = Len(log[i])
<1> DEFINE l == log[i]
           last == l[Len(l)]
           result == IF delivered THEN "delivered" ELSE "failed"
           phase2 == IF esc[i].phase = "startSend" THEN "start"
                     ELSE IF NothingLeft(esc[i]) THEN "done" ELSE "asleep"
           f == [esc[i] EXCEPT !.phase = phase2]
           answered == [last EXCEPT !.result = result]
<1>1. /\ up /\ esc[i].phase \in Sending
      /\ log' = IF last.to = "skipped" THEN log
                ELSE [log EXCEPT ![i][Len(l)].result = result]
      /\ anchored' = IF last.to = "channel" /\ delivered THEN anchored \union {i} ELSE anchored
      /\ esc' = [esc EXCEPT ![i].phase = phase2]
      /\ UNCHANGED <<schedule, clock, base, up>>
  BY DEF SendReturns, Sending
<1>2. /\ RunnerOk(i, esc[i], l, anchored, clock) /\ esc[i] \in Escalation
      /\ DOMAIN esc = Incidents /\ DOMAIN log = Incidents /\ anchored \subseteq Incidents
      /\ l \in Seq(Logged) /\ Len(l) \in DOMAIN l
  BY <1>1 DEF RunnerInv, RunnerOk, Escalation
<1>3. last \in Logged
  BY <1>2, ElementOfSeq
<1>4. phase2 \in EscalationPhases \ Sending /\ phase2 # "none"
  BY DEF EscalationPhases, Sending
<1> HIDE DEF phase2
<1>5. /\ f \in Escalation /\ f.steps = esc[i].steps /\ f.index = esc[i].index
      /\ f.started = esc[i].started /\ f.phase = phase2
  BY <1>2, <1>4 DEF Escalation
<1>6. /\ esc'[i] = f /\ DOMAIN esc' = Incidents
      /\ \A j \in Incidents \ {i} : esc'[j] = esc[j]
  BY <1>1, <1>2
<1> HIDE DEF f, last
<1>7. /\ anchored' \subseteq Incidents /\ up' \in BOOLEAN
      /\ \A j \in Incidents \ {i} : (j \in anchored') = (j \in anchored)
  BY <1>1, <1>2
<1>8. CASE last.to = "skipped"
  <2>1. log' = log /\ anchored' = anchored
    BY <1>1, <1>8
  <2>2. RunnerOk(i, f, l, anchored, clock)
    BY <1>2, <1>4, <1>5, PhaseKeeps
  <2> QED
    BY <1>1, <1>2, <1>6, <1>7, <2>1, <2>2, OneIncident
<1>9. CASE last.to # "skipped"
  <2>1. /\ log'[i] = [l EXCEPT ![Len(l)] = answered]
        /\ DOMAIN log' = Incidents /\ \A j \in Incidents \ {i} : log'[j] = log[j]
    BY <1>1, <1>2, <1>9 DEF last
  <2>2. result \in Results
    BY DEF Results
  <2> HIDE DEF result
  <2>3. /\ answered \in Logged /\ answered.at = last.at /\ answered.to = last.to
        /\ answered.here = last.here /\ answered.result = result
    BY <1>3, <2>2 DEF Logged
  <2> HIDE DEF answered
  <2>4. /\ i \in anchored => i \in anchored'
        /\ answered.to = "channel" /\ delivered => i \in anchored'
    BY <1>1, <2>3
  <2>6. RunnerOk(i, f, log'[i], anchored', clock)
    <3>1. /\ answered.at = l[Len(l)].at /\ answered.to = l[Len(l)].to
          /\ answered.here = l[Len(l)].here /\ answered \in Logged
          /\ answered.result = (IF delivered THEN "delivered" ELSE "failed")
      BY <2>3 DEF last, result
    <3>2. f.phase # "none" /\ f.phase \notin Sending
      BY <1>4, <1>5
    <3> HIDE DEF l
    <3>3. RunnerOk(i, f, [l EXCEPT ![Len(l)] = answered], anchored', clock)
      BY <1>1, <1>2, <1>5, <2>4, <3>1, <3>2, AnswerKeeps
    <3> QED
      BY <2>1, <3>3
  <2>7. Len(log'[i]) = Len(l)
    BY <1>2, <2>1, <2>3, ExceptSeq
  <2> QED
    BY <1>1, <1>6, <1>7, <2>1, <2>6, <2>7, OneIncident
<1> QED
  BY <1>8, <1>9

LEMMA EscalationKeeps ==
    ASSUME RunnerInv, NEW i \in Incidents, StartEscalation(i)
    PROVE  RunnerInv'
<1>1. PICK raw \in Escalations : \E steps \in ParseSteps(raw) :
          esc' = [esc EXCEPT ![i] = [steps |-> steps, index |-> 0, status |-> "active",
                                     started |-> clock, phase |-> "start"]]
  BY DEF StartEscalation
<1>10. PICK steps \in ParseSteps(raw) :
          esc' = [esc EXCEPT ![i] = [steps |-> steps, index |-> 0, status |-> "active",
                                     started |-> clock, phase |-> "start"]]
  BY <1>1
<1> DEFINE f == [steps |-> steps, index |-> 0, status |-> "active",
                 started |-> clock, phase |-> "start"]
<1>2. steps \in Seq(PolicySteps)
  <2> DEFINE valid == {k \in DOMAIN raw : raw[k].valid}
             n == Cardinality(valid)
  <2>1. raw \in Seq(PolicySteps)
    BY OnCallInputs
  <2>2. IsFiniteSet(valid) /\ n \in Nat
    <3>1. IsFiniteSet(1..Len(raw)) /\ valid \subseteq 1..Len(raw)
      BY <2>1, FS_Interval
    <3> QED
      BY <3>1, FS_Subset, FS_CardinalityType
  <2>3. PICK p \in [1..n -> valid] : steps = [k \in DOMAIN p |-> raw[p[k]]]
    <3>1. steps \in {[k \in DOMAIN p |-> raw[p[k]]] :
                        p \in {p \in [1..n -> valid] :
                                  \A j, k \in DOMAIN p : j < k => p[j] < p[k]}}
      BY <1>10 DEF ParseSteps
    <3> HIDE DEF valid, n
    <3> QED
      BY <3>1
  <2>4. \A k \in valid : raw[k] \in PolicySteps
    BY <2>1, ElementOfSeq
  <2> HIDE DEF valid, n
  <2>5. steps \in [1..n -> PolicySteps]
    BY <2>3, <2>4
  <2> QED
    BY <2>2, <2>5
<1>3. /\ UNCHANGED <<schedule, clock, base, anchored, log, up>> /\ esc[i].phase = "none"
      /\ RunnerOk(i, esc[i], log[i], anchored, clock) /\ clock \in Nat
      /\ DOMAIN esc = Incidents /\ DOMAIN log = Incidents
      /\ up /\ anchored \subseteq Incidents
  BY OnCallBounds DEF StartEscalation, RunnerInv
<1>4. /\ f \in Escalation /\ f.steps = steps /\ f.index = 0 /\ f.phase = "start"
      /\ f.started = clock
  BY <1>2, <1>3 DEF Escalation, Statuses, EscalationPhases
<1>5. esc'[i] = f /\ DOMAIN esc' = Incidents /\ \A j \in Incidents \ {i} : esc'[j] = esc[j]
  BY <1>3, <1>10
<1> HIDE DEF f
<1>6. log[i] \in Seq(Logged) /\ Len(log[i]) = 0 /\ DOMAIN log[i] = {}
  BY <1>3 DEF RunnerOk
<1>7. Len(f.steps) \in Nat
  BY <1>2, <1>4
<1>8. RunnerOk(i, f, log[i], anchored, clock)
  BY <1>3, <1>4, <1>6, <1>7 DEF RunnerOk, Sending
<1> QED
  BY <1>3, <1>5, <1>8, OneIncident

LEMMA WaitKeeps ==
    ASSUME RunnerInv, NEW i \in Incidents, StartPoll(i) \/ LoopPoll(i)
    PROVE  RunnerInv'
<1>1. up /\ UNCHANGED <<schedule, clock, base, anchored, up>>
  BY DEF StartPoll, LoopPoll
<1>2. RunnerOk(i, esc[i], log[i], anchored, clock) /\ esc[i] \in Escalation /\ clock \in Nat
  BY OnCallBounds DEF RunnerInv, RunnerOk
<1>3. ASSUME NEW t \in {esc[i].started, clock}, NEW sending \in Sending,
             NextDueStep(esc[i], t), BeginStep(i, esc[i], sending)
      PROVE  RunnerInv'
  <2>1. t <= clock /\ t \in Nat
    BY <1>2, <1>3 DEF RunnerOk, Escalation
  <2> QED
    BY <1>1, <1>3, <2>1, BeginStepKeeps
<1>4. ASSUME NEW phase2 \in {"loop", "asleep", "done"}, UNCHANGED log,
             esc' = [esc EXCEPT ![i] = [Polled(esc[i]) EXCEPT !.phase = phase2]]
      PROVE  RunnerInv'
  <2>1. PICK status \in Statuses :
            [Polled(esc[i]) EXCEPT !.phase = phase2]
                = [esc[i] EXCEPT !.status = status, !.phase = phase2]
    <3>1. CASE IsActive(esc[i]) /\ esc[i].index >= Len(esc[i].steps)
      BY <1>2, <3>1 DEF Polled, Statuses, Escalation
    <3>2. CASE ~(IsActive(esc[i]) /\ esc[i].index >= Len(esc[i].steps))
      BY <1>2, <3>2 DEF Polled, Escalation
    <3> QED
      BY <3>1, <3>2
  <2>2. phase2 \in EscalationPhases /\ phase2 # "none" /\ phase2 \notin Sending
    BY DEF EscalationPhases, Sending
  <2> QED
    BY <1>1, <1>4, <2>1, <2>2, PhaseStepKeeps
<1>5. CASE StartPoll(i)
  <2>1. CASE NextDueStep(esc[i], esc[i].started)
    BY <1>3, <1>5, <2>1 DEF StartPoll, Sending
  <2>2. CASE ~NextDueStep(esc[i], esc[i].started)
    BY <1>4, <1>5, <2>2 DEF StartPoll
  <2> QED
    BY <2>1, <2>2
<1>6. CASE LoopPoll(i)
  <2>1. CASE NextDueStep(esc[i], clock)
    BY <1>3, <1>6, <2>1 DEF LoopPoll, Sending
  <2>2. CASE ~NextDueStep(esc[i], clock)
    BY <1>4, <1>6, <2>2 DEF LoopPoll
  <2> QED
    BY <2>1, <2>2
<1> QED
  BY <1>5, <1>6

LEMMA RunnerInitially == OnCallInit => RunnerInv
<1> SUFFICES ASSUME OnCallInit PROVE RunnerInv
  OBVIOUS
<1>1. ASSUME NEW i \in Incidents
      PROVE  esc[i] = NoEscalation /\ log[i] = << >>
  BY DEF OnCallInit
<1>2. NoEscalation \in Escalation
  BY DEF NoEscalation, Escalation, Statuses, EscalationPhases
<1>3. ASSUME NEW i \in Incidents PROVE RunnerOk(i, esc[i], log[i], anchored, clock)
  BY <1>1, <1>2 DEF NoEscalation, OnCallInit, RunnerOk, Sending
<1> QED
  <2>1. /\ schedule = Unset /\ ~up /\ up \in BOOLEAN /\ anchored = {} /\ base = 0 /\ clock = 0
        /\ DOMAIN esc = Incidents /\ DOMAIN log = Incidents
    BY DEF OnCallInit
  <2>2. 0 \in 0..(0 + MaxRun)
    BY OnCallBounds
  <2>3. \A i \in Incidents : esc[i].phase = "none"
    BY <1>1 DEF NoEscalation
  <2> QED
    BY <1>3, <2>1, <2>2, <2>3 DEF RunnerInv

LEMMA RunnerStepKeeps == RunnerInv /\ [OnCallNext]_onCallVars => RunnerInv'
<1> SUFFICES ASSUME RunnerInv, [OnCallNext]_onCallVars PROVE RunnerInv'
  OBVIOUS
<1>1. CASE UNCHANGED onCallVars
  BY <1>1 DEF onCallVars, RunnerInv
<1>2. CASE Configure
  <2>1. /\ schedule = Unset /\ schedule' \in Schedules /\ base' \in Nat /\ clock' = base'
        /\ up' = TRUE /\ UNCHANGED <<esc, anchored, log>>
    BY <1>2, OnCallBounds DEF Configure
  <2>2. schedule' # Unset
    BY <2>1, OnCallInputs DEF Unset
  <2>3. ASSUME NEW i \in Incidents PROVE RunnerOk(i, esc[i], log[i], anchored, clock')
    BY <2>1 DEF RunnerInv, RunnerOk
  <2>4. clock' \in base'..(base' + MaxRun)
    <3>1. \A b \in Nat : b \in b..(b + MaxRun)
      BY OnCallBounds
    <3> QED
      BY <2>1, <3>1
  <2> QED
    BY <2>1, <2>2, <2>3, <2>4 DEF RunnerInv
<1>3. CASE ClockTick
  <2>1. /\ clock < base + MaxRun /\ clock' = clock + 1
        /\ UNCHANGED <<schedule, base, esc, anchored, log, up>>
        /\ clock \in Nat /\ base \in Nat /\ clock \in base..(base + MaxRun)
    BY <1>3, OnCallBounds DEF ClockTick, RunnerInv
  <2>2. ASSUME NEW i \in Incidents PROVE RunnerOk(i, esc[i], log[i], anchored, clock')
    <3>1. RunnerOk(i, esc[i], log[i], anchored, clock) /\ esc[i].started \in Nat
      BY DEF RunnerInv, RunnerOk, Escalation
    <3> QED
      BY <2>1, <3>1 DEF RunnerOk
  <2>3. clock' \in base..(base + MaxRun)
    BY <2>1, OnCallBounds
  <2> QED
    BY <2>1, <2>2, <2>3 DEF RunnerInv
<1>4. CASE Shutdown
  BY <1>4 DEF Shutdown, RunnerInv
<1>5. ASSUME NEW i \in Incidents, Wake(i) PROVE RunnerInv'
  <2>1. [esc EXCEPT ![i].phase = "loop"]
            = [esc EXCEPT ![i] = [esc[i] EXCEPT !.status = esc[i].status, !.phase = "loop"]]
    BY DEF RunnerInv, RunnerOk, Escalation
  <2>2. esc[i].status \in Statuses /\ "loop" \in EscalationPhases \ Sending
    BY DEF RunnerInv, RunnerOk, Escalation, EscalationPhases, Sending
  <2> QED
    BY <1>5, <2>1, <2>2, PhaseStepKeeps DEF Wake
<1>6. ASSUME NEW i \in Incidents, Acknowledge(i) PROVE RunnerInv'
  <2> DEFINE phase2 == IF esc[i].phase \in InTask THEN "done" ELSE esc[i].phase
  <2>1. esc' = [esc EXCEPT ![i] = [esc[i] EXCEPT !.status = "acknowledged", !.phase = phase2]]
    BY <1>6 DEF Acknowledge, RunnerInv, RunnerOk, Escalation
  <2>2. /\ phase2 \in EscalationPhases /\ phase2 # "none"
        /\ phase2 \in Sending => esc[i].phase \in Sending
    BY <1>6 DEF Acknowledge, RunnerInv, RunnerOk, Escalation, EscalationPhases, Sending, InTask
  <2> HIDE DEF phase2
  <2> QED
    BY <1>6, <2>1, <2>2, PhaseStepKeeps DEF Acknowledge, Statuses
<1> QED
  BY <1>1, <1>2, <1>3, <1>4, <1>5, <1>6, EscalationKeeps, WaitKeeps, SendReturnsKeeps
  DEF OnCallNext, RunnerStep

LEMMA RunnerInvariant == OnCallSpec => []RunnerInv
  BY RunnerInitially, RunnerStepKeeps, PTL DEF OnCallSpec

LEMMA RunnerTypes == RunnerInv => OnCallTypeOK
BY DEF RunnerInv, RunnerOk, Escalation, OnCallTypeOK

\* Every variable of the escalation runner keeps its type, and an escalation logs a step
\* for each it has taken.
THEOREM OnCallTypeCorrect == OnCallSpec => []OnCallTypeOK
BY RunnerTypes, RunnerInvariant, PTL

LEMMA RunnerOrder == RunnerInv => StepsInOrder
BY DEF RunnerInv, RunnerOk, StepsInOrder

\* Nobody is paged before the delay of the step, in the order of the policy.
THEOREM StepsFireInOrder == OnCallSpec => []StepsInOrder
BY RunnerOrder, RunnerInvariant, PTL

LEMMA RunnerChannel == RunnerInv => HereOnce
<1> SUFFICES ASSUME RunnerInv, NEW i \in Incidents
             PROVE  Cardinality({k \in DOMAIN log[i] :
                                     log[i][k].here /\ log[i][k].result = "delivered"}) <= 1
  BY DEF HereOnce
<1> DEFINE paged == {k \in DOMAIN log[i] :
                         log[i][k].here /\ log[i][k].result = "delivered"}
<1>1. \A j, k \in paged : j = k
  BY DEF RunnerInv, RunnerOk, PagedHere
<1> HIDE DEF paged
<1>2. paged = {} => Cardinality(paged) <= 1
  BY FS_EmptySet
<1>3. ASSUME paged # {} PROVE Cardinality(paged) <= 1
  <2>1. PICK k : paged = {k}
    BY <1>1, <1>3
  <2>2. Cardinality({k}) = 1
    BY FS_Singleton
  <2> QED
    BY <2>1, <2>2
<1> QED
  BY <1>2, <1>3 DEF paged

\* The channel is paged with @here until one such message gets through, and not again.
THEOREM ChannelPagedOnce == OnCallSpec => []HereOnce
BY RunnerChannel, RunnerInvariant, PTL

\* Who is primary, counted from the epoch, changes exactly at the hand-off walked back
\* from today, and to the secondary: for every length of the roster, day, time and
\* instant, where the handoff is written for the rotation's type.
THEOREM RotationAgrees == OnCallSpec => []RotationHandsOver
<1>1. RunnerInv => RotationHandsOver
  <2> SUFFICES ASSUME RunnerInv, WellWritten(schedule),
                      ResolveOncall(schedule, clock).source = "rotation"
               PROVE  RotationHandsOver
    BY DEF RotationHandsOver
  <2>1. schedule # Unset
    BY DEF ResolveOncall, Unset
  <2>2. Calendar(schedule)
    BY <2>1, OnCallInputs DEF RunnerInv, Calendar
  <2>3. clock \in Nat
    BY OnCallBounds DEF RunnerInv
  <2> QED
    BY <2>2, <2>3, HandsOver DEF RotationHandsOver
<1> QED
  BY <1>1, RunnerInvariant, PTL

\* An acknowledgement stops the escalation wherever it meets it.
THEOREM AcknowledgedIsSilent == OnCallSpec => AckSilences
<1> DEFINE Silent == \A i \in Incidents :
                         esc[i].status = "acknowledged" => Len(log'[i]) = Len(log[i])
<1>1. RunnerInv /\ [OnCallNext]_onCallVars => [Silent]_onCallVars
  <2> SUFFICES ASSUME RunnerInv, OnCallNext, NEW i \in Incidents,
                      esc[i].status = "acknowledged"
               PROVE  Len(log'[i]) = Len(log[i])
    OBVIOUS
  <2>1. ~IsActive(esc[i]) /\ DOMAIN log = Incidents
    BY DEF IsActive, RunnerInv
  <2>2. CASE Configure \/ ClockTick \/ Shutdown
    BY <2>2 DEF Configure, ClockTick, Shutdown
  <2>3. ASSUME NEW j \in Incidents, StartEscalation(j) \/ Wake(j) \/ Acknowledge(j)
        PROVE  Len(log'[i]) = Len(log[i])
    BY <2>3 DEF StartEscalation, Wake, Acknowledge
  <2>4. ASSUME NEW j \in Incidents, StartPoll(j) \/ LoopPoll(j)
        PROVE  Len(log'[i]) = Len(log[i])
    <3>1. CASE log' = log
      BY <3>1
    <3>2. CASE log' # log
      <4>1. NextDueStep(esc[j], esc[j].started) \/ NextDueStep(esc[j], clock)
        BY <2>4, <3>2 DEF StartPoll, LoopPoll
      <4>2. j # i
        BY <2>1, <4>1 DEF NextDueStep
      <4>3. \E entry : log' = [log EXCEPT ![j] = Append(@, entry)]
        BY <2>4, <3>2 DEF StartPoll, LoopPoll, BeginStep
      <4> QED
        BY <2>1, <4>2, <4>3
    <3> QED
      BY <3>1, <3>2
  <2>5. ASSUME NEW j \in Incidents, NEW delivered \in BOOLEAN, SendReturns(j, delivered)
        PROVE  Len(log'[i]) = Len(log[i])
    <3>1. CASE j = i
      BY <2>5, <3>1, SendReturnsKeeps
    <3>2. CASE j # i
      BY <2>1, <2>5, <3>2 DEF SendReturns
    <3> QED
      BY <3>1, <3>2
  <2> QED
    BY <2>2, <2>3, <2>4, <2>5 DEF OnCallNext, RunnerStep
<1>2. [][OnCallNext]_onCallVars /\ []RunnerInv => [][Silent]_onCallVars
  BY <1>1, PTL
<1> QED
  BY <1>2, RunnerInvariant, PTL DEF OnCallSpec, AckSilences
===============================================================================
