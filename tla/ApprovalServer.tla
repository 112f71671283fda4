---------------------------- MODULE ApprovalServer ----------------------------
(***************************************************************************)
(* One incident that needs a human's approval, and everyone who decides on *)
(* it: the HTTP and Slack requests of ApprovalServer and its timeout task, *)
(* serialised by a lock looked up in a table, and the approve and reject   *)
(* commands of the CLI, processes of their own that take no lock.          *)
(*                                                                         *)
(* Coordinator.reject never awaits and Coordinator.approve awaits only the *)
(* handler of the safe action, so within the server a client is interleaved*)
(* where it queues for the lock and while its handler runs.  Where a CLI   *)
(* runs beside the server each side's load of the incident and its save    *)
(* are steps of their own (phase "loaded"): the other process may write in *)
(* between and the later save wins.                                        *)
(***************************************************************************)
EXTENDS IncidentTypes

CONSTANTS Requests,      \* approve and reject requests, each sent at most once
          CliUsers,      \* invocations of the CLI's approve and reject
          Timeout,       \* the server's timeout task for the incident
          Locks, NoLock, \* asyncio.Lock objects
          StoreMayFail,  \* whether a write to a SQLite store may raise
          MaxStarts      \* bound: times the server is started

Clients == Requests \cup CliUsers \cup {Timeout}

ASSUME ApprovalAssumption ==
  /\ Requests \cap CliUsers = {} /\ Timeout \notin Requests \cup CliUsers
  /\ NoLock \notin Locks
  /\ StoreMayFail \in BOOLEAN /\ MaxStarts \in Nat

VARIABLES
  policy,      \* the proposed action: whether one is named, whether it cools down
  state,       \* context.state in the context store
  overridden,  \* the remediation verdict was resolved as overridden
  effects,     \* times the handler of the safe action was called
  endings,     \* how the calls of the handler have ended so far
  cooling,     \* the action's row in cooldown_log is younger than its cooldown
  up, starts,  \* the server runs; how often it was started
  entry,       \* _locks.get(incident_id)
  phase,       \* where each client is
  kind,        \* what each client asks for
  lock         \* the lock object a client holds or queues for

vars == <<policy, state, overridden, effects, endings, cooling, up, starts, entry,
          phase, kind, lock>>
server == <<up, starts>>
record == <<policy, state, overridden, effects, endings, cooling>>

Phase == {"idle", "sleeping", "queued", "loaded", "handler", "done", "failed"}

TypeOK ==
  /\ policy \in [hasAction : BOOLEAN, hasCooldown : BOOLEAN]
  /\ state \in {"REMEDIATING", "AWAITING_APPROVAL", "RESOLVED", "ESCALATED"}
  /\ overridden \in BOOLEAN /\ effects \in Nat /\ cooling \in BOOLEAN
  /\ endings \subseteq {"success", "failure", "exception"}
  /\ up \in BOOLEAN /\ starts \in Nat
  /\ entry \in Locks \cup {NoLock}
  /\ phase \in [Clients -> Phase]
  /\ kind \in [Clients -> {"approve", "reject"}]
  /\ lock \in [Clients -> Locks \cup {NoLock}]

Init ==
  /\ policy \in [hasAction : BOOLEAN, hasCooldown : BOOLEAN]
  /\ state = "REMEDIATING" /\ overridden = FALSE
  /\ effects = 0 /\ endings = {}
  /\ cooling \in BOOLEAN /\ (cooling => policy.hasCooldown)
  /\ up = FALSE /\ starts = 0 /\ entry = NoLock
  /\ phase = [c \in Clients |-> "idle"]
  /\ kind = [c \in Clients |-> "reject"]
  /\ lock = [c \in Clients |-> NoLock]

----------------------------------------------------------------------------
(* The world around the decision *)

\* The pipeline, in another process, pauses the incident.
AwaitApproval ==
  /\ state = "REMEDIATING" /\ state' = "AWAITING_APPROVAL"
  /\ UNCHANGED <<policy, overridden, effects, endings, cooling, server, entry, phase,
                 kind, lock>>

CooldownElapses ==
  /\ cooling /\ cooling' = FALSE
  /\ UNCHANGED <<policy, state, overridden, effects, endings, server, entry, phase,
                 kind, lock>>

\* What reject() writes: the verdict's outcome, whose failure is only logged, then
\* the incident, whose failure raises.
RejectSaved ==
  /\ state' = "ESCALATED"
  /\ overridden' \in (IF StoreMayFail THEN {TRUE, overridden} ELSE {TRUE})
RejectRaises ==
  /\ StoreMayFail /\ state' = state
  /\ overridden' \in {TRUE, overridden}

\* The server starts and recovers a pending approval: one that expired while the
\* server was down is rejected (by the timeout client, where the CLI may write
\* between its load and its save), any other gets a timeout task for the time left.
StartServer ==
  /\ ~up /\ starts < MaxStarts
  /\ up' = TRUE /\ starts' = starts + 1
  /\ IF state = "AWAITING_APPROVAL"
     THEN \/ /\ CliUsers = {}
             /\ RejectSaved \/ RejectRaises
             /\ UNCHANGED phase
          \/ /\ \E p \in {"sleeping"} \cup (IF CliUsers = {} THEN {} ELSE {"loaded"}) :
                  phase' = [phase EXCEPT ![Timeout] = p]
             /\ UNCHANGED <<state, overridden>>
     ELSE UNCHANGED <<state, overridden, phase>>
  /\ UNCHANGED <<policy, effects, endings, cooling, entry, kind, lock>>

\* The server dies with its lock table, its timeout task and its open requests.
StopServer ==
  /\ up /\ up' = FALSE
  /\ entry' = NoLock
  /\ lock' = [c \in Clients |-> NoLock]
  /\ phase' = [c \in Clients |->
                 IF c \in CliUsers THEN phase[c]
                 ELSE IF c = Timeout THEN "idle"
                 ELSE IF phase[c] = "idle" THEN "idle" ELSE "done"]
  /\ UNCHANGED <<record, starts, kind>>

----------------------------------------------------------------------------
(* Reaching the coordinator *)

\* A coordinator call of the server between its load and its save holds the event
\* loop: nothing else of the server runs.
LoopFree(c) == c \in CliUsers \/ \A d \in Clients \ CliUsers : phase[d] # "loaded"

\* _get_lock: the table's lock, or a new one entered in the table.
Queue(c) ==
  /\ up /\ LoopFree(c)
  /\ \/ entry # NoLock /\ entry' = entry
     \/ entry = NoLock /\ entry' \in Locks \ {lock[d] : d \in Clients}
  /\ lock' = [lock EXCEPT ![c] = entry']
  /\ phase' = [phase EXCEPT ![c] = "queued"]

Request(r) ==
  /\ phase[r] = "idle"
  /\ \E k \in {"approve", "reject"} : kind' = [kind EXCEPT ![r] = k]
  /\ Queue(r)
  /\ UNCHANGED <<record, server>>

\* The CLI goes straight to the coordinator.
Invoke(u) ==
  /\ phase[u] = "idle"
  /\ \E k \in {"approve", "reject"} : kind' = [kind EXCEPT ![u] = k]
  /\ phase' = [phase EXCEPT ![u] = "queued"]
  /\ UNCHANGED <<record, server, entry, lock>>

TimeoutFires ==
  /\ phase[Timeout] = "sleeping"
  /\ Queue(Timeout)
  /\ UNCHANGED <<record, server, kind>>

MutIgnoresLock(l) == TRUE

\* A lock is kept across an await only by an approval whose handler runs.
Free(l) == \A c \in Clients : lock[c] = l => phase[c] # "handler"

MutWantsCurrentLock(c) ==
  /\ phase[c] = "queued" /\ LoopFree(c)
  /\ c \in CliUsers \/ (up /\ Free(lock[c]) /\ lock[c] = entry)

\* The client's turn: what follows up to the next await is one step of its process.
Turn(c) ==
  /\ phase[c] = "queued" /\ LoopFree(c)
  /\ c \in CliUsers \/ (up /\ Free(lock[c]))

MutAlwaysCancels(c, decided) ==
  LET cancels == c \in Requests
  IN  /\ phase' = [d \in Clients |->
                     IF d = c \/ (cancels /\ d = Timeout /\ phase[d] \in {"sleeping", "queued"})
                     THEN "done" ELSE phase[d]]
      /\ lock' = [d \in Clients |->
                    IF d = c \/ (cancels /\ d = Timeout) THEN NoLock ELSE lock[d]]
      /\ entry' = IF cancels THEN NoLock ELSE entry
      /\ UNCHANGED <<kind, server>>

\* The client is answered.  One of the server's requests that decided cancels the
\* timeout task first, which also drops the lock from the table.
Finish(c, decided) ==
  LET cancels == decided /\ c \in Requests
  IN  /\ phase' = [d \in Clients |->
                     IF d = c \/ (cancels /\ d = Timeout /\ phase[d] \in {"sleeping", "queued"})
                     THEN "done" ELSE phase[d]]
      /\ lock' = [d \in Clients |->
                    IF d = c \/ (cancels /\ d = Timeout) THEN NoLock ELSE lock[d]]
      /\ entry' = IF cancels THEN NoLock ELSE entry
      /\ UNCHANGED <<kind, server>>

----------------------------------------------------------------------------
(* Coordinator.approve and Coordinator.reject *)

\* The incident is not waiting for approval: ValueError, answered with 409.
Refuse(c) ==
  /\ Turn(c) /\ state # "AWAITING_APPROVAL"
  /\ Finish(c, FALSE)
  /\ UNCHANGED record

\* The incident is found waiting, and another process may write before the save.
Load(c) ==
  /\ CliUsers # {}
  /\ Turn(c) /\ state = "AWAITING_APPROVAL"
  /\ phase' = [phase EXCEPT ![c] = "loaded"]
  /\ UNCHANGED <<record, server, entry, kind, lock>>

\* The client asked for k and found the incident waiting.
Waits(c, k) ==
  /\ kind[c] = k
  /\ IF CliUsers = {} THEN Turn(c) /\ state = "AWAITING_APPROVAL" ELSE phase[c] = "loaded"

MutRejectsAny(c) ==
  /\ Turn(c) /\ kind[c] = "reject"
  /\ \/ RejectSaved /\ Finish(c, TRUE)
     \/ RejectRaises /\ c # Timeout /\ Finish(c, FALSE)
  /\ UNCHANGED <<policy, effects, endings, cooling>>

Reject(c) ==
  /\ Waits(c, "reject")
  /\ \/ RejectSaved /\ Finish(c, TRUE)
     \/ RejectRaises /\ c # Timeout /\ Finish(c, FALSE)
  /\ UNCHANGED <<policy, effects, endings, cooling>>

\* The timeout task logs that its rejection failed and ends.
TimeoutFails ==
  /\ Waits(Timeout, "reject") /\ RejectRaises
  /\ phase' = [phase EXCEPT ![Timeout] = "failed"]
  /\ lock' = [lock EXCEPT ![Timeout] = NoLock]
  /\ UNCHANGED <<policy, effects, endings, cooling, entry, kind, server>>

\* approve() calls the handler once the registry knows the action and it is not
\* cooling down.
Executable == policy.hasAction /\ ~cooling

Execute(c) ==
  /\ Waits(c, "approve") /\ Executable
  /\ effects' = effects + 1
  /\ phase' = [phase EXCEPT ![c] = "handler"]
  /\ UNCHANGED <<policy, state, overridden, endings, cooling, entry, kind, lock, server>>

\* The end of approve(): the incident is saved as s, or a store raises on the way.
\* A success that could not be recorded is recorded as a failure; when that fails
\* as well the exception leaves approve() and nothing is saved.
Conclude(c, s) ==
  \/ state' = s /\ Finish(c, TRUE)
  \/ StoreMayFail /\ state' = "ESCALATED" /\ Finish(c, TRUE)
  \/ StoreMayFail /\ state' = state /\ Finish(c, FALSE)

\* The registry refuses: no such action, or still cooling down.
ExecutionRefused(c) ==
  /\ Waits(c, "approve") /\ ~Executable
  /\ Conclude(c, "ESCALATED")
  /\ UNCHANGED <<policy, overridden, effects, endings, cooling>>

MutRetriesFailure(c) ==
  /\ phase[c] = "handler" /\ LoopFree(c)
  /\ \E r \in {"success", "failure", "exception"} :
       /\ endings' = endings \cup {r}
       /\ cooling' = (cooling \/ (r # "exception" /\ policy.hasCooldown))
       /\ IF r = "success" THEN Conclude(c, "RESOLVED") ELSE state' = state /\ Finish(c, FALSE)
  /\ UNCHANGED <<policy, overridden, effects>>

MutResolvesOnException(c) ==
  /\ phase[c] = "handler" /\ LoopFree(c)
  /\ \E r \in {"success", "failure", "exception"} :
       /\ endings' = endings \cup {r}
       /\ cooling' = (cooling \/ (r # "exception" /\ policy.hasCooldown))
       /\ Conclude(c, "RESOLVED")
  /\ UNCHANGED <<policy, overridden, effects>>

\* The handler returns, with success true or false, and its execution is recorded
\* for the cooldown, or one of the two raises.
HandlerReturns(c) ==
  /\ phase[c] = "handler" /\ LoopFree(c)
  /\ \E r \in {"success", "failure", "exception"} :
       /\ endings' = endings \cup {r}
       /\ cooling' = (cooling \/ (r # "exception" /\ policy.hasCooldown))
       /\ Conclude(c, IF r = "exception" THEN "ESCALATED" ELSE "RESOLVED")
  /\ UNCHANGED <<policy, overridden, effects>>

Serve(c) ==
  Refuse(c) \/ Load(c) \/ Reject(c) \/ Execute(c) \/ ExecutionRefused(c) \/ HandlerReturns(c)

Next ==
  \/ AwaitApproval \/ CooldownElapses \/ StartServer \/ StopServer
  \/ \E r \in Requests : Request(r)
  \/ \E u \in CliUsers : Invoke(u)
  \/ TimeoutFires \/ TimeoutFails
  \/ \E c \in Clients : Serve(c)

Spec == Init /\ [][Next]_vars

(***************************************************************************)
(* asyncio runs what is ready, a sleep ends, and a handler ends: the HTTP  *)
(* calls of the webhook dispatcher have timeouts and counted retries.      *)
(* Nobody owes a request, a start or the pause, and a CLI may be killed.   *)
(***************************************************************************)
Fairness ==
  /\ WF_vars(TimeoutFires) /\ WF_vars(TimeoutFails \/ Serve(Timeout))
  /\ \A r \in Requests : WF_vars(Serve(r))

FairSpec == Spec /\ Fairness

----------------------------------------------------------------------------
(* Properties *)

\* At most one approval of the incident runs its handler at a time in the server.
\* The lock table forgets a lock while others still queue for it, so two requests
\* may hold two locks for the same incident.
HandlerExclusive ==
  \A c, d \in Requests : phase[c] = "handler" /\ phase[d] = "handler" => c = d

\* However the requests, the timeout and the cooldown fall, the action takes effect
\* once if a human approved it and never if the remediation is recorded as overridden:
\* asked of one server with healthy stores.
ActsAsDecided == effects <= 1 /\ (overridden => effects = 0)

\* An incident is resolved only on the answer of its action's handler: a call that
\* raised or died with its process, a refused execution and a rejection resolve
\* nothing, whoever decides and whatever fails.  (Whether the answer said success is
\* FailureEscalates.)
ResolvedMeansActed == state = "RESOLVED" => endings \cap {"success", "failure"} # {}

\* approve() promises "On failure: state -> ESCALATED".
FailureEscalates == endings = {"failure"} => state # "RESOLVED"

\* A started timeout ends the wait, unless the server dies or cannot write.
TimeoutDecides ==
  phase[Timeout] = "sleeping"
    ~> state # "AWAITING_APPROVAL" \/ ~up \/ phase[Timeout] = "failed"

\* No request waits for ever behind the lock.
RequestsAnswered ==
  \A r \in Requests : phase[r] = "queued" ~> phase[r] = "done"

\* The decision follows the lifecycle: final, and no resolution without consent.
Lifecycle == INSTANCE IncidentLifecycle
               WITH state <- PublicState(state), gated <- state # "REMEDIATING",
                    consent <- effects > 0
ImplementsLifecycle == Lifecycle!Spec
==============================================================================
