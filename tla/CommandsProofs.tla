---------------------------- MODULE CommandsProofs ----------------------------
(***************************************************************************)
(* Theorems about what is asked of the workers from outside: about the     *)
(* approval server, for every set of requests and locks and any number of  *)
(* restarts and failing stores; and about functions that answer from their *)
(* arguments (the deployment gate, observe's cycles and commands, the      *)
(* blast radius, the re-arming of a threshold, the situation of correlate  *)
(* serve, the intake of an adapter, learn's walk and application), for     *)
(* sequences of any length.                                                *)
(***************************************************************************)
EXTENDS ApprovalServer, Answers, FiniteSetTheorems, SequenceTheorems, TLAPS

(***************************************************************************)
(* Type correctness.                                                       *)
(***************************************************************************)

\* Every variable keeps its type; a lock is None or a lock object of the table.
THEOREM TypeCorrect == Spec => []TypeOK
<1>1. Init => TypeOK
  <2> SUFFICES ASSUME Init
               PROVE  TypeOK
    OBVIOUS
  <2>1. cooling \in BOOLEAN
    BY Zenon DEF Init
  <2>2. /\ policy \in [hasAction : BOOLEAN, hasCooldown : BOOLEAN] /\ state = "REMEDIATING"
        /\ overridden = FALSE /\ effects = 0 /\ endings = {} /\ up = FALSE
        /\ starts = 0 /\ entry = NoLock /\ phase = [c \in Clients |-> "idle"]
        /\ kind = [c \in Clients |-> "reject"] /\ lock = [c \in Clients |-> NoLock]
    BY Zenon DEF Init
  <2> QED
    BY <2>1, <2>2 DEF TypeOK, Phase
<1>2. TypeOK /\ [Next]_vars => TypeOK'
  <2> SUFFICES ASSUME TypeOK, [Next]_vars
               PROVE  TypeOK'
    OBVIOUS
  <2> USE DEF TypeOK, Phase, record, server
  <2>1. ASSUME NEW c \in Clients, NEW decided \in BOOLEAN, Finish(c, decided)
        PROVE  /\ entry' \in Locks \cup {NoLock}
               /\ phase' \in [Clients -> Phase]
               /\ kind' \in [Clients -> {"approve", "reject"}]
               /\ lock' \in [Clients -> Locks \cup {NoLock}]
               /\ up' \in BOOLEAN /\ starts' \in Nat
    BY <2>1 DEF Finish
  <2>2. ASSUME NEW c \in Clients, Queue(c)
        PROVE  /\ entry' \in Locks \cup {NoLock}
               /\ phase' \in [Clients -> Phase]
               /\ lock' \in [Clients -> Locks \cup {NoLock}]
    BY <2>2 DEF Queue
  <2>3. RejectSaved \/ RejectRaises => /\ state' \in {state, "ESCALATED"}
                                       /\ overridden' \in BOOLEAN
    BY DEF RejectSaved, RejectRaises
  <2>4. ASSUME NEW c \in Clients, NEW s \in {"RESOLVED", "ESCALATED"}, Conclude(c, s)
        PROVE  state' \in {state, "RESOLVED", "ESCALATED"}
               /\ \E decided \in BOOLEAN : Finish(c, decided)
    BY <2>4 DEF Conclude
  <2>5. Timeout \in Clients /\ Requests \subseteq Clients /\ CliUsers \subseteq Clients
    BY DEF Clients
  <2>6. CASE AwaitApproval \/ CooldownElapses
    BY <2>6 DEF AwaitApproval, CooldownElapses
  <2>7. CASE StartServer
    BY <2>3, <2>5, <2>7 DEF StartServer
  <2>8. CASE StopServer
    BY <2>8 DEF StopServer
  <2>9. ASSUME NEW r \in Requests, Request(r)
        PROVE  TypeOK'
    BY <2>2, <2>5, <2>9 DEF Request
  <2>10. ASSUME NEW u \in CliUsers, Invoke(u)
         PROVE  TypeOK'
    BY <2>5, <2>10 DEF Invoke
  <2>11. CASE TimeoutFires
    BY <2>2, <2>5, <2>11 DEF TimeoutFires
  <2>12. CASE TimeoutFails
    BY <2>3, <2>5, <2>12 DEF TimeoutFails
  <2>13. ASSUME NEW c \in Clients, Refuse(c)
         PROVE  TypeOK'
    BY <2>1, <2>13 DEF Refuse
  <2>19. ASSUME NEW c \in Clients, Load(c)
         PROVE  TypeOK'
    BY <2>19 DEF Load
  <2>14. ASSUME NEW c \in Clients, Reject(c)
         PROVE  TypeOK'
    BY <2>1, <2>3, <2>14 DEF Reject
  <2>15. ASSUME NEW c \in Clients, Execute(c)
         PROVE  TypeOK'
    BY <2>15 DEF Execute
  <2>16. ASSUME NEW c \in Clients, ExecutionRefused(c)
         PROVE  TypeOK'
    BY <2>1, <2>4, <2>16 DEF ExecutionRefused
  <2>17. ASSUME NEW c \in Clients, HandlerReturns(c)
         PROVE  TypeOK'
    <3>1. PICK r \in {"success", "failure", "exception"} :
            /\ endings' = endings \cup {r}
            /\ cooling' = (cooling \/ (r # "exception" /\ policy.hasCooldown))
            /\ Conclude(c, IF r = "exception" THEN "ESCALATED" ELSE "RESOLVED")
      BY <2>17 DEF HandlerReturns
    <3>2. state' \in {state, "RESOLVED", "ESCALATED"}
          /\ \E decided \in BOOLEAN : Finish(c, decided)
      BY <3>1, <2>4
    <3> QED
      BY <2>1, <2>17, <3>1, <3>2 DEF HandlerReturns
  <2>18. CASE UNCHANGED vars
    BY <2>18 DEF vars
  <2> QED
    BY <2>6, <2>7, <2>8, <2>9, <2>10, <2>11, <2>12, <2>13, <2>14, <2>15, <2>16, <2>17,
       <2>18, <2>19 DEF Next, Serve
<1> QED
  BY <1>1, <1>2, PTL DEF Spec

(***************************************************************************)
(* One handler at a time.                                                  *)
(***************************************************************************)

Undecided == state \in {"REMEDIATING", "AWAITING_APPROVAL"}

\* While the incident is undecided the table has not forgotten any lock in use, so
\* every client in the server queues for the same one.  A handler runs only then.
LockInv ==
  /\ kind[Timeout] = "reject"
  /\ Undecided => \A c \in Clients : lock[c] \in {NoLock, entry}
  /\ \A c \in Clients : phase[c] \in {"queued", "handler"} => up /\ lock[c] # NoLock
  /\ \A c \in Clients : phase[c] = "handler" =>
       kind[c] = "approve" /\ state = "AWAITING_APPROVAL" /\ effects > 0
  /\ \A c, d \in Clients : phase[c] = "handler" /\ phase[d] = "handler" => c = d

LEMMA LockInvInit == Init => LockInv
  BY DEF Init, LockInv, Clients

\* A decided request drops the lock, an undecided one leaves the table alone, and
\* nobody else is in the handler when a client leaves.
LEMMA FinishKeepsLocks ==
  ASSUME TypeOK, LockInv, NEW c \in Clients, NEW decided \in BOOLEAN,
         Finish(c, decided), effects' = effects,
         \A d \in Clients \ {c} : phase[d] # "handler",
         \/ state' = state
         \/ decided /\ state' \notin {"REMEDIATING", "AWAITING_APPROVAL"},
         decided => state' \notin {"REMEDIATING", "AWAITING_APPROVAL"}
  PROVE  LockInv'
<1> USE DEF TypeOK, LockInv
<1>1. \A d \in Clients : /\ phase'[d] \in {phase[d], "done"}
                         /\ lock'[d] \in {lock[d], NoLock}
                         /\ phase'[d] \in {"queued", "handler"} => lock'[d] = lock[d]
  BY DEF Finish
<1>2. phase'[c] = "done" /\ kind' = kind
  BY DEF Finish
<1>3. \A d \in Clients : phase'[d] # "handler"
  BY <1>1, <1>2
<1>4. Undecided' => entry' = entry /\ Undecided
  BY DEF Finish, Undecided
<1>5. Undecided' => \A d \in Clients : lock'[d] \in {NoLock, entry'}
  BY <1>1, <1>4
<1>6. \A d \in Clients : phase'[d] \in {"queued", "handler"} => up' /\ lock'[d] # NoLock
  BY <1>1 DEF Finish, server
<1> QED
  BY <1>2, <1>3, <1>5, <1>6

LEMMA LockInvStep ==
  ASSUME CliUsers = {}, TypeOK, LockInv, [Next]_vars
  PROVE  LockInv'
<1> USE ApprovalAssumption DEF TypeOK, LockInv
<1>1. Timeout \in Clients /\ Requests \subseteq Clients /\ \A c \in Clients : c \notin CliUsers
  BY DEF Clients
<1>2. ASSUME NEW c \in Clients, Turn(c)
      PROVE  Undecided => \A d \in Clients : phase[d] # "handler"
  BY <1>1, <1>2 DEF Turn, Free, Undecided
<1>3. ASSUME NEW c \in Clients, c = Timeout \/ phase[c] = "idle", Queue(c), UNCHANGED <<record, server>>,
             kind' = kind \/ (c # Timeout /\ \E k \in {"approve", "reject"} :
                                kind' = [kind EXCEPT ![c] = k]),
             phase[c] # "handler"
      PROVE  LockInv'
  <2>1. /\ phase' = [phase EXCEPT ![c] = "queued"] /\ lock' = [lock EXCEPT ![c] = entry']
        /\ entry' \in Locks /\ state' = state /\ effects' = effects
        /\ up /\ up' = up
    BY <1>3 DEF Queue, record, server
  <2>2. Undecided' => \A d \in Clients : lock'[d] \in {NoLock, entry'}
    BY <1>3, <2>1 DEF Queue, Undecided
  <2>3. \A d \in Clients : phase'[d] \in {"queued", "handler"} => up' /\ lock'[d] # NoLock
    BY <1>3, <2>1 DEF Queue
  <2>4. \A d \in Clients : phase'[d] = "handler" => phase[d] = "handler" /\ kind'[d] = kind[d]
    BY <1>3, <2>1
  <2>5. kind'[Timeout] = "reject"
    BY <1>1, <1>3
  <2> QED
    BY <2>1, <2>2, <2>3, <2>4, <2>5
<1>4. CASE AwaitApproval
  BY <1>4 DEF AwaitApproval, Undecided, server
<1>5. CASE CooldownElapses
  BY <1>5 DEF CooldownElapses, Undecided, server
<1>6. CASE StartServer
  <2>1. /\ kind' = kind /\ lock' = lock /\ entry' = entry /\ effects' = effects
        /\ state' = state \/ (state' = "ESCALATED" /\ phase' = phase)
        /\ phase' = phase \/ phase' = [phase EXCEPT ![Timeout] = "sleeping"]
        /\ ~up /\ up'
    BY <1>6 DEF StartServer, RejectSaved, RejectRaises
  <2> QED
    BY <2>1, <1>1 DEF Undecided
<1>7. CASE StopServer
  <2>1. \A c \in Clients : phase'[c] \notin {"queued", "handler"} /\ lock'[c] = NoLock
    BY <1>7, <1>1 DEF StopServer
  <2> QED
    BY <1>7, <2>1 DEF StopServer, record
<1>8. ASSUME NEW r \in Requests, Request(r)
      PROVE  LockInv'
  BY <1>1, <1>3, <1>8 DEF Request
<1>9. CASE TimeoutFires
  BY <1>1, <1>3, <1>9 DEF TimeoutFires
<1>10. CASE TimeoutFails
  <2>1. /\ state' = state /\ entry' = entry /\ kind' = kind /\ effects' = effects
        /\ phase' = [phase EXCEPT ![Timeout] = "failed"]
        /\ lock' = [lock EXCEPT ![Timeout] = NoLock] /\ up' = up
    BY <1>10 DEF TimeoutFails, RejectRaises, server
  <2> QED
    BY <1>1, <2>1 DEF Undecided
<1>11. ASSUME NEW c \in Clients, Refuse(c)
       PROVE  LockInv'
  <2>1. Turn(c) /\ Finish(c, FALSE) /\ state' = state /\ effects' = effects
    BY <1>11 DEF Refuse, record
  <2>2. \A d \in Clients : phase[d] # "handler"
    BY <1>11 DEF Refuse
  <2> QED
    BY <2>1, <2>2, FinishKeepsLocks
<1>12. ASSUME NEW c \in Clients, Reject(c)
       PROVE  LockInv'
  <2>1. \A d \in Clients : phase[d] # "handler"
    BY <1>2, <1>12 DEF Reject, Waits, Undecided
  <2>2. PICK decided \in BOOLEAN :
          /\ Finish(c, decided) /\ effects' = effects
          /\ IF decided THEN state' = "ESCALATED" ELSE state' = state
    BY <1>12 DEF Reject, RejectSaved, RejectRaises
  <2> QED
    BY <2>1, <2>2, FinishKeepsLocks
<1>13. ASSUME NEW c \in Clients, Execute(c)
       PROVE  LockInv'
  <2>1. \A d \in Clients : phase[d] # "handler"
    BY <1>2, <1>13 DEF Execute, Waits, Undecided
  <2>2. /\ phase' = [phase EXCEPT ![c] = "handler"] /\ effects' = effects + 1
        /\ state = "AWAITING_APPROVAL" /\ kind[c] = "approve" /\ phase[c] = "queued"
        /\ UNCHANGED <<state, entry, kind, lock, up>>
    BY <1>13 DEF Execute, Waits, Turn, server
  <2>3. effects' > 0
    BY <2>2
  <2> QED
    BY <2>1, <2>2, <2>3 DEF Undecided
<1>14. ASSUME NEW c \in Clients, NEW s \in {"RESOLVED", "ESCALATED"}, Conclude(c, s),
              effects' = effects, \A d \in Clients \ {c} : phase[d] # "handler"
       PROVE  LockInv'
  <2>1. PICK decided \in BOOLEAN :
          /\ Finish(c, decided)
          /\ IF decided THEN state' \in {"RESOLVED", "ESCALATED"} ELSE state' = state
    BY <1>14 DEF Conclude
  <2> QED
    BY <1>14, <2>1, FinishKeepsLocks
<1>15. ASSUME NEW c \in Clients, ExecutionRefused(c)
       PROVE  LockInv'
  <2>1. \A d \in Clients : phase[d] # "handler"
    BY <1>2, <1>15 DEF ExecutionRefused, Waits, Undecided
  <2> QED
    BY <1>14, <1>15, <2>1 DEF ExecutionRefused
<1>16. ASSUME NEW c \in Clients, HandlerReturns(c)
       PROVE  LockInv'
  <2>1. \A d \in Clients \ {c} : phase[d] # "handler"
    BY <1>16 DEF HandlerReturns
  <2>2. effects' = effects /\ \E s \in {"RESOLVED", "ESCALATED"} : Conclude(c, s)
    BY <1>16 DEF HandlerReturns
  <2> QED
    BY <1>14, <2>1, <2>2
<1>17. CASE UNCHANGED vars
  BY <1>17 DEF vars, Undecided
<1> QED
  BY <1>4, <1>5, <1>6, <1>7, <1>8, <1>9, <1>10, <1>11, <1>12, <1>13, <1>15, <1>16, <1>17
     DEF Next, Serve, Load

LEMMA LockInvariant ==
  ASSUME CliUsers = {}
  PROVE  Spec => []LockInv
<1>1. TypeOK /\ LockInv /\ [Next]_vars => LockInv'
  BY LockInvStep
<1> QED
  BY <1>1, LockInvInit, TypeCorrect, PTL DEF Spec

\* The handler of the incident's action never runs for two requests at once, although
\* the lock table forgets locks that requests still queue for.
THEOREM OneHandler ==
  ASSUME CliUsers = {}
  PROVE  Spec => []HandlerExclusive
<1>1. LockInv => HandlerExclusive
  BY DEF LockInv, HandlerExclusive, Clients
<1> QED
  BY <1>1, LockInvariant, PTL

(***************************************************************************)
(* The server implements the lifecycle.                                    *)
(***************************************************************************)

\* What the requests, the timeout and the recovery decide is final, and no incident
\* is resolved whose action no human released.
THEOREM ServerImplementsLifecycle ==
  ASSUME CliUsers = {}
  PROVE  Spec => ImplementsLifecycle
<1>1. Init => Lifecycle!Init
  BY DEF Init, Lifecycle!Init, PublicState, TERMINAL_STATES
<1>2. TypeOK /\ LockInv /\ [Next]_vars => [Lifecycle!Next]_(Lifecycle!vars)
  <2> SUFFICES ASSUME TypeOK, LockInv, [Next]_vars
               PROVE  [Lifecycle!Next]_(Lifecycle!vars)
    OBVIOUS
  <2> USE DEF TypeOK
  <2> DEFINE Decides == /\ state = "AWAITING_APPROVAL" /\ effects' = effects
                        /\ \/ state' = "ESCALATED"
                           \/ state' = "RESOLVED" /\ effects > 0
  <2>1. CASE state' = state /\ effects' = effects
    BY <2>1 DEF Lifecycle!vars
  <2>2. CASE AwaitApproval
    BY <2>2 DEF AwaitApproval, Lifecycle!Next, Lifecycle!Pause, PublicState, TERMINAL_STATES
  <2>3. CASE Decides
    BY <2>3 DEF Lifecycle!Next, Lifecycle!Escalate, Lifecycle!ResolveApproved, PublicState,
       TERMINAL_STATES
  <2>4. CASE \E c \in Clients : Execute(c)
    <3>1. effects' = effects + 1 /\ state' = state /\ state = "AWAITING_APPROVAL"
      BY <2>4 DEF Execute, Waits
    <3>2. effects' > 0
      BY <3>1
    <3> QED
      BY <3>1, <3>2 DEF Lifecycle!Next, Lifecycle!Consent, PublicState, TERMINAL_STATES
  <2>5. ASSUME NEW c \in Clients, Refuse(c) \/ Reject(c)
        PROVE  (state' = state /\ effects' = effects) \/ Decides
    BY <2>5 DEF Refuse, Reject, Waits, RejectSaved, RejectRaises, record
  <2>6. ASSUME NEW c \in Clients, ExecutionRefused(c)
        PROVE  (state' = state /\ effects' = effects) \/ Decides
    BY <2>6 DEF ExecutionRefused, Waits, Conclude
  <2>7. ASSUME NEW c \in Clients, HandlerReturns(c)
        PROVE  (state' = state /\ effects' = effects) \/ Decides
    <3>1. state = "AWAITING_APPROVAL" /\ effects > 0
      BY <2>7 DEF HandlerReturns, LockInv
    <3>2. effects' = effects /\ \E s \in {"RESOLVED", "ESCALATED"} : Conclude(c, s)
      BY <2>7 DEF HandlerReturns
    <3> QED
      BY <3>1, <3>2 DEF Conclude
  <2>8. CASE StartServer
    <3>1. (state' = state /\ effects' = effects) \/ Decides
      BY <2>8 DEF StartServer, RejectSaved, RejectRaises
    <3> QED
      BY <2>1, <2>3, <3>1
  <2>9. \/ state' = state /\ effects' = effects
        \/ AwaitApproval \/ StartServer
        \/ \E c \in Clients : Serve(c)
    BY DEF Next, CooldownElapses, StopServer, Request, Invoke, TimeoutFires, TimeoutFails,
       RejectRaises, record, vars
  <2> QED
    BY <2>1, <2>2, <2>3, <2>4, <2>5, <2>6, <2>7, <2>8, <2>9 DEF Serve, Load
<1> QED
  BY <1>1, <1>2, TypeCorrect, LockInvariant, PTL DEF Spec, ImplementsLifecycle, Lifecycle!Spec

(***************************************************************************)
(* Nothing is resolved without an answer of its action's handler.          *)
(***************************************************************************)

LEMMA ActedStep ==
  ASSUME TypeOK, ResolvedMeansActed, [Next]_vars
  PROVE  ResolvedMeansActed'
<1> USE DEF TypeOK, record, server
<1>1. CASE endings \subseteq endings' /\ (state' = "RESOLVED" => state = "RESOLVED")
  BY <1>1 DEF ResolvedMeansActed
<1>2. RejectSaved \/ RejectRaises => (state' = "RESOLVED" => state = "RESOLVED")
  BY DEF RejectSaved, RejectRaises
<1>3. CASE \/ AwaitApproval \/ CooldownElapses \/ StopServer \/ UNCHANGED vars
           \/ (\E r \in Requests : Request(r)) \/ (\E u \in CliUsers : Invoke(u)) \/ TimeoutFires
  BY <1>1, <1>3 DEF AwaitApproval, CooldownElapses, StopServer, vars, Request, Invoke, TimeoutFires
<1>4. CASE StartServer \/ TimeoutFails
  BY <1>1, <1>2, <1>4 DEF StartServer, TimeoutFails
<1>5. ASSUME NEW c \in Clients, Refuse(c) \/ Load(c) \/ Reject(c) \/ Execute(c)
      PROVE  ResolvedMeansActed'
  BY <1>1, <1>2, <1>5 DEF Refuse, Load, Reject, Execute
<1>6. ASSUME NEW c \in Clients, ExecutionRefused(c)
      PROVE  ResolvedMeansActed'
  BY <1>1, <1>6 DEF ExecutionRefused, Conclude
<1>7. ASSUME NEW c \in Clients, HandlerReturns(c)
      PROVE  ResolvedMeansActed'
  <2>1. PICK r \in {"success", "failure", "exception"} :
          /\ endings' = endings \cup {r}
          /\ Conclude(c, IF r = "exception" THEN "ESCALATED" ELSE "RESOLVED")
    BY <1>7 DEF HandlerReturns
  <2>2. CASE r = "exception"
    BY <1>1, <2>1, <2>2 DEF Conclude
  <2>3. CASE r # "exception"
    BY <2>1, <2>3 DEF ResolvedMeansActed
  <2> QED
    BY <2>2, <2>3
<1> QED
  BY <1>3, <1>4, <1>5, <1>6, <1>7 DEF Next, Serve

\* An incident is resolved only on an answer of its action's handler, whoever decides
\* beside the server, whatever fails and however often the server dies inside the
\* handler or between a load and its save.
THEOREM ResolvedActed == Spec => []ResolvedMeansActed
<1>1. Init => ResolvedMeansActed
  BY DEF Init, ResolvedMeansActed
<1>2. TypeOK /\ ResolvedMeansActed /\ [Next]_vars => ResolvedMeansActed'
  BY ActedStep
<1> QED
  BY <1>1, <1>2, TypeCorrect, PTL DEF Spec

(***************************************************************************)
(* The action takes effect once, and never against a rejection.            *)
(***************************************************************************)

\* The count is at most one, and while the incident is undecided it is one only for
\* the handler that runs, or for good in a server that died in it.
OnceInv ==
  /\ effects <= 1 /\ starts <= MaxStarts
  /\ starts = 0 => effects = 0 /\ ~up
  /\ overridden => effects = 0 /\ ~Undecided
  /\ Undecided /\ effects > 0 => ~up \/ \E c \in Clients : phase[c] = "handler"

LEMMA OnceStep ==
  ASSUME CliUsers = {}, ~StoreMayFail, MaxStarts <= 1, TypeOK, LockInv, OnceInv, [Next]_vars
  PROVE  OnceInv'
<1> USE ApprovalAssumption DEF TypeOK, record, server
<1>1. Timeout \in Clients /\ Requests \subseteq Clients /\ \A c \in Clients : c \notin CliUsers
  BY DEF Clients
<1>2. ASSUME NEW c \in Clients, Turn(c), Undecided
      PROVE  (\A d \in Clients : phase[d] # "handler") /\ up /\ effects = 0
  <2>1. up /\ \A d \in Clients : phase[d] # "handler"
    BY <1>1, <1>2 DEF Turn, Free, LockInv
  <2> QED
    BY <1>2, <2>1 DEF OnceInv
<1>3. CASE /\ UNCHANGED <<effects, overridden, starts, up>>
           /\ Undecided' => Undecided /\ \A d \in Clients : phase[d] = "handler" => phase'[d] = "handler"
  BY <1>3 DEF OnceInv
<1>4. CASE AwaitApproval \/ CooldownElapses \/ UNCHANGED vars
  BY <1>3, <1>4 DEF AwaitApproval, CooldownElapses, vars, Undecided
<1>5. CASE StartServer
  <2>1. effects = 0 /\ effects' = 0 /\ starts' = starts + 1 /\ starts' <= MaxStarts
    BY <1>5 DEF StartServer, OnceInv
  <2>2. \/ overridden' = overridden /\ state' = state
        \/ ~Undecided'
    BY <1>5 DEF StartServer, RejectSaved, RejectRaises, Undecided
  <2> QED
    BY <2>1, <2>2 DEF OnceInv, Undecided
<1>6. CASE StopServer
  BY <1>6 DEF StopServer, OnceInv, Undecided
<1>7. CASE (\E r \in Requests : Request(r)) \/ TimeoutFires
  BY <1>1, <1>3, <1>7 DEF Request, TimeoutFires, Queue, Undecided
<1>8. CASE TimeoutFails
  BY <1>8 DEF TimeoutFails, RejectRaises
<1>9. ASSUME NEW c \in Clients, Refuse(c)
      PROVE  OnceInv'
  <2>1. state' = state /\ ~(state = "AWAITING_APPROVAL") /\ UNCHANGED <<effects, overridden, starts, up>>
    BY <1>9 DEF Refuse, Finish
  <2>2. \A d \in Clients : phase[d] # "handler"
    BY <2>1 DEF LockInv
  <2> QED
    BY <1>3, <2>1, <2>2 DEF Undecided
<1>10. ASSUME NEW c \in Clients, Reject(c)
       PROVE  OnceInv'
  <2>1. Turn(c) /\ Undecided
    BY <1>10 DEF Reject, Waits, Undecided
  <2>2. state' = "ESCALATED" /\ UNCHANGED <<effects, starts, up>>
    BY <1>10 DEF Reject, RejectSaved, RejectRaises, Finish
  <2> QED
    BY <1>2, <2>1, <2>2 DEF OnceInv, Undecided
<1>11. ASSUME NEW c \in Clients, Execute(c)
       PROVE  OnceInv'
  <2>1. Turn(c) /\ Undecided
    BY <1>11 DEF Execute, Waits, Undecided
  <2>2. /\ effects' = effects + 1 /\ phase'[c] = "handler"
        /\ UNCHANGED <<state, overridden, starts, up>>
    BY <1>11 DEF Execute
  <2> QED
    BY <1>2, <2>1, <2>2 DEF OnceInv, Undecided
<1>12. ASSUME NEW c \in Clients, ExecutionRefused(c) \/ HandlerReturns(c)
       PROVE  OnceInv'
  <2>1. ~Undecided' /\ UNCHANGED <<effects, overridden, starts, up>>
    BY <1>12 DEF ExecutionRefused, HandlerReturns, Conclude, Finish, Undecided
  <2> QED
    BY <1>3, <2>1
<1> QED
  BY <1>4, <1>5, <1>6, <1>7, <1>8, <1>9, <1>10, <1>11, <1>12 DEF Next, Serve, Load

\* With healthy stores and one life of the server, any number of requests and the
\* timeout make the action take effect at most once, and never for an incident whose
\* remediation is recorded as overridden.
THEOREM ActedOnceAsDecided ==
  ASSUME CliUsers = {}, ~StoreMayFail, MaxStarts <= 1
  PROVE  Spec => []ActsAsDecided
<1>1. Init => OnceInv
  BY ApprovalAssumption DEF Init, OnceInv, Undecided
<1>2. TypeOK /\ LockInv /\ OnceInv /\ [Next]_vars => OnceInv'
  BY OnceStep
<1>3. OnceInv => ActsAsDecided
  BY DEF OnceInv, ActsAsDecided
<1> QED
  BY <1>1, <1>2, <1>3, TypeCorrect, LockInvariant, PTL DEF Spec

-----------------------------------------------------------------------------
(***************************************************************************)
(* Induction over the naturals for a set of numbers, and the sums that it  *)
(* gives: the functions of the modules that answer from their arguments    *)
(* are recursive over a sequence's positions.                              *)
(***************************************************************************)

\* OpToRel written out.
LEMMA LessThanWellFounded == IsWellFoundedOn({ss \in Nat \X Nat : ss[1] < ss[2]}, Nat)
  BY NatLessThanWellFounded, Zenon DEF OpToRel

LEMMA Induction ==
    ASSUME NEW S \in SUBSET Nat, 0 \in S, \A m \in S : m + 1 \in S
    PROVE  S = Nat
<1> DEFINE T == Nat \ S
           R == {ss \in Nat \X Nat : ss[1] < ss[2]}
<1>1. SUFFICES ASSUME T # {} PROVE FALSE
  OBVIOUS
<1>2. PICK x \in T : \A y \in T : ~ (<<y, x>> \in R)
  <2>1. T \subseteq Nat
    OBVIOUS
  <2> HIDE DEF T
  <2> QED
    BY <1>1, <2>1, LessThanWellFounded, WFMin
<1>3. x # 0 /\ x - 1 \in Nat /\ x - 1 < x
  OBVIOUS
<1>4. x - 1 \in S
  BY <1>2, <1>3
<1>5. (x - 1) + 1 = x
  BY <1>3
<1> QED
  BY <1>4, <1>5

\* f is the function of the partial sums of w.
Sums(f, n, w) == f = [i \in 0..n |-> IF i = 0 THEN 0 ELSE f[i - 1] + w[i]]

\* A sequence of numbers has partial sums.
LEMMA SumsExist ==
    ASSUME NEW n \in Nat, NEW w \in [1..n -> Int]
    PROVE  \E g : Sums(g, n, w)
<1> DEFINE Good(m, g) == \A i \in 0..m : g[i] = IF i = 0 THEN 0 ELSE g[i - 1] + w[i]
           S == {m \in Nat : m <= n => \E g \in [0..m -> Int] : Good(m, g)}
<1>1. 0 \in S
  <2>1. [i \in 0..0 |-> 0] \in [0..0 -> Int] /\ Good(0, [i \in 0..0 |-> 0])
    OBVIOUS
  <2> QED
    BY <2>1
<1>2. ASSUME NEW m \in Nat, m + 1 <= n, \E g \in [0..m -> Int] : Good(m, g)
      PROVE  \E g \in [0..(m + 1) -> Int] : Good(m + 1, g)
  <2>1. PICK g \in [0..m -> Int] : Good(m, g)
    BY <1>2
  <2> DEFINE h == [i \in 0..(m + 1) |-> IF i = m + 1 THEN g[m] + w[m + 1] ELSE g[i]]
  <2>2. h \in [0..(m + 1) -> Int]
    <3>1. g[m] + w[m + 1] \in Int
      BY <1>2
    <3>2. \A i \in 0..(m + 1) : i # m + 1 => i \in 0..m
      OBVIOUS
    <3> HIDE DEF Good
    <3> QED
      BY <3>1, <3>2
  <2>3. \A i \in 0..m : h[i] = g[i]
    OBVIOUS
  <2>4. h[m + 1] = g[m] + w[m + 1]
    OBVIOUS
  <2> HIDE DEF h
  <2>5. Good(m + 1, h)
    <3> SUFFICES ASSUME NEW i \in 0..(m + 1)
                 PROVE  h[i] = IF i = 0 THEN 0 ELSE h[i - 1] + w[i]
      OBVIOUS
    <3>1. CASE i = m + 1
      BY <2>3, <2>4, <3>1, <1>2
    <3>2. CASE i # m + 1
      <4>1. i \in 0..m /\ (i # 0 => i - 1 \in 0..m)
        BY <3>2
      <4> QED
        BY <2>1, <2>3, <4>1
    <3> QED
      BY <3>1, <3>2
  <2> QED
    BY <2>2, <2>5
<1>3. n \in S
  <2>1. S = Nat
    <3>1. S \in SUBSET Nat
      OBVIOUS
    <3>2. \A m \in S : m + 1 \in S
      <4> HIDE DEF Good
      <4> QED
        BY <1>2
    <3> HIDE DEF S
    <3> QED
      BY <1>1, <3>1, <3>2, Induction
  <2> QED
    BY <2>1
<1>4. PICK g \in [0..n -> Int] : Good(n, g)
  BY <1>3
<1>5. Sums(g, n, w)
  BY <1>4 DEF Sums
<1> QED
  BY <1>5

\* Partial sums of numbers that are nowhere less are nowhere less.
LEMMA SumsGrow ==
    ASSUME NEW n \in Nat, NEW v \in [1..n -> Int], NEW w \in [1..n -> Int],
           \A i \in 1..n : v[i] <= w[i],
           NEW f, Sums(f, n, v), NEW g, Sums(g, n, w)
    PROVE  \A i \in 0..n : f[i] \in Int /\ g[i] \in Int /\ f[i] <= g[i]
<1> DEFINE S == {m \in Nat : m <= n => f[m] \in Int /\ g[m] \in Int /\ f[m] <= g[m]}
<1>1. f[0] = 0 /\ g[0] = 0
  <2>1. 0 \in 0..n
    OBVIOUS
  <2> QED
    BY <2>1 DEF Sums
<1>2. ASSUME NEW m \in Nat, m + 1 <= n, f[m] \in Int, g[m] \in Int, f[m] <= g[m]
      PROVE  f[m + 1] \in Int /\ g[m + 1] \in Int /\ f[m + 1] <= g[m + 1]
  <2>1. m + 1 \in 0..n /\ m + 1 # 0 /\ m + 1 \in 1..n /\ (m + 1) - 1 = m
    BY <1>2
  <2>2. f[m + 1] = f[m] + v[m + 1] /\ g[m + 1] = g[m] + w[m + 1]
    BY <2>1 DEF Sums
  <2>3. v[m + 1] \in Int /\ w[m + 1] \in Int /\ v[m + 1] <= w[m + 1]
    BY <2>1
  <2> QED
    BY <1>2, <2>2, <2>3
<1>3. S = Nat
  <2>1. 0 \in S /\ S \in SUBSET Nat
    BY <1>1
  <2>2. \A m \in S : m + 1 \in S
    BY <1>2
  <2> HIDE DEF S
  <2> QED
    BY <2>1, <2>2, Induction
<1> QED
  BY <1>3

\* A finite set that is not empty has a greatest and a least number.
LEMMA FiniteEnds ==
    ASSUME NEW S \in SUBSET Int, IsFiniteSet(S), S # {}
    PROVE  /\ Max(S) \in S /\ \A y \in S : y <= Max(S)
           /\ Min(S) \in S /\ \A y \in S : Min(S) <= y
<1> DEFINE Ends(U) == /\ \E x \in U : \A y \in U : x >= y
                      /\ \E x \in U : \A y \in U : x <= y
           Sized(m) == {U \in SUBSET Int : IsFiniteSet(U) /\ Cardinality(U) = m + 1}
           T == {m \in Nat : \A U \in Sized(m) : Ends(U)}
<1>1. 0 \in T
  <2> SUFFICES ASSUME NEW U \in SUBSET Int, IsFiniteSet(U), Cardinality(U) = 0 + 1 PROVE Ends(U)
    OBVIOUS
  <2>1. \E x : U = {x}
    <3>1. Cardinality(U) = 1
      OBVIOUS
    <3> QED
      BY <3>1, FS_Singleton
  <2>2. PICK x : U = {x}
    BY <2>1
  <2> QED
    BY <2>2
<1>2. ASSUME NEW m \in T PROVE m + 1 \in T
  <2> SUFFICES ASSUME NEW U \in SUBSET Int, IsFiniteSet(U), Cardinality(U) = (m + 1) + 1
               PROVE  Ends(U)
    OBVIOUS
  <2>1. U # {}
    BY FS_EmptySet
  <2>2. PICK x \in U : TRUE
    BY <2>1
  <2> DEFINE W == U \ {x}
  <2>3. IsFiniteSet(W) /\ Cardinality(W) = Cardinality(U) - 1
    BY <2>2, FS_RemoveElement
  <2>4. W \in SUBSET Int /\ Cardinality(W) = m + 1
    BY <2>3
  <2>5. Ends(W)
    BY <1>2, <2>3, <2>4
  <2>6. PICK hi \in W, lo \in W : \A y \in W : hi >= y /\ lo <= y
    BY <2>5
  <2>7. \A y \in U : y = x \/ y \in W
    OBVIOUS
  <2>8. x \in Int /\ hi \in Int /\ lo \in Int /\ hi \in U /\ lo \in U /\ W \subseteq Int
    BY <2>2, <2>6
  <2> HIDE DEF W
  <2>9. \E z \in U : \A y \in U : z >= y
    <3>1. CASE x >= hi
      BY <2>6, <2>7, <2>8, <3>1
    <3>2. CASE hi >= x
      BY <2>6, <2>7, <2>8, <3>2
    <3> QED
      BY <2>8, <3>1, <3>2
  <2>10. \E z \in U : \A y \in U : z <= y
    <3>1. CASE x <= lo
      BY <2>6, <2>7, <2>8, <3>1
    <3>2. CASE lo <= x
      BY <2>6, <2>7, <2>8, <3>2
    <3> QED
      BY <2>8, <3>1, <3>2
  <2> QED
    BY <2>9, <2>10
<1>3. \A m \in Nat : m \in T
  <2>1. \A m \in Nat : m \in T => m + 1 \in T
    BY <1>2
  <2> HIDE DEF T
  <2>2. \A m \in Nat : m + 1 \in Nat
    OBVIOUS
  <2> DEFINE P == {m \in Nat : m \in T}
  <2>3. P \in SUBSET Nat /\ 0 \in P /\ \A m \in P : m + 1 \in P
    BY <1>1, <2>1
  <2>4. P = Nat
    <3> HIDE DEF P
    <3> QED
      BY <2>3, Induction
  <2> QED
    BY <2>4
<1>4. Cardinality(S) \in Nat /\ Cardinality(S) # 0
  BY FS_CardinalityType, FS_EmptySet
<1>5. (Cardinality(S) - 1) \in Nat /\ (Cardinality(S) - 1) + 1 = Cardinality(S)
  BY <1>4
<1>6. S \in Sized(Cardinality(S) - 1)
  BY <1>5
<1>7. Ends(S)
  BY <1>3, <1>5, <1>6
<1> QED
  BY <1>7 DEF Max, Min

\* What both sides are multiplied with is not negative.
LEMMA ProductGrows ==
    ASSUME NEW a \in Int, NEW b \in Int, NEW c \in Nat, a <= b
    PROVE  a * c \in Int /\ b * c \in Int /\ a * c <= b * c
OBVIOUS

LEMMA SequenceDomain ==
    ASSUME NEW S, NEW q \in Seq(S)
    PROVE  DOMAIN q = 1..Len(q)
OBVIOUS

-----------------------------------------------------------------------------
(***************************************************************************)
(* The deployment gate, for every log of readings, limit and policy.       *)
(***************************************************************************)

AnyReading == [slo : Nat, pct : Nat \union {Unknown}]
AnyPolicy ==
    [warning : Nat \union {Absent}, blocking : Nat \union {Absent},
     exhausted : SUBSET ({"freeze_deploys", "require_approval"} \union STRING)]

\* What each position adds to the sum.
Adds(q) == [i \in 1..Len(q) |-> IF i \in Counted(q) THEN q[i].pct ELSE 0]

LEMMA CountedValues ==
    ASSUME NEW q \in Seq(AnyReading)
    PROVE  /\ Adds(q) \in [1..Len(q) -> Int]
           /\ Counted(q) \subseteq 1..Len(q)
           /\ \A i \in Counted(q) : q[i].pct \in Nat
           /\ IsFiniteSet(Counted(q)) /\ Cardinality(Counted(q)) \in Nat
<1>1. \A i \in 1..Len(q) : q[i] \in AnyReading
  BY ElementOfSeq
<1>2. Counted(q) \subseteq 1..Len(q) /\ \A i \in Counted(q) : q[i].pct \in Nat
  BY <1>1 DEF Counted, Newest, AnyReading
<1>3. IsFiniteSet(1..Len(q))
  BY FS_Interval
<1>4. IsFiniteSet(Counted(q)) /\ Cardinality(Counted(q)) \in Nat
  BY <1>2, <1>3, FS_Subset, FS_CardinalityType
<1> QED
  BY <1>2, <1>4 DEF Adds

LEMMA ConsumedSums ==
    ASSUME NEW q \in Seq(AnyReading)
    PROVE  Sums(Consumed(q), Len(q), Adds(q))
<1>1. Len(q) \in Nat /\ Adds(q) \in [1..Len(q) -> Int]
  BY CountedValues
<1>2. PICK g : Sums(g, Len(q), Adds(q))
  BY <1>1, SumsExist
<1>3. \A f : Sums(f, Len(q), Adds(q)) <=>
             f = [i \in 0..Len(q) |->
                     IF i = 0 THEN 0 ELSE f[i - 1] + (IF i \in Counted(q) THEN q[i].pct ELSE 0)]
  <2> SUFFICES ASSUME NEW f
               PROVE  Sums(f, Len(q), Adds(q)) <=>
                        f = [i \in 0..Len(q) |->
                               IF i = 0 THEN 0 ELSE f[i - 1] + (IF i \in Counted(q) THEN q[i].pct ELSE 0)]
    OBVIOUS
  <2>1. \A i \in 0..Len(q) :
            (IF i = 0 THEN 0 ELSE f[i - 1] + Adds(q)[i])
              = IF i = 0 THEN 0 ELSE f[i - 1] + (IF i \in Counted(q) THEN q[i].pct ELSE 0)
    BY <1>1 DEF Adds
  <2> QED
    BY <2>1 DEF Sums
<1>4. Consumed(q) = CHOOSE f : f = [i \in 0..Len(q) |->
          IF i = 0 THEN 0 ELSE f[i - 1] + (IF i \in Counted(q) THEN q[i].pct ELSE 0)]
  BY Zenon DEF Consumed
<1>5. Consumed(q) = [i \in 0..Len(q) |->
          IF i = 0 THEN 0 ELSE Consumed(q)[i - 1] + (IF i \in Counted(q) THEN q[i].pct ELSE 0)]
  BY <1>2, <1>3, <1>4, Zenon
<1> QED
  BY <1>3, <1>5, Zenon

LEMMA QueriedPrefix ==
    ASSUME NEW log \in Seq(AnyReading)
    PROVE  /\ Queried(log) \in Seq(AnyReading)
           /\ Len(Queried(log)) = IF QueryLimit < Len(log) THEN QueryLimit ELSE Len(log)
           /\ 1..Len(Queried(log)) \subseteq 1..Len(log)
           /\ \A i \in 1..Len(Queried(log)) : Queried(log)[i] = log[i]
<1> DEFINE m == IF QueryLimit < Len(log) THEN QueryLimit ELSE Len(log)
<1>1. m \in Nat /\ m <= Len(log) /\ Len(log) \in Nat
  BY GateAssumption
<1>2. Queried(log) = SubSeq(log, 1, m)
  BY DEF Queried
<1> HIDE DEF m
<1>3. /\ SubSeq(log, 1, m) \in Seq(AnyReading) /\ Len(SubSeq(log, 1, m)) = m
      /\ \A i \in 1..m : SubSeq(log, 1, m)[i] = log[i]
  <2>1. \A i \in 1..m : i \in 1..Len(log)
    BY <1>1
  <2>2. \A i \in 1..m : log[i] \in AnyReading
    BY <2>1, ElementOfSeq
  <2>3. SubSeq(log, 1, m) = [i \in 1..m |-> log[i]]
    BY <1>1
  <2> QED
    BY <1>1, <2>2, <2>3
<1> QED
  BY <1>1, <1>2, <1>3 DEF m

\* The total of a log in which one counted reading has burned further.
LEMMA BurningFurther ==
    ASSUME NEW log \in Seq(AnyReading), NEW i \in Counted(Queried(log)),
           NEW p \in Nat, p >= log[i].pct
    PROVE  LET worse == [log EXCEPT ![i].pct = p] IN
           /\ worse \in Seq(AnyReading)
           /\ Len(Queried(worse)) = Len(Queried(log))
           /\ Counted(Queried(worse)) = Counted(Queried(log))
           /\ Consumption(worse).n = Consumption(log).n
           /\ Consumption(worse).sum >= Consumption(log).sum
<1> DEFINE q == Queried(log)
           worse == [log EXCEPT ![i].pct = p]
           r == Queried(worse)
<1>1. /\ q \in Seq(AnyReading) /\ 1..Len(q) \subseteq 1..Len(log) /\ Len(q) \in Nat
      /\ \A j \in 1..Len(q) : q[j] = log[j]
  BY QueriedPrefix
<1>2. i \in 1..Len(q) /\ Counted(q) \subseteq 1..Len(q) /\ \A j \in Counted(q) : q[j].pct \in Nat
  BY <1>1, CountedValues
<1>3. /\ Len(worse) = Len(log) /\ worse \in Seq(AnyReading)
      /\ worse[i].slo = log[i].slo /\ worse[i].pct = p
      /\ \A j \in 1..Len(log) : j # i => worse[j] = log[j]
  <2>1. log[i] \in AnyReading /\ i \in 1..Len(log)
    BY <1>1, <1>2, ElementOfSeq
  <2> DEFINE new == [log[i] EXCEPT !.pct = p]
  <2>2. new \in AnyReading /\ new.slo = log[i].slo /\ new.pct = p
    BY <2>1 DEF AnyReading
  <2>3. worse = [log EXCEPT ![i] = new]
    OBVIOUS
  <2> HIDE DEF new, worse
  <2>4. Len(worse) = Len(log) /\ worse \in Seq(AnyReading)
    BY <2>1, <2>2, <2>3, ExceptSeq
  <2>5. worse[i] = new /\ \A j \in 1..Len(log) : j # i => worse[j] = log[j]
    BY <2>1, <2>3
  <2> QED
    BY <2>2, <2>4, <2>5
<1> HIDE DEF q, worse, r
<1>4. /\ r \in Seq(AnyReading) /\ Len(r) = Len(q)
      /\ \A j \in 1..Len(q) : r[j] = worse[j]
  <2>1. Len(q) = IF QueryLimit < Len(log) THEN QueryLimit ELSE Len(log)
    BY QueriedPrefix DEF q
  <2>2. /\ r \in Seq(AnyReading) /\ Len(r) = IF QueryLimit < Len(worse) THEN QueryLimit ELSE Len(worse)
        /\ \A j \in 1..Len(r) : r[j] = worse[j]
    BY <1>3, QueriedPrefix DEF r
  <2> QED
    BY <1>3, <2>1, <2>2
<1>5. \A j \in 1..Len(q) : r[j].slo = q[j].slo /\ (j # i => r[j].pct = q[j].pct)
  BY <1>1, <1>2, <1>3, <1>4
<1>6. r[i].pct = p /\ q[i].pct <= p /\ q[i].pct \in Nat /\ i \in Counted(q)
  BY <1>1, <1>2, <1>3, <1>4 DEF q
<1>7. Counted(r) = Counted(q)
  <2>1. DOMAIN r = 1..Len(q) /\ DOMAIN q = 1..Len(q)
    BY <1>1, <1>4
  <2>2. Newest(r) = Newest(q)
    <3>1. \A j \in 1..Len(q) : \A k \in 1..(j - 1) : k \in 1..Len(q)
      BY <1>1
    <3> QED
      BY <1>5, <2>1, <3>1 DEF Newest
  <2>3. p # Unknown /\ q[i].pct # Unknown
    BY <1>6 DEF Unknown
  <2> QED
    BY <1>5, <1>6, <2>1, <2>2, <2>3 DEF Counted, Newest
<1>8. \A j \in 1..Len(q) : Adds(q)[j] <= Adds(r)[j]
  <2> SUFFICES ASSUME NEW j \in 1..Len(q) PROVE Adds(q)[j] <= Adds(r)[j]
    OBVIOUS
  <2>1. /\ Adds(q)[j] = IF j \in Counted(q) THEN q[j].pct ELSE 0
        /\ Adds(r)[j] = IF j \in Counted(q) THEN r[j].pct ELSE 0
    BY <1>4, <1>7 DEF Adds
  <2> QED
    BY <1>2, <1>5, <1>6, <2>1
<1>9. /\ Consumed(q)[Len(q)] \in Int /\ Consumed(r)[Len(q)] \in Int
      /\ Consumed(q)[Len(q)] <= Consumed(r)[Len(q)]
  <2>1. Sums(Consumed(q), Len(q), Adds(q)) /\ Adds(q) \in [1..Len(q) -> Int]
    BY <1>1, ConsumedSums, CountedValues
  <2>2. Sums(Consumed(r), Len(q), Adds(r)) /\ Adds(r) \in [1..Len(q) -> Int]
    BY <1>4, ConsumedSums, CountedValues
  <2>3. \A k \in 0..Len(q) : Consumed(q)[k] \in Int /\ Consumed(r)[k] \in Int /\ Consumed(q)[k] <= Consumed(r)[k]
    BY <1>1, <1>8, <2>1, <2>2, SumsGrow
  <2> QED
    BY <1>1, <2>3
<1>10. Consumption(log) = [n |-> Cardinality(Counted(q)), sum |-> Consumed(q)[Len(q)]]
  BY DEF Consumption, q
<1>11. Consumption(worse) = [n |-> Cardinality(Counted(q)), sum |-> Consumed(r)[Len(q)]]
  BY <1>4, <1>7 DEF Consumption, r
<1>12. Consumption(worse).n = Consumption(log).n
  BY <1>10, <1>11
<1>13. Consumption(worse).sum >= Consumption(log).sum
  <2>1. Consumption(worse).sum = Consumed(r)[Len(q)] /\ Consumption(log).sum = Consumed(q)[Len(q)]
    BY <1>10, <1>11
  <2> QED
    BY <1>9, <2>1
<1> QED
  BY <1>3, <1>4, <1>7, <1>12, <1>13 DEF q, r, worse

\* Where every counted reading is spent, the sum is a hundred times their number.
LEMMA AllSpent ==
    ASSUME NEW q \in Seq(AnyReading), \A i \in Counted(q) : q[i].pct >= 100
    PROVE  /\ Consumed(q)[Len(q)] \in Int
           /\ Consumed(q)[Len(q)] >= 100 * Cardinality(Counted(q))
<1> DEFINE Among(k) == {i \in Counted(q) : i <= k}
           f == Consumed(q)
           S == {k \in Nat : k <= Len(q) => f[k] \in Int /\ f[k] >= 100 * Cardinality(Among(k))}
<1>1. /\ Len(q) \in Nat /\ Counted(q) \subseteq 1..Len(q) /\ IsFiniteSet(Counted(q))
      /\ \A i \in Counted(q) : q[i].pct \in Nat
  BY CountedValues
<1>2. \A k : IsFiniteSet(Among(k)) /\ Cardinality(Among(k)) \in Nat
  <2>1. \A k : Among(k) \subseteq Counted(q)
    OBVIOUS
  <2> HIDE DEF Among
  <2> QED
    BY <1>1, <2>1, FS_Subset, FS_CardinalityType
<1>3. \A k \in 0..Len(q) : f[k] = IF k = 0 THEN 0 ELSE f[k - 1] + Adds(q)[k]
  <2>1. Sums(f, Len(q), Adds(q))
    BY ConsumedSums
  <2> HIDE DEF f
  <2> QED
    BY <2>1 DEF Sums
<1> HIDE DEF f
<1>4. f[0] = 0 /\ Cardinality(Among(0)) = 0
  <2>1. Among(0) = {}
    BY <1>1
  <2> HIDE DEF Among
  <2>2. 0 \in 0..Len(q)
    BY <1>1
  <2> QED
    BY <1>3, <2>1, <2>2, FS_EmptySet
<1>5. ASSUME NEW k \in Nat, k + 1 <= Len(q), f[k] \in Int, f[k] >= 100 * Cardinality(Among(k))
      PROVE  f[k + 1] \in Int /\ f[k + 1] >= 100 * Cardinality(Among(k + 1))
  <2>1. f[k + 1] = f[k] + Adds(q)[k + 1]
    <3>1. k + 1 \in 0..Len(q) /\ k + 1 # 0 /\ (k + 1) - 1 = k
      BY <1>1, <1>5
    <3> QED
      BY <1>3, <3>1
  <2>2. Adds(q)[k + 1] = IF k + 1 \in Counted(q) THEN q[k + 1].pct ELSE 0
    BY <1>1, <1>5 DEF Adds
  <2>3. CASE k + 1 \in Counted(q)
    <3>1. Among(k + 1) = Among(k) \union {k + 1} /\ k + 1 \notin Among(k)
      BY <1>1, <2>3
    <3>2. Cardinality(Among(k + 1)) = Cardinality(Among(k)) + 1
      <4> HIDE DEF Among
      <4> QED
        BY <1>2, <3>1, FS_AddElement
    <3>3. q[k + 1].pct \in Nat /\ q[k + 1].pct >= 100
      BY <1>1, <2>3
    <3> HIDE DEF Among
    <3> QED
      BY <1>2, <1>5, <2>1, <2>2, <2>3, <3>2, <3>3
  <2>4. CASE k + 1 \notin Counted(q)
    <3>1. Among(k + 1) = Among(k)
      BY <1>1, <2>4
    <3> HIDE DEF Among
    <3> QED
      BY <1>5, <2>1, <2>2, <2>4, <3>1
  <2> QED
    BY <2>3, <2>4
<1>6. Len(q) \in S
  <2>1. S \in SUBSET Nat /\ 0 \in S
    BY <1>4
  <2>2. \A k \in S : k + 1 \in S
    <3> HIDE DEF Among
    <3> QED
      BY <1>1, <1>5
  <2>3. S = Nat
    <3> HIDE DEF S
    <3> QED
      BY <2>1, <2>2, Induction
  <2> QED
    BY <1>1, <2>3
<1>7. Among(Len(q)) = Counted(q)
  BY <1>1
<1> HIDE DEF Among
<1> QED
  BY <1>1, <1>6, <1>7 DEF f

\* The gate's answer, given whether the remaining budget is within its thresholds.
Ranked == {"APPROVED", "WARNING", "BLOCKED"}

LEMMA Ranks == Severity("APPROVED") = 1 /\ Severity("WARNING") = 2 /\ Severity("BLOCKED") = 3
<1>1. DOMAIN Verdicts = 1..3 /\ Verdicts[1] = "APPROVED" /\ Verdicts[2] = "WARNING" /\ Verdicts[3] = "BLOCKED"
  BY DEF Verdicts
<1>2. ASSUME NEW k \in 1..3 PROVE Severity(Verdicts[k]) = k
  <2>1. \A i \in DOMAIN Verdicts : Verdicts[i] = Verdicts[k] <=> i = k
    BY <1>1
  <2>2. k \in DOMAIN Verdicts
    BY <1>1
  <2> HIDE DEF Verdicts
  <2> QED
    BY <2>1, <2>2 DEF Severity
<1> QED
  BY <1>1, <1>2

\* Where more of the budget is gone than before, at every threshold.
LEMMA GateMonotone ==
    ASSUME NEW log, NEW worse, NEW tier, NEW pol,
           "require_approval" \notin pol.exhausted,
           RemainingWithin(log, 0) => RemainingWithin(worse, 0),
           RemainingWithin(log, Blocking(tier, pol)) => RemainingWithin(worse, Blocking(tier, pol)),
           RemainingWithin(log, Warning(tier, pol)) => RemainingWithin(worse, Warning(tier, pol))
    PROVE  Severity(EvaluateThresholds(worse, tier, pol)) >= Severity(EvaluateThresholds(log, tier, pol))
<1> DEFINE a == EvaluateThresholds(log, tier, pol)
           b == EvaluateThresholds(worse, tier, pol)
<1>1. a \in Ranked /\ b \in Ranked
  BY DEF EvaluateThresholds, Ranked
<1>2. a = "BLOCKED" => b = "BLOCKED"
  BY DEF EvaluateThresholds
<1>3. a = "WARNING" => b # "APPROVED"
  BY DEF EvaluateThresholds
<1> HIDE DEF a, b
<1>4. Severity(b) >= Severity(a)
  BY <1>1, <1>2, <1>3, Ranks DEF Ranked
<1> QED
  BY <1>4 DEF a, b

LEMMA ConsumptionSum == ASSUME NEW l \in Seq(AnyReading) PROVE Consumption(l).sum \in Int
<1>1. Queried(l) \in Seq(AnyReading)
  BY QueriedPrefix
<1>2. /\ Sums(Consumed(Queried(l)), Len(Queried(l)), Adds(Queried(l)))
      /\ Adds(Queried(l)) \in [1..Len(Queried(l)) -> Int] /\ Len(Queried(l)) \in Nat
  BY <1>1, ConsumedSums, CountedValues
<1>3. Consumed(Queried(l))[Len(Queried(l))] \in Int
  <2>1. Len(Queried(l)) \in 0..Len(Queried(l))
    BY <1>2
  <2>2. \A i1 \in 1..Len(Queried(l)) : Adds(Queried(l))[i1] <= Adds(Queried(l))[i1]
    BY <1>2
  <2> QED
    BY <1>2, <2>1, <2>2, SumsGrow
<1> QED
  BY <1>3 DEF Consumption

LEMMA Burned ==
    ASSUME NEW log \in Seq(AnyReading), NEW i \in Counted(Queried(log)),
           NEW p \in Nat, p >= log[i].pct, NEW t \in Int, RemainingWithin(log, t)
    PROVE  RemainingWithin([log EXCEPT ![i].pct = p], t)
<1> DEFINE worse == [log EXCEPT ![i].pct = p]
           n == Consumption(log).n
<1>1. /\ Consumption(worse).n = n /\ Consumption(worse).sum >= Consumption(log).sum
      /\ worse \in Seq(AnyReading)
  BY BurningFurther
<1> HIDE DEF worse
<1>2. n \in Nat /\ n # 0
  <2>1. n = Cardinality(Counted(Queried(log))) /\ Queried(log) \in Seq(AnyReading)
    BY QueriedPrefix DEF Consumption
  <2>2. IsFiniteSet(Counted(Queried(log))) /\ n \in Nat
    BY <2>1, CountedValues
  <2> QED
    BY <2>1, <2>2, FS_EmptySet
<1>3. Consumption(log).sum \in Int /\ Consumption(worse).sum \in Int
  BY <1>1, ConsumptionSum
<1>4. t >= 0 /\ 100 * n - Consumption(log).sum <= t * n
  BY <1>2 DEF RemainingWithin
<1>5. t * n \in Int
  BY <1>2
<1> DEFINE bound == t * n
<1>6. 100 * n - Consumption(worse).sum <= bound
  <2>1. bound \in Int /\ 100 * n - Consumption(log).sum <= bound
    BY <1>4, <1>5
  <2> HIDE DEF bound
  <2> QED
    BY <1>1, <1>2, <1>3, <2>1
<1>7. RemainingWithin(worse, t)
  BY <1>1, <1>2, <1>4, <1>6 DEF RemainingWithin
<1> QED
  BY <1>7 DEF worse

LEMMA ThresholdTypes ==
    ASSUME NEW tier \in Tiers, NEW pol \in AnyPolicy
    PROVE  Warning(tier, pol) \in Nat /\ Blocking(tier, pol) \in Int
BY DEF AnyPolicy, Warning, Blocking, TierWarning, TierBlocking, Absent

\* Any question the gate is asked.
GateCalls ==
    [about : {"gate"}, log : Seq(AnyReading), tier : Tiers, policy : AnyPolicy,
     core : {"up", "silent", "noManifest"}, tierGiven : {FALSE}]

\* What is within a threshold is within a higher one.
LEMMA WithinHigher ==
    ASSUME NEW log \in Seq(AnyReading), NEW t \in Int, NEW u \in Int, t <= u, RemainingWithin(log, t)
    PROVE  RemainingWithin(log, u)
<1> DEFINE n == Consumption(log).n
           left == 100 * n - Consumption(log).sum
<1>1. n \in Nat
  <2>1. n = Cardinality(Counted(Queried(log))) /\ Queried(log) \in Seq(AnyReading)
    BY QueriedPrefix DEF Consumption
  <2> QED
    BY <2>1, CountedValues, FS_CardinalityType
<1>2. Consumption(log).sum \in Int
  BY ConsumptionSum
<1>3. CASE n = 0
  BY <1>3 DEF RemainingWithin
<1>4. CASE n # 0
  <2>1. t >= 0 /\ left <= t * n
    BY <1>4 DEF RemainingWithin
  <2>2. left \in Int
    BY <1>1, <1>2
  <2> HIDE DEF left, n
  <2>3. t * n <= u * n /\ t * n \in Int /\ u * n \in Int
    BY <1>1
  <2>4. u >= 0 /\ left <= u * n
    BY <2>1, <2>2, <2>3
  <2> QED
    BY <1>4, <2>4 DEF RemainingWithin, left, n
<1> QED
  BY <1>3, <1>4

LEMMA GateStricter ==
    ASSUME NEW log \in Seq(AnyReading), NEW tier \in Tiers, NEW p \in AnyPolicy, NEW q \in AnyPolicy,
           StricterPolicy(p, q, tier)
    PROVE  Severity(EvaluateThresholds(log, tier, p)) >= Severity(EvaluateThresholds(log, tier, q))
<1> DEFINE a == EvaluateThresholds(log, tier, q)
           b == EvaluateThresholds(log, tier, p)
<1>1. a \in Ranked /\ b \in Ranked
  BY DEF EvaluateThresholds, Ranked
<1>2. /\ RemainingWithin(log, Blocking(tier, q)) => RemainingWithin(log, Blocking(tier, p))
      /\ RemainingWithin(log, Warning(tier, q)) => RemainingWithin(log, Warning(tier, p))
  <2>1. /\ Warning(tier, q) \in Int /\ Warning(tier, p) \in Int /\ Warning(tier, q) <= Warning(tier, p)
        /\ Blocking(tier, q) \in Int /\ Blocking(tier, p) \in Int /\ Blocking(tier, q) <= Blocking(tier, p)
    BY ThresholdTypes DEF StricterPolicy
  <2> QED
    BY <2>1, WithinHigher
<1>3. Blocking(tier, p) = Absent => ~RemainingWithin(log, Blocking(tier, q))
  <2>1. Blocking(tier, p) = Absent => ~RemainingWithin(log, Blocking(tier, p))
    BY DEF RemainingWithin, Absent
  <2> QED
    BY <1>2, <2>1
<1>4. a = "BLOCKED" => b = "BLOCKED"
  BY <1>2, <1>3 DEF EvaluateThresholds, StricterPolicy
<1>5. a = "WARNING" => b # "APPROVED"
  BY <1>2 DEF EvaluateThresholds, StricterPolicy
<1> HIDE DEF a, b
<1>6. Severity(b) >= Severity(a)
  BY <1>1, <1>4, <1>5, Ranks DEF Ranked
<1> QED
  BY <1>6 DEF a, b

\* check_deploy: whatever the log, the limit of the query and the policy, the gate never
\* opens because a budget burned further or the policy is stricter, and does not wave
\* through a service all of whose known budgets are spent.
THEOREM GateFollowsBudget ==
    ASSUME call \in GateCalls PROVE GateClosesWithBudget
<1> DEFINE log == call.log
           tier == call.tier
           pol == call.policy
<1>1. log \in Seq(AnyReading) /\ tier \in Tiers /\ pol \in AnyPolicy
  BY DEF GateCalls
<1>2. /\ Queried(log) \in Seq(AnyReading) /\ Len(Queried(log)) \in Nat
      /\ 1..Len(Queried(log)) \subseteq 1..Len(log)
      /\ \A i \in 1..Len(Queried(log)) : Queried(log)[i] = log[i]
  BY <1>1, QueriedPrefix
<1>3. /\ Counted(Queried(log)) \subseteq 1..Len(Queried(log))
      /\ \A i \in Counted(Queried(log)) : log[i].pct \in Nat
  BY <1>2, CountedValues
<1>4. ASSUME NEW i \in Counted(Queried(log)), NEW p \in Nat, p > log[i].pct,
             NEW worse, worse = [log EXCEPT ![i].pct = p],
             "require_approval" \notin pol.exhausted
      PROVE  Severity(CheckDeploy(worse, tier, pol)) >= Severity(CheckDeploy(log, tier, pol))
  <2>1. p >= log[i].pct
    BY <1>3, <1>4
  <2>2. Len(Queried(worse)) = Len(Queried(log)) /\ worse \in Seq(AnyReading)
    BY <1>1, <1>4, <2>1, BurningFurther
  <2>3. Queried(log) # << >> /\ Queried(worse) # << >>
    <3>1. Len(Queried(log)) # 0
      BY <1>2, <1>3, <1>4
    <3> QED
      BY <2>2, <3>1
  <2>4. \A t \in Int : RemainingWithin(log, t) => RemainingWithin(worse, t)
    BY <1>1, <1>4, <2>1, Burned
  <2> HIDE DEF log, tier, pol
  <2>5. Severity(EvaluateThresholds(worse, tier, pol)) >= Severity(EvaluateThresholds(log, tier, pol))
    <3>1. Warning(tier, pol) \in Int /\ Blocking(tier, pol) \in Int /\ 0 \in Int
      BY <1>1, ThresholdTypes
    <3> QED
      BY <1>4, <2>4, <3>1, GateMonotone
  <2> QED
    BY <2>3, <2>5 DEF CheckDeploy
<1>5. ASSUME Counted(Queried(log)) # {}, \A i \in Counted(Queried(log)) : log[i].pct >= 100
      PROVE  CheckDeploy(log, tier, pol) # "APPROVED"
  <2> DEFINE n == Consumption(log).n
             sum == Consumption(log).sum
  <2>1. sum \in Int /\ sum >= 100 * n
    <3>1. \A i \in Counted(Queried(log)) : Queried(log)[i].pct >= 100
      BY <1>2, <1>3, <1>5
    <3> QED
      BY <1>2, <3>1, AllSpent DEF Consumption
  <2>2. n \in Nat /\ n # 0
    <3>1. IsFiniteSet(Counted(Queried(log))) /\ Cardinality(Counted(Queried(log))) \in Nat
      BY <1>2, CountedValues
    <3> QED
      BY <1>5, <3>1, FS_EmptySet DEF Consumption
  <2>3. \A t \in Nat : RemainingWithin(log, t)
    <3> SUFFICES ASSUME NEW t \in Nat PROVE RemainingWithin(log, t)
      OBVIOUS
    <3>1. t * n \in Nat
      BY <2>2
    <3>2. 100 * n - sum <= t * n
      <4> DEFINE b == t * n
      <4>1. b \in Nat
        BY <3>1
      <4> HIDE DEF b, n, sum
      <4>2. 100 * n - sum <= b
        BY <2>1, <2>2, <4>1
      <4> QED
        BY <4>2 DEF b
    <3> QED
      BY <2>2, <3>2 DEF RemainingWithin
  <2>4. Queried(log) # << >>
    BY <1>2, <1>3, <1>5
  <2>5. RemainingWithin(log, Warning(tier, pol))
    BY <1>1, <2>3, ThresholdTypes
  <2> HIDE DEF log, tier, pol
  <2> QED
    BY <2>4, <2>5 DEF CheckDeploy, EvaluateThresholds
<1>6. GateCommand(call) = 0 => call.core = "up" /\ CheckDeployCommand(call) < 2
  <2>1. ASSUME GateCommand(call) = 0 PROVE call.core = "up" /\ CheckDeployCommand(call) < 2
    <3>1. call.core = "up" /\ CheckDeploy(call.log, call.tier, TierPolicy) # "BLOCKED"
      <4>1. call.core \in {"up", "silent", "noManifest"} /\ call.tierGiven \in {FALSE}
        BY DEF GateCalls
      <4>2. ~call.tierGiven
        BY <4>1, Zenon
      <4>3. 1 # 0 /\ 2 # 0
        OBVIOUS
      <4> QED
        BY <2>1, <4>1, <4>2, <4>3, Zenon DEF GateCommand
    <3>2. CheckDeploy(call.log, call.tier, TierPolicy) \in Ranked
      BY DEF CheckDeploy, EvaluateThresholds, Ranked
    <3> QED
      BY <3>1, <3>2, Ranks DEF Ranked, CheckDeployCommand
  <2> QED
    BY <2>1
<1>7. "require_approval" \notin pol.exhausted =>
          \A i \in Counted(Queried(log)) : \A l \in Worse(log, i) :
              Severity(CheckDeploy(l, tier, pol)) >= Severity(CheckDeploy(log, tier, pol))
  <2> SUFFICES ASSUME "require_approval" \notin pol.exhausted,
                      NEW i \in Counted(Queried(log)), NEW l \in Worse(log, i)
               PROVE  Severity(CheckDeploy(l, tier, pol)) >= Severity(CheckDeploy(log, tier, pol))
    OBVIOUS
  <2>1. PICK p \in {r \in {60, 100, 120} : r > log[i].pct} : l = [log EXCEPT ![i].pct = p]
    BY Zenon DEF Worse
  <2>2. p \in Nat /\ p > log[i].pct
    OBVIOUS
  <2> QED
    BY <1>4, <2>1, <2>2
<1>8. ASSUME NEW p \in GatePolicies, StricterPolicy(p, pol, tier)
      PROVE  Severity(CheckDeploy(log, tier, p)) >= Severity(CheckDeploy(log, tier, pol))
  <2>1. p \in AnyPolicy
    BY DEF GatePolicies, GatePolicy, TierPolicy, AnyPolicy, Absent
  <2>2. Severity(EvaluateThresholds(log, tier, p)) >= Severity(EvaluateThresholds(log, tier, pol))
    BY <1>1, <1>8, <2>1, GateStricter
  <2> QED
    BY <2>2, Ranks DEF CheckDeploy
<1> QED
  BY <1>5, <1>6, <1>7, <1>8 DEF GateClosesWithBudget

-----------------------------------------------------------------------------
(***************************************************************************)
(* The re-arming of a judgment threshold, for every number of evaluations. *)
(***************************************************************************)

Evaluation == [status : Statuses, at : Nat]
KeyStates == [last : {"none", "within", "breach"}, armed : BOOLEAN,
              since : Nat \union {None}, count : Nat]

\* Induction between two bounds.
LEMMA IntervalInduction ==
    ASSUME NEW lo \in Nat, NEW hi \in Nat, NEW S, lo \in S,
           \A k \in lo..hi : k \in S /\ k # hi => k + 1 \in S
    PROVE  \A k \in lo..hi : k \in S
<1> DEFINE N == {m \in Nat : lo + m <= hi => lo + m \in S}
<1>1. N \in SUBSET Nat /\ 0 \in N
  OBVIOUS
<1>2. \A m \in N : m + 1 \in N
  <2> SUFFICES ASSUME NEW m \in Nat, lo + m <= hi => lo + m \in S, lo + (m + 1) <= hi
               PROVE  lo + (m + 1) \in S
    OBVIOUS
  <2>1. lo + m \in lo..hi /\ lo + m # hi /\ lo + m \in S /\ (lo + m) + 1 = lo + (m + 1)
    OBVIOUS
  <2> QED
    BY <2>1
<1>3. N = Nat
  <2> HIDE DEF N
  <2> QED
    BY <1>1, <1>2, Induction
<1> SUFFICES ASSUME NEW k \in lo..hi PROVE k \in S
  OBVIOUS
<1>4. k - lo \in Nat /\ lo + (k - lo) = k /\ k <= hi
  OBVIOUS
<1> QED
  BY <1>3, <1>4

\* A state that a function takes from one element of w to the next has a history, g.
Iterates(g, start, step, n, w) == g[0] = start /\ \A i \in 1..n : g[i] = step[g[i - 1], w[i]]

LEMMA IterationExists ==
    ASSUME NEW X, NEW E, NEW start \in X, NEW step \in [X \X E -> X],
           NEW n \in Nat, NEW w \in [1..n -> E]
    PROVE  \E g \in [0..n -> X] : Iterates(g, start, step, n, w)
<1> DEFINE Good(m, g) == g[0] = start /\ \A i \in 1..m : g[i] = step[g[i - 1], w[i]]
           S == {m \in Nat : \E g \in [0..m -> X] : Good(m, g)}
<1>1. 0 \in S
  <2>1. [i \in 0..0 |-> start] \in [0..0 -> X] /\ Good(0, [i \in 0..0 |-> start])
    OBVIOUS
  <2> QED
    BY <2>1
<1>2. ASSUME NEW m \in 0..n, m # n, \E g \in [0..m -> X] : Good(m, g)
      PROVE  \E g \in [0..(m + 1) -> X] : Good(m + 1, g)
  <2>1. PICK g \in [0..m -> X] : Good(m, g)
    BY <1>2
  <2>4. m \in Nat /\ m \in 0..m /\ 0 \in 0..m /\ m + 1 \in 1..n
    <3> HIDE DEF Good
    <3> QED
      BY <1>2
  <2>5. g[m] \in X /\ w[m + 1] \in E
    BY <2>4
  <2>6. PICK v \in X : v = step[g[m], w[m + 1]]
    BY <2>5
  <2> DEFINE h == [i \in 0..(m + 1) |-> IF i = m + 1 THEN v ELSE g[i]]
  <2>2. h \in [0..(m + 1) -> X]
    BY <2>4
  <2>3. Good(m + 1, h)
    <3>1. h[0] = start
      <4>1. 0 \in 0..(m + 1) /\ 0 # m + 1
        BY <2>4
      <4>2. h[0] = g[0]
        BY <4>1
      <4> QED
        BY <2>1, <4>2
    <3>2. ASSUME NEW i \in 1..(m + 1) PROVE h[i] = step[h[i - 1], w[i]]
      <4>1. i - 1 \in 0..m /\ h[i - 1] = g[i - 1] /\ (i # m + 1 => i \in 1..m /\ h[i] = g[i])
        BY <2>4
      <4>2. CASE i = m + 1
        <5>1. i - 1 = m /\ h[i] = v
          BY <2>4, <4>2
        <5> QED
          BY <2>6, <4>1, <4>2, <5>1
      <4>3. CASE i # m + 1
        BY <2>1, <4>1, <4>3
      <4> QED
        BY <4>2, <4>3
    <3> QED
      BY <3>1, <3>2
  <2> HIDE DEF h, Good
  <2> QED
    BY <2>2, <2>3
<1>3. n \in S
  <2>1. \A k \in 0..n : k \in S /\ k # n => k + 1 \in S
    <3> HIDE DEF Good
    <3> QED
      BY <1>2
  <2> HIDE DEF S
  <2>2. \A k \in 0..n : k \in S
    BY <1>1, <2>1, IntervalInduction
  <2> QED
    BY <2>2
<1> QED
  BY <1>3, Zenon DEF Iterates

\* What one evaluation does to the state, by its status.
LEMMA AdvanceWithin ==
    ASSUME NEW st \in KeyStates, NEW e \in Evaluation, e.status = "within"
    PROVE  /\ Advance(st, e) \in KeyStates
           /\ Advance(st, e).last = "within"
           /\ Advance(st, e).since = IF Restarts(st, e.at) THEN e.at ELSE st.since
           /\ Advance(st, e).count = IF Restarts(st, e.at) THEN 1 ELSE st.count + 1
           /\ Advance(st, e).armed
                <=> \/ st.armed
                    \/ /\ e.at - Advance(st, e).since >= RearmSeconds
                       /\ Advance(st, e).count >= RearmIntervals
<1> DEFINE since == IF Restarts(st, e.at) THEN e.at ELSE st.since
           count == IF Restarts(st, e.at) THEN 1 ELSE st.count + 1
           armed == st.armed \/ (e.at - since >= RearmSeconds /\ count >= RearmIntervals)
<1>1. Advance(st, e) = [last |-> "within", armed |-> armed, since |-> since, count |-> count]
  BY Zenon DEF Advance, KeyState
<1>2. since \in Nat \union {None} /\ count \in Nat
  BY DEF KeyStates, Evaluation
<1>3. armed \in BOOLEAN
  BY DEF KeyStates
<1> HIDE DEF since, count, armed
<1>4. Advance(st, e) \in KeyStates
  BY <1>1, <1>2, <1>3 DEF KeyStates
<1>5. /\ Advance(st, e).last = "within" /\ Advance(st, e).armed = armed
      /\ Advance(st, e).since = since /\ Advance(st, e).count = count
  BY <1>1
<1>6. Advance(st, e).armed <=> armed
  BY <1>3, <1>5, Zenon
<1> QED
  BY <1>4, <1>5, <1>6, Zenon DEF since, count, armed

LEMMA AdvanceBreach ==
    ASSUME NEW st \in KeyStates, NEW e \in Evaluation, e.status = "breach"
    PROVE  /\ Advance(st, e) \in KeyStates
           /\ Advance(st, e).last = "breach"
           /\ Advance(st, e).since = None
           /\ Advance(st, e).armed <=> st.armed /\ ~Fires(st, e)
<1> DEFINE armed == st.armed /\ ~Fires(st, e)
<1>1. Advance(st, e) = [last |-> "breach", armed |-> armed, since |-> None, count |-> 0]
  BY DEF Advance, KeyState
<1>2. armed \in BOOLEAN
  BY DEF KeyStates
<1> HIDE DEF armed
<1>3. Advance(st, e) \in KeyStates
  BY <1>1, <1>2 DEF KeyStates
<1>4. /\ Advance(st, e).last = "breach" /\ Advance(st, e).armed = armed
      /\ Advance(st, e).since = None
  BY <1>1
<1>5. Advance(st, e).armed <=> armed
  BY <1>2, <1>4, Zenon
<1> QED
  BY <1>3, <1>4, <1>5, Zenon DEF armed

LEMMA AdvanceUnread ==
    ASSUME NEW st, NEW e \in Evaluation, e.status = "not_evaluable"
    PROVE  Advance(st, e) = st
BY DEF Advance

\* f is the function of the states of the threshold.
Runs(f, st, evals) ==
    f = [i \in 1..(Len(evals) + 1) |-> IF i = 1 THEN st ELSE Advance(f[i - 1], evals[i - 1])]

LEMMA RunsExist ==
    ASSUME NEW evals \in Seq(Evaluation), NEW st \in KeyStates
    PROVE  \E g : Runs(g, st, evals)
<1> DEFINE n == Len(evals)
           step == [p \in KeyStates \X Evaluation |-> Advance(p[1], p[2])]
<1>1. n \in Nat /\ evals \in [1..n -> Evaluation]
  OBVIOUS
<1>2. \A x \in KeyStates, e \in Evaluation : Advance(x, e) \in KeyStates
  BY AdvanceWithin, AdvanceBreach, AdvanceUnread DEF Evaluation, Statuses
<1>3. step \in [KeyStates \X Evaluation -> KeyStates]
  BY <1>2
<1>4. \A x \in KeyStates, e \in Evaluation : step[x, e] = Advance(x, e)
  OBVIOUS
<1> HIDE DEF step, n
<1>5. PICK g \in [0..n -> KeyStates] :
         g[0] = st /\ \A i \in 1..n : g[i] = step[g[i - 1], evals[i]]
  <2>1. \E g \in [0..n -> KeyStates] : Iterates(g, st, step, n, evals)
    BY <1>1, <1>3, IterationExists
  <2> QED
    BY <2>1, Zenon DEF Iterates
<1> DEFINE h == [i \in 1..(n + 1) |-> g[i - 1]]
<1>6. ASSUME NEW i \in 1..(n + 1)
      PROVE  h[i] = IF i = 1 THEN st ELSE Advance(h[i - 1], evals[i - 1])
  <2>1. CASE i = 1
    <3>1. h[1] = g[0]
      BY <1>1
    <3> QED
      BY <1>5, <2>1, <3>1
  <2>2. CASE i # 1
    <3>1. i - 1 \in 1..n /\ (i - 1) - 1 \in 0..n /\ h[i] = g[i - 1] /\ h[i - 1] = g[(i - 1) - 1]
      BY <1>1, <2>2
    <3>2. g[(i - 1) - 1] \in KeyStates /\ evals[i - 1] \in Evaluation
      BY <1>1, <3>1
    <3> QED
      BY <1>4, <1>5, <2>2, <3>1, <3>2
  <2> QED
    BY <2>1, <2>2
<1>7. h = [i \in 1..(n + 1) |-> IF i = 1 THEN st ELSE Advance(h[i - 1], evals[i - 1])]
  BY <1>6
<1> QED
  BY <1>7 DEF Runs, n

LEMMA StatesStep ==
    ASSUME NEW evals \in Seq(Evaluation), NEW st \in KeyStates
    PROVE  /\ States(st, evals)[1] = st
           /\ \A i \in DOMAIN evals :
                 /\ States(st, evals)[i] \in KeyStates
                 /\ States(st, evals)[i + 1] \in KeyStates
                 /\ States(st, evals)[i + 1] = Advance(States(st, evals)[i], evals[i])
<1> DEFINE s == States(st, evals)
           n == Len(evals) + 1
<1>1. Runs(s, st, evals)
  <2>1. s = CHOOSE g : Runs(g, st, evals)
    BY Zenon DEF States, Runs
  <2> QED
    BY <2>1, RunsExist, Zenon
<1>2. n \in Nat /\ 1 \in 1..n /\ \A i \in DOMAIN evals : evals[i] \in Evaluation /\ i \in 1..n /\ i # n
  OBVIOUS
<1>3. /\ s[1] = st
      /\ \A i \in 1..n : i # n => i + 1 \in 1..n /\ s[i + 1] = Advance(s[i], evals[i])
  <2> HIDE DEF s
  <2> QED
    BY <1>1, <1>2 DEF Runs
<1>4. \A x \in KeyStates, e \in Evaluation : Advance(x, e) \in KeyStates
  BY AdvanceWithin, AdvanceBreach, AdvanceUnread DEF Evaluation, Statuses
<1> DEFINE S == {k \in 1..n : s[k] \in KeyStates}
<1> HIDE DEF s
<1>5. 1 \in S /\ \A k \in 1..n : k \in S /\ k # n => k + 1 \in S
  <2>1. \A k \in 1..n : k # n => evals[k] \in Evaluation
    OBVIOUS
  <2> QED
    BY <1>2, <1>3, <1>4, <2>1
<1>6. \A k \in 1..n : k \in S
  <2> HIDE DEF S
  <2> QED
    BY <1>2, <1>5, IntervalInduction
<1> QED
  BY <1>2, <1>3, <1>6 DEF s

\* The within evaluations among those from a to b.
Withins(evals, a, b) == {m \in a..b : evals[m].status = "within"}

LEMMA WithinsCount ==
    ASSUME NEW evals, NEW a \in Nat \ {0}, NEW b \in Nat, a <= b
    PROVE  /\ Cardinality(Withins(evals, a, b)) \in Nat
           /\ Withins(evals, a, a - 1) = {}
           /\ Cardinality(Withins(evals, a, a - 1)) = 0
           /\ evals[b].status = "within" =>
                Cardinality(Withins(evals, a, b)) = Cardinality(Withins(evals, a, b - 1)) + 1
           /\ evals[b].status # "within" => Withins(evals, a, b) = Withins(evals, a, b - 1)
<1>1. \A c \in Nat : IsFiniteSet(Withins(evals, a, c))
  <2> SUFFICES ASSUME NEW c \in Nat PROVE IsFiniteSet(Withins(evals, a, c))
    OBVIOUS
  <2>1. Withins(evals, a, c) \subseteq a..c /\ IsFiniteSet(a..c)
    BY FS_Interval DEF Withins
  <2> QED
    BY <2>1, FS_Subset
<1>2. Withins(evals, a, a - 1) = {}
  BY DEF Withins
<1>3. evals[b].status = "within" =>
        b \notin Withins(evals, a, b - 1)
          /\ Withins(evals, a, b) = Withins(evals, a, b - 1) \union {b}
  BY DEF Withins
<1>4. evals[b].status # "within" => Withins(evals, a, b) = Withins(evals, a, b - 1)
  BY DEF Withins
<1>5. IsFiniteSet(Withins(evals, a, b)) /\ IsFiniteSet(Withins(evals, a, b - 1))
  BY <1>1
<1> DEFINE W == Withins(evals, a, b)
           V == Withins(evals, a, b - 1)
<1>6. Cardinality(W) \in Nat /\ Cardinality(V) \in Nat
  BY <1>5, FS_CardinalityType
<1>7. b \notin V => Cardinality(V \union {b}) = Cardinality(V) + 1
  <2>1. IsFiniteSet(V)
    BY <1>5
  <2> HIDE DEF V
  <2> QED
    BY <2>1, FS_AddElement
<1>8. Cardinality(Withins(evals, a, a - 1)) = 0
  BY <1>2, FS_EmptySet
<1> QED
  BY <1>2, <1>3, <1>4, <1>6, <1>7, <1>8, Zenon

\* A run of within evaluations started at one of them, no breach since, and counts them.
CalmRun(evals, st, k) ==
    st.since # None =>
        \E a \in 1..(k - 1) :
            /\ evals[a].status = "within"
            /\ \A m \in a..(k - 1) : evals[m].status # "breach"
            /\ st.since = evals[a].at
            /\ st.count = Cardinality(Withins(evals, a, k - 1))

LEMMA RunStep ==
    ASSUME NEW evals \in Seq(Evaluation), NEW st \in KeyStates, NEW k \in DOMAIN evals,
           CalmRun(evals, st, k)
    PROVE  CalmRun(evals, Advance(st, evals[k]), k + 1)
<1> DEFINE next == Advance(st, evals[k])
<1>1. evals[k] \in Evaluation /\ k \in Nat \ {0} /\ (k + 1) - 1 = k /\ None \notin Nat
  BY DEF None
<1>2. CASE evals[k].status = "within" /\ Restarts(st, evals[k].at)
  <2>1. next.since = evals[k].at /\ next.count = 1
    BY <1>1, <1>2, AdvanceWithin
  <2>2. Cardinality(Withins(evals, k, k)) = 1
    <3>1. k <= k /\ k \in Nat
      BY <1>1
    <3>2. Cardinality(Withins(evals, k, k)) = Cardinality(Withins(evals, k, k - 1)) + 1
      BY <1>1, <1>2, <3>1, WithinsCount, Zenon
    <3>3. Cardinality(Withins(evals, k, k - 1)) = 0
      BY <1>1, <3>1, WithinsCount, Zenon
    <3> QED
      BY <3>2, <3>3
  <2>3. k \in 1..k /\ \A m \in k..k : evals[m].status # "breach"
    BY <1>1, <1>2
  <2>4. 1..((k + 1) - 1) = 1..k /\ (k + 1) - 1 = k
    BY <1>1
  <2> HIDE DEF next
  <2>5. \E a \in 1..k :
            /\ evals[a].status = "within"
            /\ \A m \in a..k : evals[m].status # "breach"
            /\ next.since = evals[a].at
            /\ next.count = Cardinality(Withins(evals, a, k))
    BY <1>2, <2>1, <2>2, <2>3, Zenon
  <2> QED
    BY <2>4, <2>5 DEF CalmRun, next
<1>3. CASE evals[k].status = "within" /\ ~Restarts(st, evals[k].at)
  <2>1. next.since = st.since /\ next.count = st.count + 1 /\ st.since # None
    BY <1>1, <1>3, AdvanceWithin DEF Restarts
  <2>2. PICK a \in 1..(k - 1) :
            /\ evals[a].status = "within"
            /\ \A m \in a..(k - 1) : evals[m].status # "breach"
            /\ st.since = evals[a].at
            /\ st.count = Cardinality(Withins(evals, a, k - 1))
    BY <2>1 DEF CalmRun
  <2>3. Cardinality(Withins(evals, a, k)) = Cardinality(Withins(evals, a, k - 1)) + 1
    <3>1. a \in Nat \ {0} /\ a <= k /\ k \in Nat
      BY <1>1
    <3> QED
      BY <1>3, <3>1, WithinsCount, Zenon
  <2>4. a \in 1..k /\ \A m \in a..k : evals[m].status # "breach"
    <3>1. a \in 1..k /\ \A m \in a..k : m = k \/ m \in a..(k - 1)
      BY <1>1
    <3>2. evals[k].status # "breach" /\ \A m \in a..(k - 1) : evals[m].status # "breach"
      BY <1>3, <2>2
    <3> QED
      BY <3>1, <3>2, Zenon
  <2>5. 1..((k + 1) - 1) = 1..k /\ (k + 1) - 1 = k
    BY <1>1
  <2> HIDE DEF next
  <2>6. \E c \in 1..k :
            /\ evals[c].status = "within"
            /\ \A m \in c..k : evals[m].status # "breach"
            /\ next.since = evals[c].at
            /\ next.count = Cardinality(Withins(evals, c, k))
    BY <2>1, <2>2, <2>3, <2>4, Zenon
  <2> QED
    BY <2>5, <2>6 DEF CalmRun, next
<1>4. CASE evals[k].status = "breach"
  BY <1>1, <1>4, AdvanceBreach DEF CalmRun
<1>5. CASE evals[k].status = "not_evaluable"
  <2>1. next = st
    BY <1>1, <1>5, AdvanceUnread
  <2>2. SUFFICES ASSUME st.since # None
                 PROVE  \E a \in 1..k :
                          /\ evals[a].status = "within"
                          /\ \A m \in a..k : evals[m].status # "breach"
                          /\ st.since = evals[a].at
                          /\ st.count = Cardinality(Withins(evals, a, k))
    BY <1>1, <2>1 DEF CalmRun
  <2>3. PICK a \in 1..(k - 1) :
            /\ evals[a].status = "within"
            /\ \A m \in a..(k - 1) : evals[m].status # "breach"
            /\ st.since = evals[a].at
            /\ st.count = Cardinality(Withins(evals, a, k - 1))
    BY <2>2 DEF CalmRun
  <2>4. Withins(evals, a, k) = Withins(evals, a, k - 1)
    <3>1. a \in Nat \ {0} /\ a <= k /\ k \in Nat /\ evals[k].status # "within"
      BY <1>1, <1>5
    <3> QED
      BY <3>1, WithinsCount, Zenon
  <2>5. a \in 1..k
    BY <1>1, <2>3
  <2>6. ASSUME NEW m \in a..k PROVE evals[m].status # "breach"
    <3>1. m = k \/ m \in a..(k - 1)
      BY <1>1, <2>5
    <3>2. evals[k].status # "breach"
      BY <1>5
    <3> QED
      BY <2>3, <3>1, <3>2, Zenon
  <2> QED
    BY <2>3, <2>4, <2>5, <2>6
<1> QED
  BY <1>1, <1>2, <1>3, <1>4, <1>5 DEF Evaluation, Statuses

\* A threshold that is armed was calm since it last fired.
Rearmed(evals, st, k) ==
    \A i \in FiredAt(Fresh, evals) : i < k /\ st.armed => Calm(evals, i, k)

LEMMA RearmedStep ==
    ASSUME NEW evals \in Seq(Evaluation), NEW k \in DOMAIN evals,
           CalmRun(evals, States(Fresh, evals)[k], k), Rearmed(evals, States(Fresh, evals)[k], k)
    PROVE  Rearmed(evals, States(Fresh, evals)[k + 1], k + 1)
<1> DEFINE st == States(Fresh, evals)[k]
           next == States(Fresh, evals)[k + 1]
           fired == FiredAt(Fresh, evals)
<1>1. evals[k] \in Evaluation /\ k \in Nat \ {0} /\ (k + 1) - 1 = k /\ None \notin Nat
  BY DEF None
<1>2. Fresh \in KeyStates
  BY DEF Fresh, KeyState, KeyStates
<1>3. st \in KeyStates /\ next \in KeyStates /\ next = Advance(st, evals[k])
  BY <1>2, StatesStep
<1>4. \A i \in fired : i \in DOMAIN evals /\ Fires(States(Fresh, evals)[i], evals[i])
  BY DEF FiredAt
<1>5. CalmRun(evals, next, k + 1)
  BY <1>3, RunStep
<1> HIDE DEF st, next, fired
<1> SUFFICES ASSUME NEW i \in fired, i < k + 1, next.armed
             PROVE  Calm(evals, i, k + 1)
  BY DEF Rearmed, next, fired
<1>6. i \in DOMAIN evals /\ evals[i].status = "breach" /\ i \in Nat \ {0}
  BY <1>4 DEF Fires
<1>7. CASE st.armed /\ i < k
  <2>1. Calm(evals, i, k)
    BY <1>7 DEF Rearmed, st, fired
  <2>2. (i + 1)..(k - 1) \subseteq (i + 1)..((k + 1) - 1)
    BY <1>1, <1>6
  <2> QED
    BY <2>1, <2>2 DEF Calm
<1>8. CASE i = k
  <2>1. Fires(st, evals[k])
    BY <1>4, <1>8 DEF st
  <2> QED
    BY <1>1, <1>3, <1>6, <1>8, <2>1, AdvanceBreach
<1>9. CASE ~st.armed /\ i < k
  <2>1. evals[k].status = "within"
    BY <1>1, <1>3, <1>9, AdvanceBreach, AdvanceUnread DEF Evaluation, Statuses
  <2>2. /\ evals[k].at - next.since >= RearmSeconds /\ next.count >= RearmIntervals
    BY <1>1, <1>3, <1>9, <2>1, AdvanceWithin
  <2>3. next.since # None
    BY <1>1, <1>3, <2>1, AdvanceWithin DEF Restarts, Evaluation
  <2>4. PICK a \in 1..k :
            /\ evals[a].status = "within"
            /\ \A m \in a..k : evals[m].status # "breach"
            /\ next.since = evals[a].at
            /\ next.count = Cardinality(Withins(evals, a, k))
    BY <1>1, <1>5, <2>3 DEF CalmRun
  <2>5. i < a
    BY <1>1, <1>6, <1>9, <2>4
  <2>6. a \in (i + 1)..((k + 1) - 1) /\ k \in (i + 1)..((k + 1) - 1)
    BY <1>1, <1>6, <1>9, <2>5
  <2>7. Cardinality({m \in a..k : evals[m].status = "within"}) >= RearmIntervals
    BY <2>2, <2>4 DEF Withins
  <2> QED
    BY <2>1, <2>2, <2>4, <2>6, <2>7 DEF Calm
<1> QED
  BY <1>1, <1>6, <1>7, <1>8, <1>9

\* Until it fires a threshold is armed and not in breach.
LEMMA ArmedUntilFired ==
    ASSUME NEW evals \in Seq(Evaluation), NEW j \in DOMAIN evals, evals[j].status = "breach",
           \A i \in FiredAt(Fresh, evals) : ~(i < j)
    PROVE  j \in FiredAt(Fresh, evals)
<1> DEFINE s == States(Fresh, evals)
           S == {k \in 1..j : s[k].armed /\ s[k].last # "breach"}
<1>1. Fresh \in KeyStates /\ Fresh.armed /\ Fresh.last # "breach"
  BY DEF Fresh, KeyState, KeyStates
<1>2. \A k \in 1..j : k \in DOMAIN evals /\ evals[k] \in Evaluation
  OBVIOUS
<1>3. /\ s[1] = Fresh
      /\ \A k \in 1..j : s[k] \in KeyStates /\ s[k + 1] = Advance(s[k], evals[k])
  BY <1>1, <1>2, StatesStep
<1>4. \A k \in 1..j : k # j => k \notin FiredAt(Fresh, evals)
  OBVIOUS
<1>5. \A k \in 1..j : k \notin FiredAt(Fresh, evals) => ~Fires(s[k], evals[k])
  BY <1>2 DEF FiredAt
<1> HIDE DEF s
<1>6. ASSUME NEW k \in 1..j, k # j, s[k].armed, s[k].last # "breach"
      PROVE  k + 1 \in 1..j /\ s[k + 1].armed /\ s[k + 1].last # "breach"
  <2>1. evals[k].status # "breach"
    BY <1>4, <1>5, <1>6 DEF Fires
  <2>2. CASE evals[k].status = "within"
    <3>1. Advance(s[k], evals[k]).armed /\ Advance(s[k], evals[k]).last = "within"
      BY <1>2, <1>3, <1>6, <2>2, AdvanceWithin, Zenon
    <3> QED
      BY <1>3, <1>6, <3>1
  <2>3. CASE evals[k].status = "not_evaluable"
    BY <1>2, <1>3, <1>6, <2>3, AdvanceUnread
  <2> QED
    BY <1>2, <2>1, <2>2, <2>3 DEF Evaluation, Statuses
<1>7. 1 \in S /\ \A k \in 1..j : k \in S /\ k # j => k + 1 \in S
  BY <1>1, <1>3, <1>6
<1>8. j \in S
  <2>1. j \in Nat /\ j \in 1..j /\ 1 \in Nat
    OBVIOUS
  <2> HIDE DEF S
  <2> QED
    BY <1>7, <2>1, IntervalInduction
<1>9. j \in DOMAIN evals /\ Fires(s[j], evals[j])
  BY <1>8 DEF Fires
<1> QED
  BY <1>9 DEF FiredAt, s

\* A steady calm re-arms the threshold, whatever its state was.
LEMMA CalmArms ==
    ASSUME NEW evals \in Seq(Evaluation), NEW i \in DOMAIN evals, NEW j \in DOMAIN evals,
           SteadyCalm(evals, i, j), evals[j].status = "breach"
    PROVE  j \in FiredAt(Fresh, evals)
<1> DEFINE s == States(Fresh, evals)
<1>1. PICK a \in (i + 1)..(j - 1), b \in (i + 1)..(j - 1) :
         /\ Calm(evals, a - 1, b + 1)
         /\ \A k \in (i + 1)..(j - 1) : evals[k].status # "breach"
         /\ \A k \in a..b : \A m \in a..k : evals[m].at <= evals[k].at
  BY DEF SteadyCalm
<1>2. PICK c \in ((a - 1) + 1)..((b + 1) - 1), d \in ((a - 1) + 1)..((b + 1) - 1) :
         /\ evals[c].status = "within" /\ evals[d].status = "within"
         /\ Cardinality({k \in c..d : evals[k].status = "within"}) >= RearmIntervals
         /\ evals[d].at - evals[c].at >= RearmSeconds
  BY <1>1 DEF Calm
<1>3. /\ i \in Nat \ {0} /\ j \in Nat \ {0} /\ a \in Nat /\ b \in Nat
      /\ c \in a..b /\ d \in a..b /\ c \in Nat \ {0} /\ d \in Nat \ {0} /\ d < j /\ j \in Nat
  BY <1>1, <1>2
<1>4. c <= d
  <2>1. SUFFICES ASSUME ~(c <= d) PROVE FALSE
    OBVIOUS
  <2>2. {k \in c..d : evals[k].status = "within"} = {}
    BY <1>3, <2>1
  <2>3. Cardinality({k \in c..d : evals[k].status = "within"}) = 0
    BY <2>2, FS_EmptySet
  <2>4. RearmIntervals \in Nat /\ RearmIntervals > 0
    BY RearmAssumption
  <2>5. 0 >= RearmIntervals
    BY <1>2, <2>3, Zenon
  <2> QED
    BY <2>4, <2>5
<1>5. \A k \in c..(j - 1) :
         k \in DOMAIN evals /\ evals[k] \in Evaluation /\ evals[k].status # "breach"
  BY <1>1, <1>3
<1>6. \A k \in c..d : evals[c].at <= evals[k].at
  BY <1>1, <1>3
<1>7. Fresh \in KeyStates
  BY DEF Fresh, KeyState, KeyStates
<1>8. \A k \in c..(j - 1) :
         s[k] \in KeyStates /\ s[k + 1] \in KeyStates /\ s[k + 1] = Advance(s[k], evals[k])
  BY <1>5, <1>7, StatesStep
<1>9. None \notin Nat
  BY DEF None
<1> HIDE DEF s
<1> DEFINE Counts(k) ==
             /\ s[k + 1].last = "within"
             /\ s[k + 1].since \in Nat /\ s[k + 1].since <= evals[c].at
             /\ s[k + 1].count >= Cardinality(Withins(evals, c, k))
           S == {k \in c..d : Counts(k)}
<1>10. \A k \in c..d : k \in c..(j - 1) /\ k \in Nat /\ c <= k
  BY <1>3
<1>11. Counts(c)
  <2>1. Cardinality(Withins(evals, c, c)) = 1
    <3>1. c \in Nat \ {0} /\ c \in Nat /\ c <= c
      BY <1>3
    <3>2. Cardinality(Withins(evals, c, c)) = Cardinality(Withins(evals, c, c - 1)) + 1
      BY <1>2, <3>1, WithinsCount, Zenon
    <3>3. Cardinality(Withins(evals, c, c - 1)) = 0
      BY <3>1, WithinsCount, Zenon
    <3> QED
      BY <3>2, <3>3
  <2>2. c \in c..(j - 1)
    BY <1>3, <1>4
  <2>3. /\ s[c + 1].last = "within"
        /\ s[c + 1].since = IF Restarts(s[c], evals[c].at) THEN evals[c].at ELSE s[c].since
        /\ s[c + 1].count = IF Restarts(s[c], evals[c].at) THEN 1 ELSE s[c].count + 1
    BY <1>2, <1>5, <1>8, <2>2, AdvanceWithin
  <2>4. s[c].since \in Nat \union {None} /\ s[c].count \in Nat /\ evals[c].at \in Nat
    BY <1>5, <1>8, <2>2 DEF KeyStates, Evaluation
  <2> QED
    BY <2>1, <2>3, <2>4 DEF Restarts
<1>12. ASSUME NEW k \in c..d, k # d, Counts(k)
       PROVE  Counts(k + 1)
  <2>1. k + 1 \in c..d /\ k + 1 \in c..(j - 1) /\ (k + 1) - 1 = k /\ k + 1 \in Nat
    BY <1>3, <1>12
  <2>2. c \in Nat \ {0} /\ k + 1 \in Nat /\ c <= k + 1
    BY <1>3, <1>12
  <2> DEFINE st == s[k + 1]
             e == evals[k + 1]
             next == s[(k + 1) + 1]
             card == Cardinality(Withins(evals, c, k))
             more == Cardinality(Withins(evals, c, k + 1))
  <2>3. st \in KeyStates /\ e \in Evaluation /\ next = Advance(st, e) /\ e.status # "breach"
    BY <1>5, <1>8, <2>1
  <2>4. evals[c].at <= e.at /\ evals[c].at \in Nat
    BY <1>5, <1>6, <1>10, <1>12, <2>1 DEF Evaluation
  <2>5. st.last = "within" /\ st.since \in Nat /\ st.since <= evals[c].at /\ st.count >= card
    BY <1>12
  <2>6. card \in Nat
    BY <1>10, <1>12, <2>2, WithinsCount
  <2>7. /\ e.status = "within" => more = Cardinality(Withins(evals, c, (k + 1) - 1)) + 1
        /\ e.status # "within" => Withins(evals, c, k + 1) = Withins(evals, c, (k + 1) - 1)
    BY <2>2, WithinsCount, Zenon
  <2>8. CASE e.status = "within"
    <3>1. st.count \in Nat /\ e.at \in Nat
      BY <2>3 DEF KeyStates, Evaluation
    <3>2. ~Restarts(st, e.at)
      <4>1. st.since # None
        BY <1>9, <2>5, Zenon
      <4>2. ~(st.since > e.at)
        <5> HIDE DEF st, e
        <5> QED
          BY <2>4, <2>5, <3>1
      <4> QED
        BY <4>1, <4>2, Zenon DEF Restarts
    <3>3. next.last = "within" /\ next.since = st.since /\ next.count = st.count + 1
      BY <2>3, <2>8, <3>2, AdvanceWithin
    <3>4. more = card + 1
      BY <2>1, <2>7, <2>8
    <3>5. next.count >= more
      <4> HIDE DEF next, st, more, card
      <4> QED
        BY <2>5, <2>6, <3>1, <3>3, <3>4
    <3> QED
      BY <2>5, <3>3, <3>5
  <2>9. CASE e.status = "not_evaluable"
    <3>1. next = st
      BY <2>3, <2>9, AdvanceUnread
    <3>2. more = card
      BY <2>1, <2>7, <2>9
    <3> QED
      BY <2>5, <3>1, <3>2
  <2> QED
    BY <2>3, <2>8, <2>9 DEF Evaluation, Statuses
<1>13. c # d => Counts(d - 1)
  <2>1. SUFFICES ASSUME c # d PROVE Counts(d - 1)
    OBVIOUS
  <2>2. c \in S /\ \A k \in c..d : k \in S /\ k # d => k + 1 \in S
    <3>1. c \in c..d /\ \A k \in c..d : k # d => k + 1 \in c..d
      BY <1>3, <1>4
    <3> HIDE DEF Counts
    <3> QED
      BY <1>11, <1>12, <3>1
  <2>3. d - 1 \in c..d /\ c \in Nat /\ d \in Nat
    BY <1>3, <1>4, <2>1
  <2>4. d - 1 \in S
    <3> HIDE DEF S
    <3> QED
      BY <2>2, <2>3, IntervalInduction
  <2> HIDE DEF Counts
  <2> QED
    BY <2>4
<1>14. Counts(d)
  <2>1. CASE c = d
    BY <1>11, <2>1
  <2>2. CASE c # d
    <3>1. d - 1 \in c..d /\ d - 1 # d /\ (d - 1) + 1 = d
      BY <1>3, <1>4, <2>2
    <3> HIDE DEF Counts
    <3>2. Counts((d - 1) + 1)
      BY <1>12, <1>13, <2>2, <3>1
    <3> QED
      BY <3>1, <3>2
  <2> QED
    BY <2>1, <2>2
<1>15. s[d + 1].armed /\ s[d + 1].last # "breach"
  <2>1. d \in c..(j - 1)
    BY <1>3, <1>4
  <2>2. /\ evals[d] \in Evaluation /\ s[d] \in KeyStates /\ s[d + 1] = Advance(s[d], evals[d])
        /\ s[d + 1] \in KeyStates /\ evals[d].at \in Nat /\ evals[c].at \in Nat
    <3>1. c \in c..(j - 1)
      BY <1>3, <1>4
    <3>2. evals[c] \in Evaluation /\ evals[d] \in Evaluation
      BY <1>5, <2>1, <3>1
    <3> QED
      BY <1>8, <2>1, <3>2 DEF Evaluation
  <2>3. evals[d].at - s[d + 1].since >= RearmSeconds
    <3>1. s[d + 1].since \in Nat /\ s[d + 1].since <= evals[c].at
      BY <1>14
    <3>2. evals[d].at \in Nat /\ evals[c].at \in Nat /\ RearmSeconds \in Nat
      BY <2>2, RearmAssumption
    <3>3. evals[d].at - evals[c].at >= RearmSeconds
      BY <1>2, Zenon
    <3> DEFINE x == evals[d].at
               y == evals[c].at
               z == s[d + 1].since
    <3> HIDE DEF Counts, x, y, z
    <3>4. x \in Nat /\ y \in Nat /\ z \in Nat /\ z <= y /\ x - y >= RearmSeconds
      BY <3>1, <3>2, <3>3, Zenon DEF x, y, z
    <3>5. x - z >= RearmSeconds
      BY <3>2, <3>4
    <3> QED
      BY <3>5, Zenon DEF x, z
  <2>4. s[d + 1].count >= RearmIntervals
    <3>1. Withins(evals, c, d) = {k \in c..d : evals[k].status = "within"}
      BY DEF Withins
    <3>2. Cardinality(Withins(evals, c, d)) \in Nat
      BY <1>3, <1>4, WithinsCount
    <3>3. s[d + 1].count \in Nat
      BY <2>2 DEF KeyStates
    <3> QED
      BY <1>2, <1>14, <3>1, <3>2, <3>3, RearmAssumption
  <2>5. Advance(s[d], evals[d]).armed
    BY <1>2, <2>2, <2>3, <2>4, AdvanceWithin, Zenon
  <2> QED
    BY <1>14, <2>2, <2>5
<1> DEFINE R == {k \in (d + 1)..j : s[k].armed /\ s[k].last # "breach"}
<1>16. ASSUME NEW k \in (d + 1)..j, k # j, s[k].armed, s[k].last # "breach"
       PROVE  k + 1 \in (d + 1)..j /\ s[k + 1].armed /\ s[k + 1].last # "breach"
  <2>1. k \in c..(j - 1) /\ k + 1 \in (d + 1)..j
    BY <1>3, <1>4, <1>16
  <2>2. CASE evals[k].status = "within"
    <3>1. Advance(s[k], evals[k]).armed /\ Advance(s[k], evals[k]).last = "within"
      BY <1>5, <1>8, <1>16, <2>1, <2>2, AdvanceWithin, Zenon
    <3> QED
      BY <1>8, <2>1, <3>1
  <2>3. CASE evals[k].status = "not_evaluable"
    BY <1>5, <1>8, <1>16, <2>1, <2>3, AdvanceUnread
  <2> QED
    BY <1>5, <2>1, <2>2, <2>3 DEF Evaluation, Statuses
<1>17. j \in R
  <2>1. d + 1 \in R /\ \A k \in (d + 1)..j : k \in R /\ k # j => k + 1 \in R
    BY <1>3, <1>15, <1>16
  <2>2. d + 1 \in Nat /\ j \in Nat /\ j \in (d + 1)..j
    BY <1>3
  <2> HIDE DEF R
  <2> QED
    BY <2>1, <2>2, IntervalInduction
<1>18. Fires(s[j], evals[j])
  BY <1>17 DEF Fires
<1> QED
  BY <1>18 DEF FiredAt, s

\* However many evaluations there are, and whatever the clock does: a threshold's breach is
\* raised again only after a calm, and a breach that is not raised follows one that was,
\* with no steady calm since.
THEOREM RaisedOnce ==
    ASSUME call.about = "rearm" => call.evals \in Seq([status : Statuses, at : Nat])
    PROVE  RaisedOncePerEpisode
<1> SUFFICES ASSUME NEW evals \in Seq(Evaluation), evals = call.evals
             PROVE  /\ \A i, j \in FiredAt(Fresh, evals) : i < j => Calm(evals, i, j)
                    /\ \A j \in DOMAIN evals :
                         evals[j].status = "breach" =>
                             \/ j \in FiredAt(Fresh, evals)
                             \/ \E i \in FiredAt(Fresh, evals) : i < j /\ ~SteadyCalm(evals, i, j)
  BY DEF RaisedOncePerEpisode, Evaluation
<1> DEFINE s == States(Fresh, evals)
           n == Len(evals)
           S == {k \in 1..n : CalmRun(evals, s[k], k) /\ Rearmed(evals, s[k], k)}
<1>1. Fresh \in KeyStates /\ Fresh.since = None
  BY DEF Fresh, KeyState, KeyStates
<1>2. s[1] = Fresh /\ \A k \in DOMAIN evals : s[k] \in KeyStates /\ s[k + 1] = Advance(s[k], evals[k])
  BY <1>1, StatesStep
<1>3. FiredAt(Fresh, evals) = {k \in DOMAIN evals : Fires(s[k], evals[k])}
  BY DEF FiredAt
<1>4. DOMAIN evals = 1..n /\ n \in Nat
  OBVIOUS
<1>5. \A k \in 1..n : k \in S
  <2>1. CASE n = 0
    BY <2>1
  <2>2. CASE n # 0
    <3>1. CalmRun(evals, s[1], 1)
      BY <1>1, <1>2 DEF CalmRun
    <3>2. Rearmed(evals, s[1], 1)
      BY <1>3, <1>4 DEF Rearmed
    <3>3. 1 \in 1..n
      BY <1>4, <2>2
    <3>4. 1 \in S
      <4> HIDE DEF s, n
      <4> QED
        BY <3>1, <3>2, <3>3
    <3>5. ASSUME NEW k \in 1..n, k # n, CalmRun(evals, s[k], k), Rearmed(evals, s[k], k)
          PROVE  k + 1 \in 1..n /\ CalmRun(evals, s[k + 1], k + 1) /\ Rearmed(evals, s[k + 1], k + 1)
      <4>1. k \in DOMAIN evals /\ k + 1 \in 1..n
        BY <1>4, <3>5
      <4>2. CalmRun(evals, s[k + 1], k + 1)
        BY <1>2, <3>5, <4>1, RunStep
      <4>3. Rearmed(evals, s[k + 1], k + 1)
        BY <3>5, <4>1, RearmedStep
      <4> QED
        BY <4>1, <4>2, <4>3
    <3>6. \A k \in 1..n : k \in S /\ k # n => k + 1 \in S
      <4> HIDE DEF s, n
      <4> QED
        BY <3>5
    <3>7. 1 \in Nat
      OBVIOUS
    <3> HIDE DEF S, n
    <3> QED
      BY <1>4, <3>4, <3>6, <3>7, IntervalInduction
  <2> QED
    BY <2>1, <2>2
<1>6. ASSUME NEW i \in FiredAt(Fresh, evals), NEW j \in FiredAt(Fresh, evals), i < j
      PROVE  Calm(evals, i, j)
  <2>1. j \in 1..n /\ s[j].armed
    BY <1>3, <1>4 DEF Fires
  <2>2. Rearmed(evals, s[j], j)
    <3> HIDE DEF s, n
    <3> QED
      BY <1>5, <2>1
  <2> QED
    BY <1>6, <2>1, <2>2 DEF Rearmed
<1>7. ASSUME NEW j \in DOMAIN evals, evals[j].status = "breach", j \notin FiredAt(Fresh, evals)
      PROVE  \E i \in FiredAt(Fresh, evals) : i < j /\ ~SteadyCalm(evals, i, j)
  <2>1. PICK i \in FiredAt(Fresh, evals) : i < j
    BY <1>7, ArmedUntilFired
  <2>2. i \in DOMAIN evals
    BY <1>3
  <2>3. ~SteadyCalm(evals, i, j)
    BY <1>7, <2>2, CalmArms
  <2> QED
    BY <2>1, <2>3
<1> QED
  BY <1>6, <1>7

-----------------------------------------------------------------------------
(***************************************************************************)
(* The situation of `correlate serve`, for every number of cycles.         *)
(***************************************************************************)

GroupCounts == [p0 : Nat, p1 : Nat, other : Nat]
Hashes == {<< >>} \union {<<g>> : g \in GroupCounts}
ServeStates ==
    [state : {"watching", "alert", "degraded"}, calm : Nat \union {Unset}, hash : Hashes,
     cached : Nat \union {Unset}, now : Nat, asked : BOOLEAN]

LEMMA Intervals ==
    \A s \in {"watching", "alert", "degraded"} :
        /\ Interval[s] \in Nat /\ Interval[s] > 0
        /\ CacheTtl[s] \in Nat /\ CacheTtl[s] <= 900
BY DEF Interval, CacheTtl

\* What the groups alone do to the situation.
LEMMA UpdatedStep ==
    ASSUME NEW st \in ServeStates, NEW g \in GroupCounts, NEW now, now = Updated(st, g)
    PROVE  /\ now \in ServeStates
           /\ now.hash = st.hash /\ now.cached = st.cached /\ now.now = st.now
           /\ now.asked = st.asked
           /\ st.state = "degraded" => now.state = "watching"
           /\ (st.state = "alert" /\ Elevated(g)) => now.state = "alert"
           /\ (st.state = "alert" /\ now.state = "watching") =>
                 st.calm # Unset /\ st.now - st.calm >= 600 /\ ~Elevated(g)
           /\ (now.state = "alert" /\ now.calm # Unset) =>
                 /\ ~Elevated(g) /\ st.state = "alert"
                 /\ now.calm = st.calm \/ now.calm = st.now
<1>1. CASE st.state = "degraded"
  <2>1. now = [st EXCEPT !.state = "watching", !.calm = st.now]
    BY <1>1 DEF Updated
  <2> QED
    BY <1>1, <2>1 DEF ServeStates
<1>2. CASE st.state = "watching" /\ Elevated(g)
  <2>1. now = [st EXCEPT !.state = "alert", !.calm = Unset]
    BY <1>2 DEF Updated
  <2> QED
    BY <1>2, <2>1 DEF ServeStates
<1>3. CASE st.state = "watching" /\ ~Elevated(g)
  <2>1. now = st
    BY <1>3 DEF Updated
  <2> QED
    BY <1>3, <2>1 DEF ServeStates
<1>4. CASE st.state = "alert" /\ Elevated(g)
  <2>1. now = [st EXCEPT !.calm = Unset]
    BY <1>4 DEF Updated
  <2> QED
    BY <1>4, <2>1 DEF ServeStates
<1>5. CASE st.state = "alert" /\ ~Elevated(g) /\ st.calm = Unset
  <2>1. now = [st EXCEPT !.calm = st.now]
    BY <1>5 DEF Updated
  <2> QED
    BY <1>5, <2>1 DEF ServeStates
<1>6. CASE st.state = "alert" /\ ~Elevated(g) /\ st.calm # Unset /\ st.now - st.calm >= 600
  <2>1. now = [st EXCEPT !.state = "watching", !.calm = Unset]
    BY <1>6 DEF Updated
  <2> QED
    BY <1>6, <2>1 DEF ServeStates
<1>7. CASE st.state = "alert" /\ ~Elevated(g) /\ st.calm # Unset /\ ~(st.now - st.calm >= 600)
  <2>1. now = st
    BY <1>7 DEF Updated
  <2> QED
    BY <1>7, <2>1 DEF ServeStates
<1> QED
  BY <1>1, <1>2, <1>3, <1>4, <1>5, <1>6, <1>7 DEF ServeStates

\* A cycle either shows what is cached or asks the model about the groups it finds.
Shown(st, g, next) ==
    /\ st.hash = <<g>> /\ next.hash = <<g>> /\ next.cached = st.cached /\ st.cached # Unset
    /\ next.now - st.cached < 900 /\ ~next.asked
Regenerated(g, next) ==
    /\ next.hash = <<g>> /\ next.cached = next.now
    /\ g # Loads0 <=> next.asked

LEMMA ServeStep ==
    ASSUME NEW st \in ServeStates, NEW c, c.groups \in GroupCounts, c.failed \in Nat,
           NEW next, next = ServeCycle(st, c)
    PROVE  /\ next \in ServeStates /\ next.now > st.now
           /\ Shown(st, c.groups, next) \/ Regenerated(c.groups, next)
           /\ st.state = "degraded" => next.state # "alert"
           /\ (st.state = "alert" /\ Elevated(c.groups)) => next.state # "watching"
           /\ (st.state = "alert" /\ next.state = "watching") =>
                 st.calm # Unset /\ next.now - st.calm >= 600 /\ ~Elevated(c.groups)
           /\ (next.state = "alert" /\ next.calm # Unset) =>
                 /\ ~Elevated(c.groups) /\ st.state = "alert"
                 /\ next.calm = st.calm \/ next.calm = next.now
<1> DEFINE g == c.groups
           d == Waited(st, c)
           at == [st EXCEPT !.now = @ + d, !.asked = FALSE]
           now == Updated(at, g)
           empty == g.p0 + g.p1 + g.other = 0
           cached == Cached(now, g)
           asked == [cached EXCEPT !.asked = TRUE]
<1>1. d \in Nat /\ d > 0
  <2>1. PICK w \in Nat : w = Interval[st.state] /\ w > 0
    BY Intervals DEF ServeStates
  <2>2. c.failed + 1 \in Nat \ {0}
    OBVIOUS
  <2>3. (c.failed + 1) * w \in Nat /\ (c.failed + 1) * w > 0
    BY <2>1, <2>2
  <2> QED
    BY <2>1, <2>3 DEF Waited
<1>2. /\ at \in ServeStates /\ at.now > st.now /\ at.asked = FALSE
      /\ at.state = st.state /\ at.calm = st.calm /\ at.hash = st.hash /\ at.cached = st.cached
  <2> HIDE DEF d
  <2>1. st.now \in Nat
    BY DEF ServeStates
  <2>2. PICK x \in Nat : x = st.now + d /\ x > st.now
    BY <1>1, <2>1
  <2>3. at = [st EXCEPT !.now = x, !.asked = FALSE]
    BY <2>2
  <2> HIDE DEF at
  <2> QED
    BY <2>2, <2>3 DEF ServeStates
<1>3. next = IF CacheHit(now, g) THEN now ELSE IF empty THEN cached
             ELSE IF c.model = "raises" THEN ModelFailed(asked) ELSE asked
  BY Zenon DEF ServeCycle
<1> HIDE DEF at
<1>4. g \in GroupCounts /\ (empty <=> g = Loads0)
  <2>1. g \in GroupCounts /\ Loads0 \in GroupCounts
    BY DEF GroupCounts, Loads0
  <2>2. g = Loads0 <=> g.p0 = Loads0.p0 /\ g.p1 = Loads0.p1 /\ g.other = Loads0.other
    BY <2>1 DEF GroupCounts
  <2>3. Loads0.p0 = 0 /\ Loads0.p1 = 0 /\ Loads0.other = 0
    BY DEF Loads0
  <2>4. g.p0 \in Nat /\ g.p1 \in Nat /\ g.other \in Nat
    BY <2>1 DEF GroupCounts
  <2> QED
    BY <2>1, <2>2, <2>3, <2>4
<1>5. /\ now \in ServeStates
      /\ now.hash = at.hash /\ now.cached = at.cached /\ now.now = at.now /\ now.asked = at.asked
      /\ at.state = "degraded" => now.state = "watching"
      /\ (at.state = "alert" /\ Elevated(g)) => now.state = "alert"
      /\ (at.state = "alert" /\ now.state = "watching") =>
            at.calm # Unset /\ at.now - at.calm >= 600 /\ ~Elevated(g)
      /\ (now.state = "alert" /\ now.calm # Unset) =>
            /\ ~Elevated(g) /\ at.state = "alert"
            /\ now.calm = at.calm \/ now.calm = at.now
  BY <1>2, <1>4, UpdatedStep
<1> HIDE DEF now, empty
<1>6. CASE CacheHit(now, g)
  <2>1. next = now
    BY <1>3, <1>6
  <2>2. now.cached # Unset /\ now.hash = <<g>> /\ now.now - now.cached < CacheTtl[now.state]
    BY <1>6 DEF CacheHit
  <2>3. CacheTtl[now.state] \in Nat /\ CacheTtl[now.state] <= 900
    BY <1>5, Intervals DEF ServeStates
  <2>4. now.now \in Nat /\ now.cached \in Nat
    BY <1>5, <2>2 DEF ServeStates
  <2>5. now.now - now.cached < 900
    BY <2>2, <2>3, <2>4
  <2>6. Shown(st, g, next)
    BY <1>2, <1>5, <2>1, <2>2, <2>5 DEF Shown
  <2> QED
    BY <1>2, <1>5, <2>1, <2>6
<1>7. CASE ~CacheHit(now, g)
  <2>1. /\ cached \in ServeStates /\ cached.hash = <<g>> /\ cached.cached = now.now
        /\ cached.now = now.now /\ cached.asked = now.asked
        /\ cached.state = now.state /\ cached.calm = now.calm
    BY <1>4, <1>5 DEF Cached, ServeStates, Hashes
  <2> HIDE DEF cached
  <2>2. CASE empty
    <3>1. next = cached
      BY <1>3, <1>7, <2>2
    <3>2. Regenerated(g, next)
      BY <1>2, <1>4, <1>5, <2>1, <2>2, <3>1 DEF Regenerated
    <3> QED
      BY <1>2, <1>5, <2>1, <3>1, <3>2
  <2>3. CASE ~empty
    <3>1. /\ asked \in ServeStates /\ asked.hash = <<g>> /\ asked.cached = now.now
          /\ asked.now = now.now /\ asked.asked
          /\ asked.state = now.state /\ asked.calm = now.calm
      BY <2>1 DEF ServeStates
    <3> HIDE DEF asked
    <3>2. next = ModelFailed(asked) \/ next = asked
      BY <1>3, <1>7, <2>3
    <3>3. CASE next = asked
      <4>1. Regenerated(g, next)
        BY <1>4, <2>3, <3>1, <3>3 DEF Regenerated
      <4> QED
        BY <1>2, <1>5, <3>1, <3>3, <4>1
    <3>4. CASE next = ModelFailed(asked)
      <4>1. asked.state # "incident"
        BY <3>1 DEF ServeStates
      <4>2. next = [asked EXCEPT !.state = "degraded", !.calm = Unset]
        BY <3>4, <4>1 DEF ModelFailed
      <4>3. /\ next \in ServeStates /\ next.hash = <<g>> /\ next.cached = now.now
            /\ next.now = now.now /\ next.asked /\ next.state = "degraded"
        BY <3>1, <4>2 DEF ServeStates
      <4>4. Regenerated(g, next)
        BY <1>4, <2>3, <4>3 DEF Regenerated
      <4> QED
        BY <1>2, <1>5, <4>3, <4>4
    <3> QED
      BY <3>2, <3>3, <3>4
  <2> QED
    BY <2>2, <2>3
<1> QED
  BY <1>6, <1>7

\* f is the function of the states after each cycle.
Serves(f, cycles) ==
    f = [i \in 0..Len(cycles) |-> IF i = 0 THEN Start ELSE ServeCycle(f[i - 1], cycles[i])]

LEMMA ServesExist ==
    ASSUME NEW C, \A c \in C : c.groups \in GroupCounts /\ c.failed \in Nat, NEW cycles \in Seq(C)
    PROVE  \E g : Serves(g, cycles)
<1> DEFINE n == Len(cycles)
           step == [p \in ServeStates \X C |-> ServeCycle(p[1], p[2])]
<1>1. n \in Nat /\ cycles \in [1..n -> C]
  OBVIOUS
<1>2. Start \in ServeStates
  BY DEF Start, ServeStates, Hashes
<1>3. \A x \in ServeStates, c \in C : ServeCycle(x, c) \in ServeStates
  BY ServeStep
<1>4. step \in [ServeStates \X C -> ServeStates]
  BY <1>3
<1>5. \A x \in ServeStates, c \in C : step[x, c] = ServeCycle(x, c)
  OBVIOUS
<1> HIDE DEF step, n
<1>6. PICK g \in [0..n -> ServeStates] :
         g[0] = Start /\ \A i \in 1..n : g[i] = step[g[i - 1], cycles[i]]
  <2>1. \E g \in [0..n -> ServeStates] : Iterates(g, Start, step, n, cycles)
    BY <1>1, <1>2, <1>4, IterationExists
  <2> QED
    BY <2>1, Zenon DEF Iterates
<1>7. ASSUME NEW i \in 0..n
      PROVE  g[i] = IF i = 0 THEN Start ELSE ServeCycle(g[i - 1], cycles[i])
  <2>1. i # 0 => i \in 1..n /\ i - 1 \in 0..n
    BY <1>1
  <2>2. i # 0 => g[i - 1] \in ServeStates /\ cycles[i] \in C
    BY <1>1, <2>1
  <2> QED
    BY <1>5, <1>6, <2>1, <2>2
<1>8. g = [i \in 0..n |-> IF i = 0 THEN Start ELSE ServeCycle(g[i - 1], cycles[i])]
  BY <1>7
<1> QED
  BY <1>8 DEF Serves, n

LEMMA HistoryStep ==
    ASSUME NEW C, \A c \in C : c.groups \in GroupCounts /\ c.failed \in Nat, NEW cycles \in Seq(C)
    PROVE  /\ History(cycles)[0] = Start
           /\ \A i \in 0..Len(cycles) : History(cycles)[i] \in ServeStates
           /\ \A i \in DOMAIN cycles : History(cycles)[i] = ServeCycle(History(cycles)[i - 1], cycles[i])
<1> DEFINE s == History(cycles)
           n == Len(cycles)
           S == {k \in 0..n : s[k] \in ServeStates}
<1>1. Serves(s, cycles)
  <2>1. s = CHOOSE g : Serves(g, cycles)
    BY Zenon DEF History, Serves
  <2> QED
    BY <2>1, ServesExist, Zenon
<1>2. n \in Nat /\ 0 \in Nat /\ DOMAIN cycles = 1..n /\ \A i \in 1..n : cycles[i] \in C
  OBVIOUS
<1>3. s[0] = Start /\ \A i \in 1..n : s[i] = ServeCycle(s[i - 1], cycles[i])
  <2> HIDE DEF s
  <2> QED
    BY <1>1, <1>2 DEF Serves
<1>4. Start \in ServeStates
  BY DEF Start, ServeStates, Hashes
<1>5. \A x \in ServeStates, c \in C : ServeCycle(x, c) \in ServeStates
  BY ServeStep
<1> HIDE DEF s, n
<1>6. 0 \in S /\ \A k \in 0..n : k \in S /\ k # n => k + 1 \in S
  <2>1. ASSUME NEW k \in 0..n, s[k] \in ServeStates, k # n PROVE k + 1 \in 0..n /\ s[k + 1] \in ServeStates
    <3>1. k + 1 \in 1..n /\ (k + 1) - 1 = k
      BY <1>2, <2>1
    <3>2. s[k + 1] = ServeCycle(s[k], cycles[k + 1])
      BY <1>3, <3>1
    <3> QED
      BY <1>2, <1>5, <2>1, <3>1, <3>2
  <2> QED
    BY <1>2, <1>3, <1>4, <2>1
<1>7. \A k \in 0..n : k \in S
  <2> HIDE DEF S
  <2> QED
    BY <1>2, <1>6, IntervalInduction
<1> QED
  BY <1>2, <1>3, <1>7 DEF s, n

\* Since when it has been calm, and since when the cached groups have been there.
CalmSince(cycles, s, i) ==
    (s[i].state = "alert" /\ s[i].calm # Unset) =>
        \E a \in 1..i : s[a].now = s[i].calm /\ \A k \in a..i : ~Elevated(cycles[k].groups)
CachedSince(cycles, s, i) ==
    s[i].cached # Unset =>
        \E a \in 1..i :
            /\ s[i].cached = s[a].now /\ s[i].hash = <<cycles[a].groups>>
            /\ \A k \in a..i : cycles[k].groups = cycles[a].groups
            /\ cycles[a].groups # Loads0 => s[a].asked
            /\ \A k \in (a + 1)..i : ~s[k].asked

\* However many cycles there are, whatever groups they find, whenever the model fails and
\* however many cycles raise in between:
\* alert ends in watching only after ten calm minutes, new groups are shown to the model
\* at once, and what stays is shown to it again within fifteen minutes.
THEOREM SituationServed ==
    ASSUME NEW C, \A c \in C : c.groups \in GroupCounts /\ c.failed \in Nat, NEW cycles \in Seq(C)
    PROVE  SituationFollowed(cycles)
<1> DEFINE s == History(cycles)
           n == Len(cycles)
           G(i) == cycles[i].groups
           S == {k \in 0..n : CalmSince(cycles, s, k) /\ CachedSince(cycles, s, k)
                                /\ (k > 0 => s[k].cached # Unset)}
<1>1. /\ s[0] = Start
      /\ \A i \in 0..n : s[i] \in ServeStates
      /\ \A i \in DOMAIN cycles : s[i] = ServeCycle(s[i - 1], cycles[i])
  BY HistoryStep
<1>2. /\ n \in Nat /\ 0 \in Nat /\ DOMAIN cycles = 1..n
      /\ \A i \in 1..n : G(i) \in GroupCounts /\ cycles[i].failed \in Nat /\ cycles[i] \in C
  OBVIOUS
<1>3. Start.state = "watching" /\ Start.cached = Unset /\ Unset \notin Nat
  BY DEF Start, Unset
<1> HIDE DEF s, n
<1>4. ASSUME NEW i \in 1..n
      PROVE  /\ i \in Nat /\ i - 1 \in 0..n /\ i \in 0..n
             /\ s[i - 1] \in ServeStates /\ s[i] \in ServeStates
             /\ s[i].now > s[i - 1].now
             /\ Shown(s[i - 1], G(i), s[i]) \/ Regenerated(G(i), s[i])
             /\ s[i - 1].state = "degraded" => s[i].state # "alert"
             /\ (s[i - 1].state = "alert" /\ Elevated(G(i))) => s[i].state # "watching"
             /\ (s[i - 1].state = "alert" /\ s[i].state = "watching") =>
                   s[i - 1].calm # Unset /\ s[i].now - s[i - 1].calm >= 600 /\ ~Elevated(G(i))
             /\ (s[i].state = "alert" /\ s[i].calm # Unset) =>
                   /\ ~Elevated(G(i)) /\ s[i - 1].state = "alert"
                   /\ s[i].calm = s[i - 1].calm \/ s[i].calm = s[i].now
  <2>1. i \in Nat /\ i - 1 \in 0..n /\ i \in 0..n
    BY <1>2
  <2>2. s[i - 1] \in ServeStates /\ s[i] = ServeCycle(s[i - 1], cycles[i]) /\ G(i) \in GroupCounts
        /\ cycles[i].failed \in Nat
    BY <1>1, <1>2, <2>1
  <2> DEFINE p == s[i - 1]
             q == s[i]
             c == cycles[i]
  <2>3. p \in ServeStates /\ q = ServeCycle(p, c) /\ c.groups \in GroupCounts /\ c.failed \in Nat
    BY <2>2
  <2> HIDE DEF p, q, c
  <2>4. /\ q \in ServeStates
        /\ q.now > p.now
        /\ Shown(p, c.groups, q) \/ Regenerated(c.groups, q)
        /\ p.state = "degraded" => q.state # "alert"
        /\ (p.state = "alert" /\ Elevated(c.groups)) => q.state # "watching"
        /\ (p.state = "alert" /\ q.state = "watching") =>
              p.calm # Unset /\ q.now - p.calm >= 600 /\ ~Elevated(c.groups)
        /\ (q.state = "alert" /\ q.calm # Unset) =>
              /\ ~Elevated(c.groups) /\ p.state = "alert"
              /\ q.calm = p.calm \/ q.calm = q.now
    BY <2>3, ServeStep
  <2> QED
    BY <2>1, <2>3, <2>4 DEF p, q, c
<1>5. ASSUME NEW i \in 1..n, CalmSince(cycles, s, i - 1)
      PROVE  CalmSince(cycles, s, i)
  <2>1. SUFFICES ASSUME s[i].state = "alert", s[i].calm # Unset
                 PROVE  \E a \in 1..i : s[a].now = s[i].calm /\ \A k \in a..i : ~Elevated(G(k))
    BY DEF CalmSince
  <2>2. ~Elevated(G(i)) /\ s[i - 1].state = "alert"
    BY <1>4, <2>1
  <2>3. CASE s[i].calm = s[i].now
    <3>1. i \in 1..i /\ \A k \in i..i : k = i
      BY <1>4
    <3> QED
      BY <2>2, <2>3, <3>1
  <2>4. CASE s[i].calm = s[i - 1].calm
    <3>1. PICK a \in 1..(i - 1) : s[a].now = s[i - 1].calm /\ \A k \in a..(i - 1) : ~Elevated(G(k))
      BY <1>5, <2>1, <2>2, <2>4 DEF CalmSince
    <3>2. a \in 1..i /\ \A k \in a..i : k = i \/ k \in a..(i - 1)
      BY <1>4
    <3> QED
      BY <2>2, <2>4, <3>1, <3>2
  <2> QED
    BY <1>4, <2>1, <2>3, <2>4
<1>6. ASSUME NEW i \in 1..n, CachedSince(cycles, s, i - 1)
      PROVE  CachedSince(cycles, s, i) /\ s[i].cached # Unset
  <2>1. CASE Regenerated(G(i), s[i])
    <3>1. /\ s[i].cached = s[i].now /\ s[i].hash = <<G(i)>> /\ (G(i) # Loads0 => s[i].asked)
      BY <2>1 DEF Regenerated
    <3>2. s[i].now \in Nat
      BY <1>4 DEF ServeStates
    <3>3. i \in 1..i /\ (\A k \in i..i : k = i) /\ (i + 1)..i = {}
      BY <1>4
    <3>4. s[i].cached # Unset
      BY <1>3, <3>1, <3>2
    <3> QED
      BY <3>1, <3>3, <3>4 DEF CachedSince
  <2>2. CASE Shown(s[i - 1], G(i), s[i])
    <3>1. /\ s[i - 1].hash = <<G(i)>> /\ s[i].hash = <<G(i)>> /\ s[i].cached = s[i - 1].cached
          /\ s[i - 1].cached # Unset /\ ~s[i].asked
      BY <2>2 DEF Shown
    <3>2. PICK a \in 1..(i - 1) :
              /\ s[i - 1].cached = s[a].now /\ s[i - 1].hash = <<G(a)>>
              /\ \A k \in a..(i - 1) : G(k) = G(a)
              /\ G(a) # Loads0 => s[a].asked
              /\ \A k \in (a + 1)..(i - 1) : ~s[k].asked
      BY <1>6, <3>1 DEF CachedSince
    <3>3. G(a) = G(i)
      BY <3>1, <3>2
    <3>4. /\ a \in 1..i /\ \A k \in a..i : k = i \/ k \in a..(i - 1)
          /\ \A k \in (a + 1)..i : k = i \/ k \in (a + 1)..(i - 1)
      BY <1>4
    <3>5. (\A k \in a..i : G(k) = G(a)) /\ (\A k \in (a + 1)..i : ~s[k].asked)
      BY <3>1, <3>2, <3>3, <3>4
    <3> QED
      BY <3>1, <3>2, <3>3, <3>4, <3>5 DEF CachedSince
  <2> QED
    BY <1>4, <2>1, <2>2
<1>7. \A k \in 0..n : k \in S
  <2>1. 0 \in S
    BY <1>1, <1>2, <1>3 DEF CalmSince, CachedSince
  <2>2. \A k \in 0..n : k \in S /\ k # n => k + 1 \in S
    <3>1. ASSUME NEW k \in 0..n, k # n PROVE k + 1 \in 1..n /\ (k + 1) - 1 = k /\ k + 1 \in 0..n
      BY <1>2, <3>1
    <3> QED
      BY <1>5, <1>6, <3>1
  <2> HIDE DEF S
  <2> QED
    BY <1>2, <2>1, <2>2, IntervalInduction
<1> SUFFICES ASSUME NEW i \in 1..n
             PROVE  /\ (s[i - 1].state = "alert" /\ s[i].state = "watching") =>
                          \E a \in 1..(i - 1) : /\ \A k \in a..i : ~Elevated(G(k))
                                                /\ s[i].now - s[a].now >= 600
                    /\ (s[i - 1].state = "alert" /\ Elevated(G(i))) => s[i].state # "watching"
                    /\ s[i - 1].state = "degraded" => s[i].state # "alert"
                    /\ (i > 1 /\ G(i) # G(i - 1) /\ G(i) # Loads0) => s[i].asked
                    /\ (G(i) # Loads0 /\ ~s[i].asked) =>
                          LET a == Max({k \in 1..(i - 1) : s[k].asked}) IN
                          s[i].now - s[a].now < 900 /\ \A k \in a..i : G(k) = G(i)
  BY <1>2 DEF SituationFollowed, s
<1>8. CalmSince(cycles, s, i - 1) /\ CachedSince(cycles, s, i - 1) /\ (i - 1 > 0 => s[i - 1].cached # Unset)
  BY <1>4, <1>7
<1>9. ASSUME s[i - 1].state = "alert", s[i].state = "watching"
      PROVE  \E a \in 1..(i - 1) : (\A k \in a..i : ~Elevated(G(k))) /\ s[i].now - s[a].now >= 600
  <2>1. s[i - 1].calm # Unset /\ s[i].now - s[i - 1].calm >= 600 /\ ~Elevated(G(i))
    BY <1>4, <1>9
  <2>2. PICK a \in 1..(i - 1) : s[a].now = s[i - 1].calm /\ \A k \in a..(i - 1) : ~Elevated(G(k))
    BY <1>8, <1>9, <2>1 DEF CalmSince
  <2>3. \A k \in a..i : k = i \/ k \in a..(i - 1)
    BY <1>4
  <2> QED
    BY <2>1, <2>2, <2>3
<1>10. ASSUME i > 1, G(i) # G(i - 1), G(i) # Loads0
       PROVE  s[i].asked
  <2>1. s[i - 1].cached # Unset
    BY <1>4, <1>8, <1>10
  <2>2. PICK a \in 1..(i - 1) : s[i - 1].hash = <<G(a)>> /\ \A k \in a..(i - 1) : G(k) = G(a)
    BY <1>8, <2>1 DEF CachedSince
  <2>3. i - 1 \in a..(i - 1)
    BY <1>4
  <2>4. s[i - 1].hash # <<G(i)>>
    BY <1>10, <2>2, <2>3
  <2>5. Regenerated(G(i), s[i])
    BY <1>4, <2>4 DEF Shown
  <2> QED
    BY <1>10, <2>5 DEF Regenerated
<1>11. ASSUME G(i) # Loads0, ~s[i].asked, NEW m, m = Max({k \in 1..(i - 1) : s[k].asked})
       PROVE  s[i].now - s[m].now < 900 /\ \A k \in m..i : G(k) = G(i)
  <2>1. Shown(s[i - 1], G(i), s[i])
    BY <1>4, <1>11 DEF Regenerated
  <2>2. /\ s[i - 1].hash = <<G(i)>> /\ s[i - 1].cached # Unset /\ s[i].now - s[i - 1].cached < 900
    BY <2>1 DEF Shown
  <2>3. PICK a \in 1..(i - 1) :
            /\ s[i - 1].cached = s[a].now /\ s[i - 1].hash = <<G(a)>>
            /\ \A k \in a..(i - 1) : G(k) = G(a)
            /\ G(a) # Loads0 => s[a].asked
            /\ \A k \in (a + 1)..(i - 1) : ~s[k].asked
    BY <1>8, <2>2 DEF CachedSince
  <2>4. G(a) = G(i) /\ s[a].asked
    BY <1>11, <2>2, <2>3
  <2>5. /\ a \in {k \in 1..(i - 1) : s[k].asked}
        /\ \A k \in {l \in 1..(i - 1) : s[l].asked} : k \in Nat /\ a >= k /\ (k >= a => k = a)
    <3>1. \A k \in 1..(i - 1) : s[k].asked => ~(k \in (a + 1)..(i - 1))
      BY <2>3
    <3> QED
      BY <1>4, <2>4, <3>1
  <2>6. m = a
    <3> DEFINE T == {k \in 1..(i - 1) : s[k].asked}
    <3> HIDE DEF T
    <3>1. a \in T /\ \A k \in T : k \in Nat /\ a >= k /\ (k >= a => k = a)
      BY <2>5 DEF T
    <3>2. \A x \in T : (\A y \in T : x >= y) => x = a
      BY <3>1
    <3>3. m = CHOOSE x \in T : \A y \in T : x >= y
      BY <1>11 DEF Max, T
    <3> QED
      BY <3>1, <3>2, <3>3, Zenon
  <2>7. \A k \in a..i : k = i \/ k \in a..(i - 1)
    BY <1>4
  <2> QED
    BY <2>2, <2>3, <2>4, <2>6, <2>7
<1> QED
  BY <1>4, <1>9, <1>10, <1>11, Zenon

-----------------------------------------------------------------------------
(***************************************************************************)
(* The intake of the polling adapters, for every number of items and every *)
(* size of the seen set.                                                   *)
(***************************************************************************)

PolledItems(Ids) == [id : Ids, complete : BOOLEAN, detail : BOOLEAN]
IntakeStates(Ids) == [seen : Seq(Ids), took : Seq(Ids), yielded : Seq(Ids)]

\* The seen set is the newest of what was taken, each once, all of it until it is full.
Remembers(st) ==
    /\ Len(st.seen) <= Len(st.took) /\ Len(st.seen) <= MaxSeen
    /\ Len(st.seen) < MaxSeen => Len(st.seen) = Len(st.took)
    /\ \A i \in 1..Len(st.seen) : st.seen[i] = st.took[(Len(st.took) - Len(st.seen)) + i]
    /\ \A i, j \in 1..Len(st.seen) : i # j => st.seen[i] # st.seen[j]
TakenApart(took) ==
    \A i, j \in DOMAIN took :
        (i < j /\ took[i] = took[j])
            => Cardinality(ToSet(SubSeq(took, i + 1, j - 1)) \ {took[i]}) >= MaxSeen

\* A sequence without repetition has as many values as places.
LEMMA DistinctCount ==
    ASSUME NEW Ids, NEW s \in Seq(Ids), \A i, j \in 1..Len(s) : i # j => s[i] # s[j]
    PROVE  IsFiniteSet(ToSet(s)) /\ Cardinality(ToSet(s)) = Len(s)
<1>1. Len(s) \in Nat /\ DOMAIN s = 1..Len(s) /\ ToSet(s) = {s[i] : i \in 1..Len(s)}
  BY DEF ToSet
<1> DEFINE f == [i \in 1..Len(s) |-> s[i]]
<1>2. f \in Bijection(1..Len(s), ToSet(s))
  <2>1. f \in [1..Len(s) -> ToSet(s)]
    BY <1>1
  <2>2. \A i, j \in 1..Len(s) : f[i] = f[j] => i = j
    OBVIOUS
  <2>3. \A x \in ToSet(s) : \E i \in 1..Len(s) : f[i] = x
    BY <1>1
  <2> QED
    BY <2>1, <2>2, <2>3 DEF Bijection, Injection, Surjection, IsInjective
<1>3. IsFiniteSet(1..Len(s)) /\ Cardinality(1..Len(s)) = Len(s)
  <2>1. Len(s) >= 1 => Cardinality(1..Len(s)) = (Len(s) - 1) + 1
    BY <1>1, FS_Interval
  <2>2. Len(s) = 0 => Cardinality(1..Len(s)) = 0
    BY FS_EmptySet
  <2>3. IsFiniteSet(1..Len(s))
    BY <1>1, FS_Interval
  <2> QED
    BY <1>1, <2>1, <2>2, <2>3
<1> QED
  BY <1>2, <1>3, FS_Bijection DEF ExistsBijection

\* Taking one more that is not seen.
LEMMA TakeStep ==
    ASSUME NEW Ids, NEW st \in IntakeStates(Ids), Remembers(st), TakenApart(st.took),
           NEW x \in Ids, x \notin ToSet(st.seen),
           NEW next, next.seen = Add(st.seen, x), next.took = Append(st.took, x)
    PROVE  Remembers(next) /\ TakenApart(next.took) /\ next.seen \in Seq(Ids)
<1> DEFINE seen == st.seen
           took == st.took
           n == Len(seen)
           m == Len(took)
<1>1. /\ seen \in Seq(Ids) /\ took \in Seq(Ids) /\ n \in Nat /\ m \in Nat
      /\ DOMAIN seen = 1..n /\ DOMAIN took = 1..m /\ MaxSeen \in Nat /\ MaxSeen > 0
  BY SeenAssumption DEF IntakeStates
<1>2. /\ n \in Nat /\ m \in Nat /\ MaxSeen \in Nat /\ MaxSeen > 0
      /\ n <= m /\ n <= MaxSeen /\ (n < MaxSeen => n = m)
  BY <1>1 DEF Remembers
<1>10. /\ \A i \in 1..n : seen[i] = took[(m - n) + i]
       /\ \A i, j \in 1..n : i # j => seen[i] # seen[j]
  BY DEF Remembers
<1>3. ToSet(seen) = {seen[i] : i \in 1..n} /\ \A i \in 1..n : seen[i] # x
  BY <1>1 DEF ToSet
<1>4. next.seen = Append(IF n >= MaxSeen THEN Tail(seen) ELSE seen, x)
  BY DEF Add
<1>5. next.took = Append(took, x)
  OBVIOUS
<1> HIDE DEF seen, took
<1>6. /\ next.took \in Seq(Ids) /\ Len(next.took) = m + 1 /\ next.took[m + 1] = x
      /\ \A i \in 1..m : next.took[i] = took[i]
  BY <1>1, <1>5
<1> HIDE DEF n, m
<1>7. Remembers(next) /\ next.seen \in Seq(Ids)
  <2>1. CASE n < MaxSeen
    <3>1. next.seen = Append(seen, x)
      BY <1>1, <1>4, <2>1
    <3>2. /\ next.seen \in Seq(Ids) /\ Len(next.seen) = n + 1 /\ next.seen[n + 1] = x
          /\ \A i \in 1..n : next.seen[i] = seen[i]
      BY <1>1, <3>1 DEF n
    <3>3. \A i \in 1..(n + 1) : i \in 1..n \/ i = n + 1
      BY <1>1
    <3>4. \A i \in 1..(n + 1) : next.seen[i] = next.took[((m + 1) - (n + 1)) + i]
      <4>1. \A i \in 1..n : ((m + 1) - (n + 1)) + i = i /\ (m - n) + i = i /\ i \in 1..m
        BY <1>2, <2>1
      <4>2. ((m + 1) - (n + 1)) + (n + 1) = m + 1
        BY <1>1
      <4> QED
        BY <1>6, <1>10, <3>2, <3>3, <4>1, <4>2
    <3>5. \A i, j \in 1..(n + 1) : i # j => next.seen[i] # next.seen[j]
      BY <1>3, <1>10, <3>2, <3>3
    <3>6. n + 1 <= m + 1 /\ n + 1 <= MaxSeen /\ n + 1 = m + 1
      BY <1>2, <2>1
    <3> QED
      BY <1>6, <3>2, <3>4, <3>5, <3>6 DEF Remembers
  <2>2. CASE n = MaxSeen
    <3>1. next.seen = Append(Tail(seen), x) /\ seen # << >>
      BY <1>1, <1>4, <2>2
    <3>2. /\ Tail(seen) \in Seq(Ids) /\ Len(Tail(seen)) = n - 1
          /\ \A i \in 1..(n - 1) : Tail(seen)[i] = seen[i + 1]
      BY <1>1, <3>1
    <3>3. /\ next.seen \in Seq(Ids) /\ Len(next.seen) = n /\ next.seen[n] = x
          /\ \A i \in 1..(n - 1) : next.seen[i] = seen[i + 1]
      <4>1. Len(Append(Tail(seen), x)) = (n - 1) + 1 /\ (n - 1) + 1 = n /\ n - 1 \in Nat
        BY <1>1, <2>2, <3>2
      <4> QED
        BY <3>1, <3>2, <4>1
    <3>4. \A i \in 1..n : (i \in 1..(n - 1) /\ i + 1 \in 1..n) \/ i = n
      BY <1>2
    <3>5. \A i \in 1..n : next.seen[i] = next.took[((m + 1) - n) + i]
      <4>1. \A i \in 1..(n - 1) : /\ ((m + 1) - n) + i = (m - n) + (i + 1)
                                  /\ (m - n) + (i + 1) \in 1..m /\ i + 1 \in 1..n
        BY <1>2
      <4>2. ((m + 1) - n) + n = m + 1
        BY <1>2
      <4>3. ASSUME NEW i \in 1..(n - 1)
            PROVE  next.seen[i] = next.took[((m + 1) - n) + i]
        <5>1. next.seen[i] = took[(m - n) + (i + 1)]
          BY <1>10, <3>3, <4>1
        <5> QED
          BY <1>6, <4>1, <5>1
      <4>4. next.seen[n] = next.took[((m + 1) - n) + n]
        BY <1>6, <3>3, <4>2
      <4> QED
        BY <3>4, <4>3, <4>4
    <3>6. \A i, j \in 1..n : i # j => next.seen[i] # next.seen[j]
      <4>1. \A i, j \in 1..(n - 1) : i # j => i + 1 # j + 1
        BY <1>1
      <4> QED
        BY <1>3, <1>10, <3>3, <3>4, <4>1
    <3>7. n <= m + 1 /\ n <= MaxSeen /\ ~(n < MaxSeen)
      BY <1>2, <2>2
    <3> QED
      BY <1>6, <3>3, <3>5, <3>6, <3>7 DEF Remembers
  <2> QED
    BY <1>2, <2>1, <2>2
<1>8. ASSUME NEW i \in 1..(m + 1), NEW j \in 1..(m + 1), i < j, next.took[i] = next.took[j]
      PROVE  Cardinality(ToSet(SubSeq(next.took, i + 1, j - 1)) \ {next.took[i]}) >= MaxSeen
  <2>1. i \in 1..m /\ SubSeq(next.took, i + 1, j - 1) = SubSeq(took, i + 1, j - 1)
    <3>1. i \in 1..m
      BY <1>1, <1>8
    <3>2. \A k \in (i + 1)..(j - 1) : k \in 1..m
      BY <1>1, <1>8
    <3>3. /\ SubSeq(next.took, i + 1, j - 1) = [k \in 1..(((j - 1) - (i + 1)) + 1) |-> next.took[((i + 1) + k) - 1]]
          /\ SubSeq(took, i + 1, j - 1) = [k \in 1..(((j - 1) - (i + 1)) + 1) |-> took[((i + 1) + k) - 1]]
      BY <1>1, <1>6, <1>8 DEF SubSeq
    <3>4. \A k \in 1..(((j - 1) - (i + 1)) + 1) : ((i + 1) + k) - 1 \in 1..m
      BY <1>1, <1>8
    <3> QED
      BY <1>6, <3>1, <3>3, <3>4
  <2>2. CASE j # m + 1
    <3>1. j \in 1..m /\ took[i] = took[j] /\ next.took[i] = took[i]
      BY <1>1, <1>6, <1>8, <2>1, <2>2
    <3>2. Cardinality(ToSet(SubSeq(took, i + 1, j - 1)) \ {took[i]}) >= MaxSeen
      BY <1>1, <1>8, <2>1, <3>1 DEF TakenApart, took
    <3> QED
      BY <2>1, <3>1, <3>2
  <2>3. CASE j = m + 1
    <3> DEFINE between == SubSeq(took, i + 1, m)
    <3>1. took[i] = x /\ next.took[i] = x /\ j - 1 = m
      BY <1>1, <1>6, <1>8, <2>1, <2>3
    <3>2. i <= m - n
      <4>1. SUFFICES ASSUME i > m - n PROVE FALSE
        BY <1>1, <2>1
      <4>2. i - (m - n) \in 1..n /\ (m - n) + (i - (m - n)) = i
        BY <1>2, <2>1, <4>1
      <4>3. seen[i - (m - n)] = took[i]
        BY <1>10, <4>2
      <4> QED
        BY <1>3, <3>1, <4>2, <4>3
    <3>3. n = MaxSeen
      BY <1>2, <2>1, <3>2
    <3>4. \A k \in 1..n : seen[k] \in ToSet(between)
      <4> SUFFICES ASSUME NEW k \in 1..n PROVE seen[k] \in ToSet(between)
        OBVIOUS
      <4>1. (m - n) + k \in (i + 1)..m /\ ((m - n) + k) - i \in 1..(m - i)
        BY <1>2, <2>1, <3>2
      <4>2. between = [l \in 1..((m - (i + 1)) + 1) |-> took[((i + 1) + l) - 1]]
        BY <1>2, <2>1 DEF SubSeq
      <4>3. (m - (i + 1)) + 1 = m - i /\ ((i + 1) + (((m - n) + k) - i)) - 1 = (m - n) + k
        BY <1>1, <2>1
      <4>4. DOMAIN between = 1..(m - i) /\ between[((m - n) + k) - i] = took[(m - n) + k]
        BY <4>1, <4>2, <4>3
      <4> QED
        BY <1>10, <4>1, <4>4 DEF ToSet
    <3>5. ToSet(seen) \subseteq ToSet(between) \ {x}
      BY <1>3, <3>4
    <3>6. IsFiniteSet(ToSet(between))
      <4>1. between = [l \in 1..((m - (i + 1)) + 1) |-> took[((i + 1) + l) - 1]]
        BY <1>2, <2>1 DEF SubSeq
      <4>2. DOMAIN between = 1..(m - i) /\ m - i \in Int
        BY <1>1, <2>1, <4>1
      <4> HIDE DEF between
      <4>3. /\ [l \in 1..(m - i) |-> between[l]] \in Surjection(1..(m - i), ToSet(between))
        BY <4>2 DEF ToSet, Surjection
      <4>4. IsFiniteSet(1..(m - i))
        BY <4>2, FS_Interval
      <4> QED
        BY <4>3, <4>4, FS_Surjection DEF ExistsSurjection
    <3>7. IsFiniteSet(ToSet(between) \ {x})
      BY <3>6, FS_Difference
    <3>8. IsFiniteSet(ToSet(seen)) /\ Cardinality(ToSet(seen)) = n
      BY <1>1, <1>10, DistinctCount DEF n
    <3> DEFINE A == ToSet(seen)
               B == ToSet(between) \ {x}
    <3> HIDE DEF A, B
    <3>9. Cardinality(A) <= Cardinality(B)
      BY <3>5, <3>7, FS_Subset DEF A, B
    <3>10. Cardinality(B) >= MaxSeen
      <4>1. Cardinality(A) = MaxSeen /\ Cardinality(B) \in Nat
        BY <3>3, <3>7, <3>8, FS_CardinalityType DEF A, B
      <4> QED
        BY <1>1, <3>9, <4>1
    <3> QED
      BY <2>1, <3>1, <3>10 DEF B
  <2> QED
    BY <2>2, <2>3
<1>9. DOMAIN next.took = 1..(m + 1)
  BY <1>1, <1>6
<1> QED
  BY <1>7, <1>8, <1>9 DEF TakenApart

\* What is seen was taken.
LEMMA SeenWasTaken ==
    ASSUME NEW Ids, NEW st \in IntakeStates(Ids), Remembers(st)
    PROVE  ToSet(st.seen) \subseteq ToSet(st.took)
<1> DEFINE n == Len(st.seen)
           m == Len(st.took)
<1>1. /\ n \in Nat /\ m \in Nat /\ DOMAIN st.seen = 1..n /\ DOMAIN st.took = 1..m
  BY DEF IntakeStates
<1>2. n <= m /\ \A i \in 1..n : st.seen[i] = st.took[(m - n) + i]
  BY DEF Remembers
<1> HIDE DEF n, m
<1>3. \A i \in 1..n : (m - n) + i \in 1..m
  BY <1>1, <1>2
<1> QED
  BY <1>1, <1>2, <1>3 DEF ToSet

LEMMA ReceiveType ==
    ASSUME NEW Ids, NEW st \in IntakeStates(Ids), NEW x \in PolledItems(Ids)
    PROVE  Receive(st, x) \in IntakeStates(Ids)
<1>1. x.id \in Ids /\ st.seen \in Seq(Ids) /\ st.took \in Seq(Ids) /\ st.yielded \in Seq(Ids)
  BY DEF PolledItems, IntakeStates
<1>2. Append(st.took, x.id) \in Seq(Ids) /\ Append(st.yielded, x.id) \in Seq(Ids)
  BY <1>1
<1>3. Add(st.seen, x.id) \in Seq(Ids)
  <2>1. CASE st.seen = << >>
    <3>1. Len(st.seen) = 0 /\ ~(Len(st.seen) >= MaxSeen)
      BY <2>1, SeenAssumption
    <3> QED
      BY <1>1, <3>1 DEF Add
  <2>2. CASE st.seen # << >>
    <3>1. Tail(st.seen) \in Seq(Ids)
      BY <1>1, <2>2
    <3> QED
      BY <1>1, <3>1 DEF Add
  <2> QED
    BY <2>1, <2>2
<1> QED
  BY <1>1, <1>2, <1>3 DEF Receive, IntakeStates

\* f is the function of what every item leaves behind.
Receives(f, items) ==
    f = [i \in 0..Len(items) |-> IF i = 0 THEN NothingSeen ELSE Receive(f[i - 1], items[i])]

LEMMA ReceivesExist ==
    ASSUME NEW Ids, NEW items \in Seq(PolledItems(Ids))
    PROVE  \E g : Receives(g, items)
<1> DEFINE n == Len(items)
           I == IntakeStates(Ids)
           P == PolledItems(Ids)
           step == [p \in I \X P |-> Receive(p[1], p[2])]
<1>1. n \in Nat /\ items \in [1..n -> P]
  OBVIOUS
<1>2. NothingSeen \in I
  BY DEF NothingSeen, IntakeStates
<1>3. \A st \in I, x \in P : Receive(st, x) \in I
  BY ReceiveType
<1>4. step \in [I \X P -> I]
  BY <1>3
<1>5. \A st \in I, x \in P : step[st, x] = Receive(st, x)
  OBVIOUS
<1> HIDE DEF step, n, I, P
<1>6. PICK g \in [0..n -> I] :
         g[0] = NothingSeen /\ \A i \in 1..n : g[i] = step[g[i - 1], items[i]]
  <2>1. \E g \in [0..n -> I] : Iterates(g, NothingSeen, step, n, items)
    BY <1>1, <1>2, <1>4, IterationExists
  <2> QED
    BY <2>1, Zenon DEF Iterates
<1>7. ASSUME NEW i \in 0..n
      PROVE  g[i] = IF i = 0 THEN NothingSeen ELSE Receive(g[i - 1], items[i])
  <2>1. i # 0 => i \in 1..n /\ i - 1 \in 0..n
    BY <1>1
  <2>2. i # 0 => g[i - 1] \in I /\ items[i] \in P
    BY <1>1, <2>1
  <2> QED
    BY <1>5, <1>6, <2>1, <2>2
<1>8. g = [i \in 0..n |-> IF i = 0 THEN NothingSeen ELSE Receive(g[i - 1], items[i])]
  BY <1>7
<1> QED
  BY <1>8 DEF Receives, n

\* What is taken after the first k items.
CompleteAmong(items, k) == {items[j].id : j \in {l \in 1..k : items[l].complete}}
TakenAfter(st, items, k) ==
    /\ Remembers(st) /\ TakenApart(st.took)
    /\ ToSet(st.took) = CompleteAmong(items, k)
    /\ (\A j \in 1..k : items[j].detail) => st.yielded = st.took

LEMMA ReceiveStep ==
    ASSUME NEW Ids, NEW items \in Seq(PolledItems(Ids)), NEW k \in 0..Len(items), k # Len(items),
           NEW st \in IntakeStates(Ids), TakenAfter(st, items, k)
    PROVE  TakenAfter(Receive(st, items[k + 1]), items, k + 1)
<1> DEFINE x == items[k + 1]
           next == Receive(st, x)
<1>1. /\ Len(items) \in Nat /\ k + 1 \in 1..Len(items) /\ (\A l \in 1..(k + 1) : l \in 1..k \/ l = k + 1)
      /\ 1..k \subseteq 1..(k + 1) /\ k + 1 \in 1..(k + 1)
  OBVIOUS
<1>2. x \in PolledItems(Ids) /\ x.id \in Ids /\ x.complete \in BOOLEAN
  <2>1. x \in PolledItems(Ids)
    BY <1>1, ElementOfSeq
  <2> QED
    BY <2>1 DEF PolledItems
<1>3. /\ Remembers(st) /\ TakenApart(st.took) /\ ToSet(st.took) = CompleteAmong(items, k)
      /\ (\A j \in 1..k : items[j].detail) => st.yielded = st.took
  BY DEF TakenAfter
<1>4. CompleteAmong(items, k + 1) =
         IF x.complete THEN CompleteAmong(items, k) \union {x.id} ELSE CompleteAmong(items, k)
  BY <1>1 DEF CompleteAmong
<1>5. (\A j \in 1..(k + 1) : items[j].detail) => x.detail /\ \A j \in 1..k : items[j].detail
  BY <1>1
<1>6. CASE x.id \in ToSet(st.seen) \/ ~x.complete
  <2>1. next = st
    BY <1>6 DEF Receive
  <2>2. x.complete => x.id \in CompleteAmong(items, k)
    BY <1>3, <1>6, SeenWasTaken
  <2>3. CompleteAmong(items, k + 1) = CompleteAmong(items, k)
    BY <1>4, <2>2
  <2> QED
    BY <1>3, <1>5, <2>1, <2>3 DEF TakenAfter
<1>7. CASE x.id \notin ToSet(st.seen) /\ x.complete
  <2>1. /\ next.seen = Add(st.seen, x.id) /\ next.took = Append(st.took, x.id)
        /\ next.yielded = IF x.detail THEN Append(st.yielded, x.id) ELSE st.yielded
    BY <1>7 DEF Receive
  <2> HIDE DEF next, x
  <2>2. Remembers(next) /\ TakenApart(next.took)
    BY <1>2, <1>3, <1>7, <2>1, TakeStep
  <2>3. ToSet(next.took) = ToSet(st.took) \union {x.id}
    <3>1. st.took \in Seq(Ids)
      BY DEF IntakeStates
    <3>2. /\ Len(st.took) \in Nat /\ DOMAIN st.took = 1..Len(st.took)
          /\ DOMAIN next.took = 1..(Len(st.took) + 1) /\ next.took[Len(st.took) + 1] = x.id
          /\ \A i \in 1..Len(st.took) : next.took[i] = st.took[i]
      BY <1>2, <2>1, <3>1
    <3>3. \A i \in 1..(Len(st.took) + 1) : i \in 1..Len(st.took) \/ i = Len(st.took) + 1
      BY <3>2
    <3>4. 1..Len(st.took) \subseteq 1..(Len(st.took) + 1) /\ Len(st.took) + 1 \in 1..(Len(st.took) + 1)
      BY <3>2
    <3> HIDE DEF next
    <3>5. \A y \in ToSet(next.took) : y \in ToSet(st.took) \union {x.id}
      BY <3>2, <3>3 DEF ToSet
    <3>6. \A y \in ToSet(st.took) \union {x.id} : y \in ToSet(next.took)
      BY <3>2, <3>4 DEF ToSet
    <3> QED
      BY <3>5, <3>6
  <2>4. ToSet(next.took) = CompleteAmong(items, k + 1)
    BY <1>3, <1>4, <1>7, <2>3
  <2>5. (\A j \in 1..(k + 1) : items[j].detail) => next.yielded = next.took
    BY <1>3, <1>5, <2>1
  <2> QED
    BY <2>2, <2>4, <2>5 DEF TakenAfter, next, x
<1> QED
  BY <1>2, <1>6, <1>7

\* What the polls of an adapter come to, whatever was polled and however small the seen
\* set: every completed item is taken, none a second time unless a whole seen set of
\* others was taken in between, and all that is taken is handed on when no detail is lost.
THEOREM TakenOnce ==
    ASSUME NEW Ids, call.about = "polling" => call.items \in Seq(PolledItems(Ids))
    PROVE  IntakeTakesEachOnce
<1> SUFFICES ASSUME call.about = "polling" PROVE IntakeTakesEachOnce
  BY DEF IntakeTakesEachOnce
<1> DEFINE items == call.items
           n == Len(items)
           s == Received(items)
           S == {k \in 0..n : s[k] \in IntakeStates(Ids) /\ TakenAfter(s[k], items, k)}
<1>1. items \in Seq(PolledItems(Ids)) /\ n \in Nat /\ DOMAIN items = 1..n
  OBVIOUS
<1>2. Receives(s, items)
  <2>1. s = CHOOSE g : Receives(g, items)
    BY Zenon DEF Received, Receives
  <2> HIDE DEF items
  <2>2. \E g : Receives(g, items)
    BY <1>1, ReceivesExist
  <2> QED
    BY <2>1, <2>2, Zenon
<1> HIDE DEF s, items
<1>3. s[0] = NothingSeen /\ \A i \in 1..n : s[i] = Receive(s[i - 1], items[i])
  <2>1. 0 \in 0..n /\ \A i \in 1..n : i \in 0..n /\ i # 0
    BY <1>1
  <2> QED
    BY <1>2, <2>1 DEF Receives
<1>4. 0 \in S
  <2>1. NothingSeen \in IntakeStates(Ids)
    BY DEF NothingSeen, IntakeStates
  <2>2. Remembers(NothingSeen)
    BY SeenAssumption DEF NothingSeen, Remembers
  <2>3. TakenApart(NothingSeen.took) /\ ToSet(NothingSeen.took) = {}
    BY DEF NothingSeen, TakenApart, ToSet
  <2>4. CompleteAmong(items, 0) = {} /\ NothingSeen.yielded = NothingSeen.took
    BY DEF CompleteAmong, NothingSeen
  <2>5. TakenAfter(NothingSeen, items, 0)
    BY <2>2, <2>3, <2>4 DEF TakenAfter
  <2> QED
    BY <1>1, <1>3, <2>1, <2>5
<1>5. ASSUME NEW k \in 0..n, k \in S, k # n PROVE k + 1 \in S
  <2>1. k + 1 \in 1..n /\ k + 1 \in 0..n /\ (k + 1) - 1 = k
    <3> HIDE DEF n, S
    <3> QED
      BY <1>1, <1>5
  <2>6. items[k + 1] \in PolledItems(Ids)
    BY <1>1, <2>1, ElementOfSeq
  <2>2. s[k] \in IntakeStates(Ids) /\ TakenAfter(s[k], items, k)
    BY <1>5
  <2>3. s[k + 1] = Receive(s[k], items[k + 1])
    BY <1>3, <2>1
  <2>4. s[k + 1] \in IntakeStates(Ids)
    BY <2>2, <2>3, <2>6, ReceiveType
  <2>5. TakenAfter(s[k + 1], items, k + 1)
    BY <1>1, <1>5, <2>2, <2>3, ReceiveStep
  <2> QED
    BY <2>1, <2>4, <2>5
<1>6. n \in S
  <2>1. 0 \in Nat /\ n \in 0..n
    BY <1>1
  <2> HIDE DEF S, n
  <2>2. \A k \in 0..n : k \in S
    BY <1>1, <1>4, <1>5, <2>1, IntervalInduction
  <2> QED
    BY <2>1, <2>2
<1>7. TakenAfter(s[n], items, n)
  BY <1>6
<1>8. ReceiveAll(items) = s[n]
  BY DEF ReceiveAll, s
<1> DEFINE r == s[n]
<1> HIDE DEF n
<1>9. ToSet(r.took) = {items[i].id : i \in {j \in DOMAIN items : items[j].complete}}
  BY <1>1, <1>7 DEF TakenAfter, CompleteAmong
<1>10. TakenApart(r.took) /\ ((\A k \in DOMAIN items : items[k].detail) => r.yielded = r.took)
  BY <1>1, <1>7 DEF TakenAfter
<1> QED
  BY <1>8, <1>9, <1>10 DEF IntakeTakesEachOnce, TakenApart, items

-----------------------------------------------------------------------------
(***************************************************************************)
(* The operator's walk, for every number of recommendations, whatever ids  *)
(* they share, and any number of keys.                                     *)
(***************************************************************************)

Keys == {"accept", "reject", "modify", "misedit", "next", "prev"}
Deciding == {"accept", "reject", "modify"}
Walks(Ids, n) == [index : 1..(n + 1), accepted : SUBSET Ids, modified : SUBSET Ids]

\* The smaller and the greater of two numbers.
LEMMA MinOfTwo == ASSUME NEW a \in Int, NEW b \in Int
                  PROVE  Min({a, b}) = IF a <= b THEN a ELSE b
  BY DEF Min
LEMMA MaxOfTwo == ASSUME NEW a \in Int, NEW b \in Int
                  PROVE  Max({a, b}) = IF a <= b THEN b ELSE a
  BY DEF Max

\* A set of numbers that has a bound and is not empty has a greatest number.
LEMMA MaxInSet ==
    ASSUME NEW n \in Nat, NEW S \in SUBSET (0..n), S # {}
    PROVE  Max(S) \in S /\ \A y \in S : y <= Max(S)
<1> DEFINE Has(U) == \E x \in U : \A y \in U : x >= y
           T == {m \in Nat : \A U \in SUBSET (0..m) : U # {} => Has(U)}
<1>1. 0 \in T
  <2>0. \A y \in 0..0 : y = 0
    OBVIOUS
  <2>1. \A U \in SUBSET (0..0) : U # {} => 0 \in U /\ \A y \in U : y = 0
    BY <2>0
  <2> QED
    BY <2>1
<1>2. ASSUME NEW m \in T PROVE m + 1 \in T
  <2> SUFFICES ASSUME NEW U \in SUBSET (0..(m + 1)), U # {} PROVE Has(U)
    BY <1>2
  <2>1. CASE m + 1 \in U
    <3>1. \A y \in U : m + 1 >= y
      BY <1>2
    <3> QED
      BY <2>1, <3>1
  <2>2. CASE m + 1 \notin U
    <3>1. U \in SUBSET (0..m)
      <4>1. \A y \in U : y \in 0..(m + 1) /\ y # m + 1
        BY <2>2
      <4>2. \A y \in 0..(m + 1) : y # m + 1 => y \in 0..m
        BY <1>2
      <4> QED
        BY <4>1, <4>2
    <3> QED
      BY <1>2, <3>1
  <2> QED
    BY <2>1, <2>2
<1>3. T = Nat
  <2> HIDE DEF Has
  <2>1. T \in SUBSET Nat
    OBVIOUS
  <2> HIDE DEF T
  <2> QED
    BY <1>1, <1>2, <2>1, Induction
<1>4. Has(S)
  <2> HIDE DEF Has
  <2> QED
    BY <1>3
<1>5. Max(S) \in S /\ \A y \in S : Max(S) >= y
  BY <1>4, Zenon DEF Max
<1>6. \A y \in S : y \in Int
  OBVIOUS
<1>7. Max(S) \in Int
  BY <1>5, <1>6
<1> DEFINE top == Max(S)
<1> HIDE DEF top
<1>8. \A y \in S : y <= top
  BY <1>5, <1>6, <1>7 DEF top
<1> QED
  BY <1>5, <1>8 DEF top

\* What a key does to the two sets of ids.
Decides(w, key, ids) == key \in Deciding /\ w.index \in DOMAIN ids
Pressed(w, key, ids, next) ==
    LET here == ids[w.index]
    IN  /\ ~Decides(w, key, ids) => next.accepted = w.accepted /\ next.modified = w.modified
        /\ Decides(w, key, ids) =>
             /\ next.accepted = IF key = "reject" THEN w.accepted \ {here}
                                ELSE w.accepted \union {here}
             /\ next.modified = IF key = "reject" THEN w.modified \ {here}
                                ELSE IF key = "modify" THEN w.modified \union {here}
                                ELSE w.modified

LEMMA PressEffect ==
    ASSUME NEW Ids, NEW ids \in Seq(Ids), NEW w \in Walks(Ids, Len(ids)), NEW key \in Keys
    PROVE  Press(w, key, ids) \in Walks(Ids, Len(ids)) /\ Pressed(w, key, ids, Press(w, key, ids))
<1> DEFINE n == Len(ids)
           next == Press(w, key, ids)
           here == ids[w.index]
           decides == key \in Deciding /\ w.index \in DOMAIN ids
<1>1. /\ n \in Nat /\ DOMAIN ids = 1..n /\ w.index \in 1..(n + 1)
      /\ w.accepted \in SUBSET Ids /\ w.modified \in SUBSET Ids
  BY DEF Walks
<1>2. ASSUME NEW v \in Walks(Ids, n)
      PROVE  /\ Advanced(v, ids) \in Walks(Ids, n)
             /\ Advanced(v, ids).accepted = v.accepted /\ Advanced(v, ids).modified = v.modified
  <2>1. v.index \in 1..(n + 1) /\ v.accepted \in SUBSET Ids /\ v.modified \in SUBSET Ids
    BY DEF Walks
  <2>2. PICK j \in 1..(n + 1) : j = Min({v.index + 1, n + 1})
    <3>1. v.index + 1 \in Int /\ n + 1 \in Int
      BY <1>1, <2>1
    <3>2. Min({v.index + 1, n + 1}) = IF v.index + 1 <= n + 1 THEN v.index + 1 ELSE n + 1
      BY <3>1, MinOfTwo
    <3> QED
      BY <1>1, <2>1, <3>2
  <2>3. Advanced(v, ids) = [v EXCEPT !.index = j]
    BY <2>2 DEF Advanced
  <2> HIDE DEF n
  <2> QED
    BY <2>1, <2>3 DEF Walks
<1>3. [w EXCEPT !.index = Max({1, w.index - 1})] \in Walks(Ids, n)
  <2>1. PICK j \in 1..(n + 1) : j = Max({1, w.index - 1})
    <3>1. Max({1, w.index - 1}) = IF 1 <= w.index - 1 THEN w.index - 1 ELSE 1
      BY <1>1, MaxOfTwo
    <3> QED
      BY <1>1, <3>1
  <2> HIDE DEF n
  <2> QED
    BY <2>1 DEF Walks
<1>4. CASE ~decides
  <2>1. \/ next = Advanced(w, ids)
        \/ next = [w EXCEPT !.index = Max({1, w.index - 1})]
        \/ next = w
    BY <1>4 DEF Press, Keys, Deciding
  <2> HIDE DEF next, n
  <2>2. next \in Walks(Ids, n) /\ next.accepted = w.accepted /\ next.modified = w.modified
    BY <1>2, <1>3, <2>1 DEF Walks, n
  <2> QED
    BY <1>4, <2>2 DEF next, n, Pressed, Decides
<1>5. CASE decides
  <2>1. here \in Ids
    BY <1>1, <1>5
  <2> DEFINE acc == IF key = "reject" THEN w.accepted \ {here} ELSE w.accepted \union {here}
             edit == IF key = "reject" THEN w.modified \ {here}
                     ELSE IF key = "modify" THEN w.modified \union {here} ELSE w.modified
             v == [w EXCEPT !.accepted = acc, !.modified = edit]
  <2>2. acc \in SUBSET Ids /\ edit \in SUBSET Ids
    BY <1>1, <2>1
  <2>3. next = Advanced(v, ids)
    <3>1. CASE key = "accept"
      <4>1. next = Advanced([w EXCEPT !.accepted = w.accepted \union {here}], ids)
        BY <1>5, <3>1 DEF Press
      <4>2. v = [w EXCEPT !.accepted = w.accepted \union {here}]
        BY <1>1, <3>1 DEF Walks
      <4> QED
        BY <4>1, <4>2
    <3>2. CASE key = "reject"
      BY <1>5, <3>2 DEF Press
    <3>3. CASE key = "modify"
      BY <1>5, <3>3 DEF Press
    <3> QED
      BY <1>5, <3>1, <3>2, <3>3 DEF Deciding
  <2> HIDE DEF acc, edit, n
  <2>4. v \in Walks(Ids, n) /\ v.accepted = acc /\ v.modified = edit
    BY <1>1, <2>2 DEF Walks
  <2> HIDE DEF v, next
  <2>5. next \in Walks(Ids, n) /\ next.accepted = acc /\ next.modified = edit
    BY <1>2, <2>3, <2>4
  <2> QED
    BY <1>5, <2>5 DEF acc, edit, next, n, Pressed, Decides
<1> QED
  BY <1>4, <1>5
\* f is the function of the walk's states.
Walking(f, keys, ids) ==
    f = [k \in 0..Len(keys) |-> IF k = 0 THEN Walk0 ELSE Press(f[k - 1], keys[k], ids)]

LEMMA WalksExist ==
    ASSUME NEW Ids, NEW ids \in Seq(Ids), NEW keys \in Seq(Keys)
    PROVE  \E g : Walking(g, keys, ids)
<1> DEFINE n == Len(keys)
           W == Walks(Ids, Len(ids))
           step == [p \in W \X Keys |-> Press(p[1], p[2], ids)]
<1>1. n \in Nat /\ keys \in [1..n -> Keys]
  OBVIOUS
<1>2. Walk0 \in W
  <2>1. Len(ids) \in Nat
    OBVIOUS
  <2>2. 1 \in 1..(Len(ids) + 1)
    BY <2>1
  <2> QED
    BY <2>2 DEF Walk0, Walks
<1>3. \A w \in W, key \in Keys : Press(w, key, ids) \in W
  BY PressEffect
<1>4. step \in [W \X Keys -> W]
  BY <1>3
<1>5. \A w \in W, key \in Keys : step[w, key] = Press(w, key, ids)
  OBVIOUS
<1> HIDE DEF step, n, W
<1>6. PICK g \in [0..n -> W] : g[0] = Walk0 /\ \A i \in 1..n : g[i] = step[g[i - 1], keys[i]]
  <2>1. \E g \in [0..n -> W] : Iterates(g, Walk0, step, n, keys)
    BY <1>1, <1>2, <1>4, IterationExists
  <2> QED
    BY <2>1, Zenon DEF Iterates
<1>7. ASSUME NEW i \in 0..n
      PROVE  g[i] = IF i = 0 THEN Walk0 ELSE Press(g[i - 1], keys[i], ids)
  <2>1. i # 0 => i \in 1..n /\ i - 1 \in 0..n
    BY <1>1
  <2>2. i # 0 => g[i - 1] \in W /\ keys[i] \in Keys
    BY <1>1, <2>1
  <2> QED
    BY <1>5, <1>6, <2>1, <2>2
<1>8. g = [i \in 0..n |-> IF i = 0 THEN Walk0 ELSE Press(g[i - 1], keys[i], ids)]
  BY <1>7
<1> QED
  BY <1>8 DEF Walking, n

\* The decisions about the id x among the first k keys, and what they come to.
DecidedOn(walk, keys, ids, x, k) ==
    {j \in 1..k : /\ keys[j] \in Deciding
                  /\ walk[j - 1].index \in DOMAIN ids /\ ids[walk[j - 1].index] = x}
LastAccepts(ds, keys) == \E j \in ds : keys[j] # "reject" /\ \A l \in ds : l <= j
EditStands(ds, keys) == \E j \in ds : keys[j] = "modify" /\ \A l \in ds : l > j => keys[l] # "reject"
DecisionsStand(walk, keys, ids, k) ==
    \A x : LET ds == DecidedOn(walk, keys, ids, x, k)
           IN  /\ x \in walk[k].accepted <=> LastAccepts(ds, keys)
               /\ x \in walk[k].modified <=> EditStands(ds, keys)

LEMMA DecisionStep ==
    ASSUME NEW Ids, NEW ids \in Seq(Ids), NEW keys \in Seq(Keys), NEW walk,
           NEW k \in 0..Len(keys), k # Len(keys), walk[k] \in Walks(Ids, Len(ids)),
           walk[k + 1] = Press(walk[k], keys[k + 1], ids), DecisionsStand(walk, keys, ids, k)
    PROVE  DecisionsStand(walk, keys, ids, k + 1)
<1> SUFFICES ASSUME NEW x
             PROVE  LET ds == DecidedOn(walk, keys, ids, x, k + 1)
                    IN  /\ x \in walk[k + 1].accepted <=> LastAccepts(ds, keys)
                        /\ x \in walk[k + 1].modified <=> EditStands(ds, keys)
  BY Zenon DEF DecisionsStand
<1> DEFINE key == keys[k + 1]
           w == walk[k]
           decides == key \in Deciding /\ w.index \in DOMAIN ids
           here == ids[w.index]
           old == DecidedOn(walk, keys, ids, x, k)
           new == DecidedOn(walk, keys, ids, x, k + 1)
<1>1. k \in Nat /\ k + 1 \in 1..Len(keys) /\ (k + 1) - 1 = k /\ Len(keys) \in Nat
  OBVIOUS
<1>2. key \in Keys
  BY <1>1, ElementOfSeq
<1>3. /\ ~decides => walk[k + 1].accepted = w.accepted /\ walk[k + 1].modified = w.modified
      /\ decides =>
           /\ walk[k + 1].accepted = IF key = "reject" THEN w.accepted \ {here}
                                     ELSE w.accepted \union {here}
           /\ walk[k + 1].modified = IF key = "reject" THEN w.modified \ {here}
                                     ELSE IF key = "modify" THEN w.modified \union {here}
                                     ELSE w.modified
  <2>1. w \in Walks(Ids, Len(ids)) /\ walk[k + 1] = Press(w, key, ids)
    OBVIOUS
  <2> HIDE DEF w, key
  <2>2. Pressed(w, key, ids, walk[k + 1])
    BY <1>2, <2>1, PressEffect
  <2> QED
    BY <2>2 DEF Pressed, Decides
<1>4. /\ x \in w.accepted <=> LastAccepts(old, keys)
      /\ x \in w.modified <=> EditStands(old, keys)
  BY Zenon DEF DecisionsStand
<1>5. /\ \A j \in old : j \in 1..k
      /\ decides /\ here = x => new = old \union {k + 1}
      /\ ~(decides /\ here = x) => new = old
  <2>1. \A j \in 1..(k + 1) : j \in 1..k \/ j = k + 1
    BY <1>1
  <2>2. 1..k \subseteq 1..(k + 1) /\ k + 1 \in 1..(k + 1)
    BY <1>1
  <2> QED
    BY <1>1, <2>1, <2>2 DEF DecidedOn
<1>6. \A j \in old : j <= k + 1 /\ ~(k + 1 <= j) /\ k + 1 > j /\ ~(j > k + 1)
  BY <1>1, <1>5
<1>7. k + 1 <= k + 1 /\ ~(k + 1 > k + 1)
  BY <1>1
<1> HIDE DEF key, w, here, old, new
<1>8. CASE ~(decides /\ here = x)
  <2>1. (x \in walk[k + 1].accepted <=> x \in w.accepted) /\ (x \in walk[k + 1].modified <=> x \in w.modified)
    BY <1>3, <1>8
  <2> QED
    BY <1>4, <1>5, <1>8, <2>1 DEF new
<1>9. CASE decides /\ here = x
  <2>1. new = old \union {k + 1}
    BY <1>5, <1>9
  <2>2. /\ x \in walk[k + 1].accepted <=> key # "reject"
        /\ x \in walk[k + 1].modified <=> key # "reject" /\ (key = "modify" \/ x \in w.modified)
    BY <1>3, <1>9
  <2>3. LastAccepts(new, keys) <=> key # "reject"
    <3>1. ASSUME key # "reject" PROVE LastAccepts(new, keys)
      <4>1. k + 1 \in new /\ keys[k + 1] # "reject" /\ \A l \in new : l <= k + 1
        BY <1>6, <1>7, <2>1, <3>1 DEF key
      <4> QED
        BY <4>1, Zenon DEF LastAccepts
    <3>2. ASSUME LastAccepts(new, keys) PROVE key # "reject"
      <4>1. PICK j \in new : keys[j] # "reject" /\ \A l \in new : l <= j
        BY <3>2, Zenon DEF LastAccepts
      <4>2. j = k + 1
        BY <1>6, <2>1, <4>1
      <4> QED
        BY <4>1, <4>2 DEF key
    <3> QED
      BY <3>1, <3>2
  <2>4. EditStands(new, keys) <=> key # "reject" /\ (key = "modify" \/ EditStands(old, keys))
    <3>1. ASSUME key = "modify" PROVE EditStands(new, keys)
      <4>1. k + 1 \in new /\ keys[k + 1] = "modify" /\ \A l \in new : ~(l > k + 1)
        BY <1>6, <1>7, <2>1, <3>1 DEF key
      <4> QED
        BY <4>1, Zenon DEF EditStands
    <3>2. ASSUME key # "reject", EditStands(old, keys) PROVE EditStands(new, keys)
      <4>1. PICK j \in old : keys[j] = "modify" /\ \A l \in old : l > j => keys[l] # "reject"
        BY <3>2, Zenon DEF EditStands
      <4>2. j \in new /\ \A l \in new : l > j => keys[l] # "reject"
        BY <2>1, <3>2, <4>1 DEF key
      <4> QED
        BY <4>1, <4>2, Zenon DEF EditStands
    <3>3. ASSUME EditStands(new, keys) PROVE key # "reject" /\ (key = "modify" \/ EditStands(old, keys))
      <4>1. PICK j \in new : keys[j] = "modify" /\ \A l \in new : l > j => keys[l] # "reject"
        BY <3>3, Zenon DEF EditStands
      <4>2. CASE j = k + 1
        BY <4>1, <4>2 DEF key
      <4>3. CASE j # k + 1
        <5>1. j \in old /\ k + 1 > j /\ k + 1 \in new
          BY <1>6, <2>1, <4>3
        <5>2. key # "reject"
          BY <4>1, <5>1 DEF key
        <5>3. EditStands(old, keys)
          BY <2>1, <4>1, <5>1, Zenon DEF EditStands
        <5> QED
          BY <5>2, <5>3
      <4> QED
        BY <4>2, <4>3
    <3> QED
      BY <3>1, <3>2, <3>3
  <2> QED
    BY <1>4, <2>2, <2>3, <2>4 DEF new
<1> QED
  BY <1>8, <1>9

\* What the operator's walk comes to: about every id the last decision stands, an edit
\* falls with a rejection, and keys that do not parse decide nothing.
THEOREM WalkDecided ==
    ASSUME NEW Ids, call.about = "walk" => call.ids \in Seq(Ids) /\ call.keys \in Seq(Keys)
    PROVE  WalkKeepsDecisions
<1> SUFFICES ASSUME call.about = "walk" PROVE WalkKeepsDecisions
  BY DEF WalkKeepsDecisions
<1> DEFINE ids == call.ids
           keys == call.keys
           n == Len(keys)
           walk == Walked(keys, ids)
           S == {k \in 0..n : walk[k] \in Walks(Ids, Len(ids)) /\ DecisionsStand(walk, keys, ids, k)}
<1>1. ids \in Seq(Ids) /\ keys \in Seq(Keys) /\ n \in Nat /\ DOMAIN keys = 1..n
  OBVIOUS
<1>2. Walking(walk, keys, ids)
  <2>1. walk = CHOOSE g : Walking(g, keys, ids)
    BY Zenon DEF Walked, Walking
  <2> HIDE DEF ids, keys
  <2>2. \E g : Walking(g, keys, ids)
    BY <1>1, WalksExist
  <2> QED
    BY <2>1, <2>2, Zenon
<1> HIDE DEF walk, ids, keys
<1>3. walk[0] = Walk0 /\ \A k \in 1..n : walk[k] = Press(walk[k - 1], keys[k], ids)
  <2>1. 0 \in 0..n /\ \A k \in 1..n : k \in 0..n /\ k # 0
    BY <1>1
  <2> QED
    BY <1>2, <2>1 DEF Walking
<1>4. 0 \in S
  <2>1. Walk0 \in Walks(Ids, Len(ids))
    <3>1. 1 \in 1..(Len(ids) + 1)
      BY <1>1
    <3> QED
      BY <3>1 DEF Walk0, Walks
  <2>2. \A x : DecidedOn(walk, keys, ids, x, 0) = {}
    BY DEF DecidedOn
  <2>3. DecisionsStand(walk, keys, ids, 0)
    BY <1>3, <2>2 DEF DecisionsStand, LastAccepts, EditStands, Walk0
  <2> QED
    BY <1>1, <1>3, <2>1, <2>3
<1>5. ASSUME NEW k \in 0..n, k \in S, k # n PROVE k + 1 \in S
  <2>1. k + 1 \in 1..n /\ k + 1 \in 0..n /\ (k + 1) - 1 = k
    <3> HIDE DEF n, S
    <3> QED
      BY <1>1, <1>5
  <2>2. keys[k + 1] \in Keys
    BY <1>1, <2>1, ElementOfSeq
  <2>3. walk[k] \in Walks(Ids, Len(ids)) /\ DecisionsStand(walk, keys, ids, k)
    BY <1>5
  <2>4. walk[k + 1] = Press(walk[k], keys[k + 1], ids)
    BY <1>3, <2>1
  <2>5. walk[k + 1] \in Walks(Ids, Len(ids))
    <3> DEFINE w == walk[k]
    <3>1. w \in Walks(Ids, Len(ids))
      BY <2>3
    <3> HIDE DEF w
    <3>2. Press(w, keys[k + 1], ids) \in Walks(Ids, Len(ids))
      BY <1>1, <2>2, <3>1, PressEffect
    <3> QED
      BY <2>4, <3>2 DEF w
  <2>6. DecisionsStand(walk, keys, ids, k + 1)
    BY <1>1, <1>5, <2>3, <2>4, DecisionStep
  <2> QED
    BY <2>1, <2>5, <2>6
<1>6. n \in S
  <2>1. 0 \in Nat /\ n \in 0..n
    BY <1>1
  <2> HIDE DEF S, n
  <2>2. \A k \in 0..n : k \in S
    BY <1>1, <1>4, <1>5, <2>1, IntervalInduction
  <2> QED
    BY <2>1, <2>2
<1>7. DecisionsStand(walk, keys, ids, n)
  BY <1>6
<1> DEFINE decided(i) == {k \in DOMAIN keys : /\ keys[k] \in {"accept", "reject", "modify"}
                                              /\ walk[k - 1].index \in DOMAIN ids
                                              /\ ids[walk[k - 1].index] = ids[i]}
           kept == Finalize(walk[n], ids)
<1>8. ASSUME NEW i \in DOMAIN ids
      PROVE  LET ds == decided(i)
                 accepted == ds # {} /\ keys[Max(ds)] # "reject"
                 edited == \E k \in ds : keys[k] = "modify"
                              /\ \A j \in ds : j > k => keys[j] # "reject"
             IN  {c \in kept : c.rec = i} = IF accepted THEN {[rec |-> i, edited |-> edited]} ELSE {}
  <2> DEFINE ds == decided(i)
             edited == \E k \in ds : keys[k] = "modify" /\ \A j \in ds : j > k => keys[j] # "reject"
  <2>1. ds = DecidedOn(walk, keys, ids, ids[i], n)
    BY <1>1 DEF DecidedOn, Deciding
  <2> HIDE DEF ds
  <2>2. /\ ids[i] \in walk[n].accepted <=> LastAccepts(ds, keys)
        /\ ids[i] \in walk[n].modified <=> EditStands(ds, keys)
    BY <1>7, <2>1, Zenon DEF DecisionsStand
  <2>3. (ds # {} /\ keys[Max(ds)] # "reject") <=> LastAccepts(ds, keys)
    <3>1. ds \subseteq 1..n
      BY <2>1 DEF DecidedOn
    <3>2. ASSUME ds # {} PROVE Max(ds) \in ds /\ \A l \in ds : l <= Max(ds)
      <4>1. ds \in SUBSET (0..n)
        BY <1>1, <3>1
      <4> HIDE DEF n
      <4> QED
        BY <1>1, <3>2, <4>1, MaxInSet
    <3>3. ASSUME NEW j \in ds, \A l \in ds : l <= j PROVE j = Max(ds)
      <4>1. Max(ds) \in ds /\ j <= Max(ds) /\ Max(ds) <= j
        BY <3>2, <3>3
      <4>2. \A l \in ds : l \in Int
        BY <1>1, <3>1
      <4> DEFINE m == Max(ds)
      <4>3. m \in ds /\ j <= m /\ m <= j
        BY <4>1
      <4> HIDE DEF m
      <4>4. j = m
        BY <4>2, <4>3
      <4> QED
        BY <4>4 DEF m
    <3>4. ds # {} /\ keys[Max(ds)] # "reject" => LastAccepts(ds, keys)
      BY <3>2, Zenon DEF LastAccepts
    <3>5. ASSUME LastAccepts(ds, keys) PROVE ds # {} /\ keys[Max(ds)] # "reject"
      <4>1. PICK j \in ds : keys[j] # "reject" /\ \A l \in ds : l <= j
        BY <3>5, Zenon DEF LastAccepts
      <4> QED
        BY <3>3, <4>1
    <3> QED
      BY <3>4, <3>5
  <2>4. edited <=> EditStands(ds, keys)
    BY Zenon DEF EditStands
  <2>5. edited = (ids[i] \in walk[n].modified)
    <3>1. edited \in BOOLEAN /\ (ids[i] \in walk[n].modified) \in BOOLEAN
      OBVIOUS
    <3> HIDE DEF edited
    <3> QED
      BY <2>2, <2>4, <3>1
  <2>6. {c \in kept : c.rec = i} = IF ids[i] \in walk[n].accepted
                                   THEN {[rec |-> i, edited |-> ids[i] \in walk[n].modified]} ELSE {}
    BY DEF Finalize
  <2> HIDE DEF edited, kept
  <2> QED
    BY <2>2, <2>3, <2>5, <2>6, Zenon DEF ds, edited
<1> QED
  BY <1>8, Zenon DEF WalkKeepsDecisions, walk, ids, keys

-----------------------------------------------------------------------------
(***************************************************************************)
(* The application of a plan, for any number of recommendations, services  *)
(* and values.                                                             *)
(***************************************************************************)

Documents == [found : BOOLEAN, spec : BOOLEAN, value : Nat, list : SUBSET Nat]
RecsFor(Fleet) ==
    [service : Fleet, kind : {"change", "add", "append"}, current : Nat, proposed : Nat \ {NoValue}]
Outcomes == {"clean", "already", "drift", "pathMissing", "notFound"}
ApplyStates(Fleet) ==
    [docs : [Fleet -> Documents], outcomes : Seq(Outcomes), modified : SUBSET Fleet,
     raised : BOOLEAN]

OutcomeOf(m, rec) == IF ~m.found THEN "notFound" ELSE Classify(m, rec)
Writes(m, rec, force) == OutcomeOf(m, rec) = "clean" \/ (OutcomeOf(m, rec) = "drift" /\ force)

LEMMA OutcomeType ==
    ASSUME NEW Fleet, NEW rec \in RecsFor(Fleet), NEW m \in Documents
    PROVE  OutcomeOf(m, rec) \in Outcomes
  BY DEF OutcomeOf, Classify, Outcomes, RecsFor

LEMMA ApplyAtPathType ==
    ASSUME NEW Fleet, NEW rec \in RecsFor(Fleet), NEW m \in Documents
    PROVE  ApplyAtPath(m, rec) \in Documents
<1>1. rec.proposed \in Nat
  BY DEF RecsFor
<1>2. m.list \union {rec.proposed} \in SUBSET Nat
  BY <1>1 DEF Documents
<1> QED
  BY <1>1, <1>2 DEF ApplyAtPath, Proposed, Documents

\* One recommendation leaves everything as it was, writes in memory, or raises.
Untouched(acc, rec, force, next) ==
    LET m == acc.docs[rec.service]
    IN  /\ ~Writes(m, rec, force) /\ ~next.raised /\ next.docs = acc.docs
        /\ next.modified = acc.modified /\ next.outcomes = Append(acc.outcomes, OutcomeOf(m, rec))
Overwritten(acc, rec, force, next) ==
    LET m == acc.docs[rec.service]
    IN  /\ Writes(m, rec, force) /\ ~Raises(m, rec) /\ ~next.raised
        /\ next.docs = [acc.docs EXCEPT ![rec.service] = ApplyAtPath(m, rec)]
        /\ next.modified = acc.modified \union {rec.service}
        /\ next.outcomes = Append(acc.outcomes, "clean")
Stopped(acc, rec, force, next) ==
    /\ Writes(acc.docs[rec.service], rec, force) /\ next.raised /\ next.docs = acc.docs
    /\ next.modified = acc.modified /\ next.outcomes = acc.outcomes
ApplyEffect(acc, rec, force, next) ==
    IF acc.raised THEN next = acc
    ELSE Untouched(acc, rec, force, next) \/ Overwritten(acc, rec, force, next)
         \/ Stopped(acc, rec, force, next)

LEMMA Apply1Effect ==
    ASSUME NEW Fleet, NEW acc \in ApplyStates(Fleet), NEW rec \in RecsFor(Fleet),
           NEW force \in BOOLEAN
    PROVE  /\ Apply1(acc, rec, force) \in ApplyStates(Fleet)
           /\ ApplyEffect(acc, rec, force, Apply1(acc, rec, force))
<1> DEFINE m == acc.docs[rec.service]
           next == Apply1(acc, rec, force)
<1>1. /\ acc.docs \in [Fleet -> Documents] /\ acc.outcomes \in Seq(Outcomes)
      /\ acc.modified \in SUBSET Fleet /\ acc.raised \in BOOLEAN /\ rec.service \in Fleet
  BY DEF ApplyStates, RecsFor
<1>2. m \in Documents
  BY <1>1
<1>3. OutcomeOf(m, rec) \in Outcomes /\ "clean" \in Outcomes
  BY <1>2, OutcomeType DEF Outcomes
<1>4. CASE acc.raised
  <2>1. next = acc
    BY <1>4 DEF Apply1
  <2> QED
    BY <1>4, <2>1 DEF ApplyEffect
<1>5. CASE ~acc.raised /\ ~Writes(m, rec, force)
  <2> DEFINE os == Append(acc.outcomes, OutcomeOf(m, rec))
  <2>1. next = [acc EXCEPT !.outcomes = os]
    BY <1>5 DEF Apply1, Writes, OutcomeOf
  <2>2. os \in Seq(Outcomes)
    BY <1>1, <1>3
  <2> HIDE DEF os, next, m
  <2>3. /\ next \in ApplyStates(Fleet) /\ next.outcomes = os /\ next.docs = acc.docs
        /\ next.modified = acc.modified /\ next.raised = acc.raised
    BY <2>1, <2>2 DEF ApplyStates
  <2> QED
    BY <1>5, <2>3 DEF ApplyEffect, Untouched, os, next, m
<1>6. CASE ~acc.raised /\ Writes(m, rec, force) /\ ~Raises(m, rec)
  <2> DEFINE os == Append(acc.outcomes, "clean")
             ds == [acc.docs EXCEPT ![rec.service] = ApplyAtPath(m, rec)]
             ms == acc.modified \union {rec.service}
  <2>1. next = [acc EXCEPT !.docs = ds, !.outcomes = os, !.modified = ms]
    <3>1. next = [acc EXCEPT !.docs[rec.service] = ApplyAtPath(m, rec), !.outcomes = os, !.modified = ms]
      BY <1>6 DEF Apply1, Writes, OutcomeOf
    <3> QED
      BY <3>1, Zenon
  <2>2. os \in Seq(Outcomes) /\ ds \in [Fleet -> Documents] /\ ms \in SUBSET Fleet
    <3>1. ApplyAtPath(m, rec) \in Documents
      BY <1>2, ApplyAtPathType
    <3> QED
      BY <1>1, <1>3, <3>1
  <2> HIDE DEF os, ds, ms, next, m
  <2>3. /\ next \in ApplyStates(Fleet) /\ next.outcomes = os /\ next.docs = ds
        /\ next.modified = ms /\ next.raised = acc.raised
    BY <2>1, <2>2 DEF ApplyStates
  <2> QED
    BY <1>6, <2>3 DEF ApplyEffect, Overwritten, os, ds, ms, next, m
<1>7. CASE ~acc.raised /\ Writes(m, rec, force) /\ Raises(m, rec)
  <2>1. next = [acc EXCEPT !.raised = TRUE]
    BY <1>7 DEF Apply1, Writes, OutcomeOf
  <2> HIDE DEF next, m
  <2>2. /\ next \in ApplyStates(Fleet) /\ next.raised /\ next.docs = acc.docs
        /\ next.modified = acc.modified /\ next.outcomes = acc.outcomes
    BY <2>1 DEF ApplyStates
  <2> QED
    BY <1>7, <2>2 DEF ApplyEffect, Stopped, next, m
<1> QED
  BY <1>4, <1>5, <1>6, <1>7

\* What is recommended is not what another recommendation for the service was made from.
FromOneState(plan) ==
    \A i, j \in DOMAIN plan :
        (plan[i].service = plan[j].service /\ plan[i].kind # "append" /\ plan[j].kind = "change")
            => plan[i].proposed # plan[j].current

\* A recommendation that is settled is not written again.
SettledIn(m, rec) == ~m.found \/ Classify(m, rec) # "clean"

LEMMA WriteSettles ==
    ASSUME NEW Fleet, NEW rec \in RecsFor(Fleet), NEW m \in Documents,
           m.found, Classify(m, rec) = "clean", ~Raises(m, rec)
    PROVE  /\ SettledIn(ApplyAtPath(m, rec), rec) /\ Holds(ApplyAtPath(m, rec), rec)
           /\ m.list \subseteq ApplyAtPath(m, rec).list
           /\ \/ ApplyAtPath(m, rec).value = m.value \/ m.value = NoValue \/ m.value = rec.current
<1> DEFINE new == ApplyAtPath(m, rec)
<1>1. /\ rec.kind \in {"change", "add", "append"} /\ rec.proposed \in Nat /\ rec.proposed # 0
      /\ m.spec /\ m.list \in SUBSET Nat
  BY DEF RecsFor, Raises, NoValue, Documents
<1>2. CASE rec.kind = "append"
  <2>1. /\ new.found /\ new.spec /\ new.value = m.value /\ new.list = m.list \union {rec.proposed}
    BY <1>1, <1>2 DEF ApplyAtPath, Proposed, Documents
  <2>2. new.list # {} /\ new.list # NotAList /\ rec.proposed \in new.list
    BY <1>1, <2>1 DEF NotAList
  <2> HIDE DEF new
  <2>3. Classify(new, rec) = "already"
    BY <1>2, <2>1, <2>2 DEF Classify, Proposed
  <2>4. SettledIn(new, rec) /\ Holds(new, rec)
    BY <1>2, <2>1, <2>2, <2>3 DEF SettledIn, Holds, Proposed
  <2> QED
    BY <2>1, <2>4 DEF new
<1>3. CASE rec.kind # "append"
  <2>1. /\ new.found /\ new.spec /\ new.value = rec.proposed /\ new.list = m.list
    BY <1>1, <1>3 DEF ApplyAtPath, Proposed, Documents
  <2> HIDE DEF new
  <2>2. Classify(new, rec) = "already"
    BY <1>1, <1>3, <2>1 DEF Classify, Proposed, NoValue
  <2>3. SettledIn(new, rec) /\ Holds(new, rec)
    BY <1>3, <2>1, <2>2 DEF SettledIn, Holds, Proposed
  <2>4. m.value = NoValue \/ m.value = rec.current
    BY <1>1, <1>3 DEF Classify
  <2> QED
    BY <2>1, <2>3, <2>4 DEF new
<1> QED
  BY <1>2, <1>3

LEMMA WriteKeepsOthers ==
    ASSUME NEW Fleet, NEW rec \in RecsFor(Fleet), NEW q \in RecsFor(Fleet),
           NEW m \in Documents,
           m.found, Classify(m, rec) = "clean", ~Raises(m, rec),
           (rec.kind # "append" /\ q.kind = "change") => rec.proposed # q.current,
           (q.kind # "append" /\ rec.kind = "change") => q.proposed # rec.current
    PROVE  /\ SettledIn(m, q) => SettledIn(ApplyAtPath(m, rec), q)
           /\ Holds(m, q) => Holds(ApplyAtPath(m, rec), q)
<1> DEFINE new == ApplyAtPath(m, rec)
<1>1. /\ rec.kind \in {"change", "add", "append"} /\ rec.proposed \in Nat /\ rec.proposed # 0
      /\ q.kind \in {"change", "add", "append"} /\ q.proposed \in Nat /\ q.proposed # 0
      /\ m.spec /\ m.list \in SUBSET Nat /\ (rec.kind = "append" => m.list # NotAList)
  BY DEF RecsFor, Raises, NoValue, Documents
<1>2. CASE rec.kind = "append"
  <2>1. /\ new.found /\ new.spec /\ new.value = m.value /\ new.list = m.list \union {rec.proposed}
    BY <1>1, <1>2 DEF ApplyAtPath, Proposed, Documents
  <2> HIDE DEF new
  <2>2. CASE q.kind = "append"
    <3>1. SettledIn(m, q) => q.proposed \in m.list
      BY <1>1, <1>2, <2>2 DEF SettledIn, Classify, Proposed
    <3>2. Holds(m, q) => q.proposed \in m.list
      BY <2>2 DEF Holds, Proposed
    <3>3. ASSUME q.proposed \in m.list PROVE SettledIn(new, q) /\ Holds(new, q)
      <4>1. q.proposed \in new.list /\ new.list # {} /\ new.list # NotAList
        BY <1>1, <2>1, <3>3 DEF NotAList
      <4>2. Classify(new, q) = "already"
        BY <2>1, <2>2, <4>1 DEF Classify, Proposed
      <4> QED
        BY <2>1, <2>2, <4>1, <4>2 DEF SettledIn, Holds, Proposed
    <3> QED
      BY <3>1, <3>2, <3>3 DEF new
  <2>3. CASE q.kind # "append"
    <3>1. Classify(new, q) = Classify(m, q)
      BY <1>1, <2>1, <2>3 DEF Classify, Proposed
    <3> QED
      BY <2>1, <2>3, <3>1 DEF SettledIn, Holds, Proposed, new
  <2> QED
    BY <2>2, <2>3
<1>3. CASE rec.kind # "append"
  <2>1. /\ new.found /\ new.spec /\ new.value = rec.proposed /\ new.list = m.list
    BY <1>1, <1>3 DEF ApplyAtPath, Proposed, Documents
  <2> HIDE DEF new
  <2>2. CASE q.kind = "append"
    <3>1. Classify(new, q) = Classify(m, q)
      BY <1>1, <2>1, <2>2 DEF Classify, Proposed
    <3> QED
      BY <2>1, <2>2, <3>1 DEF SettledIn, Holds, Proposed, new
  <2>3. CASE q.kind # "append"
    <3>1. SettledIn(new, q)
      BY <1>1, <1>3, <2>1, <2>3 DEF SettledIn, Classify, Proposed, NoValue
    <3>2. ~Holds(m, q)  \/ q.proposed = rec.proposed
      BY <1>1, <1>3, <2>3 DEF Holds, Classify, Proposed, NoValue
    <3>3. q.proposed = rec.proposed => Holds(new, q)
      BY <2>1, <2>3 DEF Holds, Proposed
    <3> QED
      BY <3>1, <3>2, <3>3 DEF new
  <2> QED
    BY <2>2, <2>3
<1> QED
  BY <1>2, <1>3
\* s holds what each recommendation of the plan leaves behind.
AppliesInTurn(s, Fleet, plan, manifests, force) ==
    /\ s \in [0..Len(plan) -> ApplyStates(Fleet)] /\ s[0] = Unapplied(manifests)
    /\ \A k \in 1..Len(plan) : ApplyEffect(s[k - 1], plan[k], force, s[k])
    /\ Classified(plan, manifests, force) = s[Len(plan)]

\* f is the function that Classified defines.
Classifies(f, plan, manifests, force) ==
    f = [k \in 0..Len(plan) |-> IF k = 0 THEN Unapplied(manifests) ELSE Apply1(f[k - 1], plan[k], force)]

LEMMA PlanApplies ==
    ASSUME NEW Fleet, NEW plan \in Seq(RecsFor(Fleet)),
           NEW manifests \in [Fleet -> Documents], NEW force \in BOOLEAN
    PROVE  \E s : AppliesInTurn(s, Fleet, plan, manifests, force)
<1> DEFINE n == Len(plan)
           A == ApplyStates(Fleet)
           R == RecsFor(Fleet)
           step == [p \in A \X R |-> Apply1(p[1], p[2], force)]
<1>1. n \in Nat /\ plan \in [1..n -> R]
  OBVIOUS
<1>2. Unapplied(manifests) \in A
  BY DEF Unapplied, ApplyStates
<1>3. \A acc \in A, rec \in R :
         Apply1(acc, rec, force) \in A /\ ApplyEffect(acc, rec, force, Apply1(acc, rec, force))
  BY Apply1Effect
<1>4. step \in [A \X R -> A]
  BY <1>3
<1>5. \A acc \in A, rec \in R : step[acc, rec] = Apply1(acc, rec, force)
  OBVIOUS
<1> HIDE DEF step, n, A, R
<1>6. PICK g \in [0..n -> A] : g[0] = Unapplied(manifests) /\ \A i \in 1..n : g[i] = step[g[i - 1], plan[i]]
  <2>1. \E g \in [0..n -> A] : Iterates(g, Unapplied(manifests), step, n, plan)
    BY <1>1, <1>2, <1>4, IterationExists
  <2> QED
    BY <2>1, Zenon DEF Iterates
<1>7. ASSUME NEW i \in 0..n
      PROVE  g[i] = IF i = 0 THEN Unapplied(manifests) ELSE Apply1(g[i - 1], plan[i], force)
  <2>1. i # 0 => i \in 1..n /\ i - 1 \in 0..n
    BY <1>1
  <2>2. i # 0 => g[i - 1] \in A /\ plan[i] \in R
    BY <1>1, <2>1
  <2> QED
    BY <1>5, <1>6, <2>1, <2>2
<1>8. Classifies(g, plan, manifests, force)
  <2>1. g = [i \in 0..n |-> IF i = 0 THEN Unapplied(manifests) ELSE Apply1(g[i - 1], plan[i], force)]
    BY <1>7
  <2> QED
    BY <2>1 DEF Classifies, n
<1> DEFINE s == CHOOSE f : Classifies(f, plan, manifests, force)
<1>9. Classified(plan, manifests, force) = s[n]
  BY Zenon DEF Classified, Classifies, n
<1>10. Classifies(s, plan, manifests, force)
  BY <1>8, Zenon
<1> HIDE DEF s
<1>11. s[0] = Unapplied(manifests) /\ \A i \in 1..n : s[i] = Apply1(s[i - 1], plan[i], force)
  <2>1. 0 \in 0..n /\ \A i \in 1..n : i \in 0..n /\ i # 0
    BY <1>1
  <2> QED
    BY <1>10, <2>1 DEF Classifies, n
<1> DEFINE S == {k \in 0..n : s[k] \in A}
<1>12. \A k \in 0..n : k \in S
  <2>1. 0 \in S
    BY <1>1, <1>2, <1>11
  <2>2. ASSUME NEW k \in 0..n, k \in S, k # n PROVE k + 1 \in S
    <3>1. k + 1 \in 1..n /\ k + 1 \in 0..n /\ (k + 1) - 1 = k
      <4> HIDE DEF S
      <4> QED
        BY <1>1, <2>2
    <3>2. plan[k + 1] \in R /\ s[k] \in A
      BY <1>1, <2>2, <3>1
    <3> QED
      BY <1>3, <1>11, <3>1, <3>2
  <2>3. 0 \in Nat
    OBVIOUS
  <2> HIDE DEF S
  <2> QED
    BY <1>1, <2>1, <2>2, <2>3, IntervalInduction
<1>13. s \in [0..n -> A]
  <2>1. s = [k \in 0..n |-> IF k = 0 THEN Unapplied(manifests) ELSE Apply1(s[k - 1], plan[k], force)]
    BY <1>10 DEF Classifies, n
  <2> DEFINE body(k) == IF k = 0 THEN Unapplied(manifests) ELSE Apply1(s[k - 1], plan[k], force)
  <2>2. s = [k \in 0..n |-> body(k)]
    BY <2>1
  <2> HIDE DEF body
  <2>3. s = [k \in 0..n |-> s[k]]
    BY <2>2
  <2> QED
    BY <1>12, <2>3
<1>14. ASSUME NEW k \in 1..n PROVE ApplyEffect(s[k - 1], plan[k], force, s[k])
  <2>1. k - 1 \in 0..n /\ plan[k] \in R
    BY <1>1
  <2> QED
    BY <1>3, <1>11, <1>12, <2>1
<1> QED
  BY <1>9, <1>11, <1>13, <1>14, Zenon DEF AppliesInTurn, n, A

\* What holds after the first k recommendations, without force.
KeptSoFar(manifests, plan, acc) ==
    \A s \in DOMAIN manifests :
        /\ manifests[s].list \subseteq acc.docs[s].list
        /\ \/ acc.docs[s].value = manifests[s].value \/ manifests[s].value = NoValue
           \/ \E i \in DOMAIN plan : plan[i].service = s /\ plan[i].current = manifests[s].value
        /\ s \notin acc.modified => acc.docs[s] = manifests[s]
SettledSoFar(plan, acc, k) ==
    ~acc.raised =>
        /\ Len(acc.outcomes) = k
        /\ \A i \in 1..k :
               /\ SettledIn(acc.docs[plan[i].service], plan[i])
               /\ acc.outcomes[i] \in {"clean", "already"}
                      => Holds(acc.docs[plan[i].service], plan[i])

LEMMA KeptStep ==
    ASSUME NEW Fleet, NEW plan \in Seq(RecsFor(Fleet)), NEW manifests \in [Fleet -> Documents],
           NEW k \in 1..Len(plan), NEW acc \in ApplyStates(Fleet), NEW next \in ApplyStates(Fleet),
           ApplyEffect(acc, plan[k], FALSE, next), KeptSoFar(manifests, plan, acc)
    PROVE  KeptSoFar(manifests, plan, next)
<1> DEFINE rec == plan[k]
           m == acc.docs[rec.service]
<1>1. rec \in RecsFor(Fleet) /\ k \in DOMAIN plan
  BY ElementOfSeq
<1>2. /\ acc.docs \in [Fleet -> Documents] /\ rec.service \in Fleet /\ m \in Documents
  BY <1>1 DEF ApplyStates, RecsFor
<1> HIDE DEF rec, m
<1>3. CASE next.docs = acc.docs /\ next.modified = acc.modified
  BY <1>3 DEF KeptSoFar
<1>4. CASE Overwritten(acc, rec, FALSE, next)
  <2>1. /\ Writes(m, rec, FALSE) /\ ~Raises(m, rec)
        /\ next.docs = [acc.docs EXCEPT ![rec.service] = ApplyAtPath(m, rec)]
        /\ next.modified = acc.modified \union {rec.service}
    BY <1>4 DEF Overwritten, m
  <2>2. m.found /\ Classify(m, rec) = "clean"
    BY <2>1 DEF Writes, OutcomeOf
  <2>3. /\ m.list \subseteq ApplyAtPath(m, rec).list
        /\ \/ ApplyAtPath(m, rec).value = m.value \/ m.value = NoValue \/ m.value = rec.current
    BY <1>1, <1>2, <2>1, <2>2, WriteSettles
  <2> SUFFICES ASSUME NEW s \in Fleet
               PROVE  /\ manifests[s].list \subseteq next.docs[s].list
                      /\ \/ next.docs[s].value = manifests[s].value \/ manifests[s].value = NoValue
                         \/ \E i \in DOMAIN plan : plan[i].service = s /\ plan[i].current = manifests[s].value
                      /\ s \notin next.modified => next.docs[s] = manifests[s]
    BY DEF KeptSoFar
  <2>4. /\ manifests[s].list \subseteq acc.docs[s].list
        /\ \/ acc.docs[s].value = manifests[s].value \/ manifests[s].value = NoValue
           \/ \E i \in DOMAIN plan : plan[i].service = s /\ plan[i].current = manifests[s].value
        /\ s \notin acc.modified => acc.docs[s] = manifests[s]
    BY DEF KeptSoFar
  <2>5. CASE s # rec.service
    <3>1. next.docs[s] = acc.docs[s] /\ (s \notin next.modified => s \notin acc.modified)
      BY <1>2, <2>1, <2>5
    <3> QED
      BY <2>4, <3>1
  <2>6. CASE s = rec.service
    <3>1. next.docs[s] = ApplyAtPath(m, rec) /\ s \in next.modified /\ acc.docs[s] = m
      BY <1>2, <2>1, <2>6 DEF m
    <3>2. m.value = manifests[s].value /\ m.value = rec.current
             => \E i \in DOMAIN plan : plan[i].service = s /\ plan[i].current = manifests[s].value
      BY <1>1, <2>6 DEF rec
    <3> QED
      BY <2>3, <2>4, <3>1, <3>2
  <2> QED
    BY <2>5, <2>6
<1>5. acc = next \/ Untouched(acc, rec, FALSE, next) \/ Overwritten(acc, rec, FALSE, next) \/ Stopped(acc, rec, FALSE, next)
  BY DEF ApplyEffect, rec
<1> QED
  BY <1>3, <1>4, <1>5 DEF Untouched, Stopped

LEMMA SettledStep ==
    ASSUME NEW Fleet, NEW plan \in Seq(RecsFor(Fleet)), FromOneState(plan),
           NEW k \in 0..Len(plan), k # Len(plan),
           NEW acc \in ApplyStates(Fleet), NEW next \in ApplyStates(Fleet),
           ApplyEffect(acc, plan[k + 1], FALSE, next), SettledSoFar(plan, acc, k)
    PROVE  SettledSoFar(plan, next, k + 1)
<1> DEFINE rec == plan[k + 1]
           m == acc.docs[rec.service]
<1>1. /\ rec \in RecsFor(Fleet) /\ k + 1 \in DOMAIN plan /\ DOMAIN plan = 1..Len(plan)
      /\ k \in Nat /\ 1..k \subseteq DOMAIN plan
  <2>1. k + 1 \in 1..Len(plan)
    OBVIOUS
  <2> QED
    BY <2>1, ElementOfSeq
<1>2. /\ acc.docs \in [Fleet -> Documents] /\ rec.service \in Fleet /\ m \in Documents
      /\ acc.outcomes \in Seq(Outcomes)
  BY <1>1 DEF ApplyStates, RecsFor
<1>3. \A i \in 1..k : plan[i] \in RecsFor(Fleet)
  BY <1>1, ElementOfSeq
<1> HIDE DEF rec, m
<1>4. SUFFICES ASSUME ~next.raised, ~acc.raised
               PROVE  SettledSoFar(plan, next, k + 1)
  BY DEF SettledSoFar, ApplyEffect
<1>5. /\ Len(acc.outcomes) = k
      /\ \A i \in 1..k :
            /\ SettledIn(acc.docs[plan[i].service], plan[i])
            /\ acc.outcomes[i] \in {"clean", "already"} => Holds(acc.docs[plan[i].service], plan[i])
  BY <1>4 DEF SettledSoFar
<1>6. \A i \in 1..(k + 1) : i \in 1..k \/ i = k + 1
  <2>1. k \in Nat
    BY <1>1
  <2> QED
    BY <2>1
<1>7. ASSUME NEW o \in Outcomes, next.outcomes = Append(acc.outcomes, o)
      PROVE  /\ Len(next.outcomes) = k + 1 /\ next.outcomes[k + 1] = o
             /\ \A i \in 1..k : next.outcomes[i] = acc.outcomes[i]
  <2> DEFINE os == acc.outcomes
  <2>1. os \in Seq(Outcomes) /\ Len(os) = k /\ k \in Nat /\ next.outcomes = Append(os, o)
    BY <1>1, <1>2, <1>5, <1>7
  <2> HIDE DEF os
  <2>2. \A i \in 1..k : i \in 1..(k + 1) /\ i # k + 1
    BY <2>1
  <2>3. Len(Append(os, o)) = k + 1 /\ Append(os, o)[k + 1] = o /\ \A i \in 1..k : Append(os, o)[i] = os[i]
    BY <2>1, <2>2, AppendProperties
  <2> QED
    BY <2>1, <2>3 DEF os
<1>8. CASE Untouched(acc, rec, FALSE, next)
  <2> DEFINE o == OutcomeOf(m, rec)
  <2>1. /\ ~Writes(m, rec, FALSE) /\ next.docs = acc.docs /\ next.outcomes = Append(acc.outcomes, o)
    BY <1>8 DEF Untouched, m
  <2>2. o \in Outcomes
    BY <1>1, <1>2, OutcomeType
  <2>3. SettledIn(m, rec)
    BY <2>1 DEF Writes, OutcomeOf, SettledIn
  <2>4. o \in {"clean", "already"} => Holds(m, rec)
    <3>1. SUFFICES ASSUME m.found, Classify(m, rec) = "already" PROVE Holds(m, rec)
      BY <2>1 DEF Writes, OutcomeOf
    <3>2. rec.kind \in {"change", "add", "append"} /\ rec.proposed # NoValue
      BY <1>1 DEF RecsFor
    <3> QED
      BY <3>1, <3>2 DEF Classify, Holds, Proposed
  <2> HIDE DEF o
  <2>5. /\ Len(next.outcomes) = k + 1 /\ next.outcomes[k + 1] = o
        /\ \A i \in 1..k : next.outcomes[i] = acc.outcomes[i]
    BY <1>7, <2>1, <2>2
  <2> QED
    BY <1>5, <1>6, <2>1, <2>3, <2>4, <2>5 DEF SettledSoFar, rec, m
<1>9. CASE Overwritten(acc, rec, FALSE, next)
  <2> DEFINE new == ApplyAtPath(m, rec)
  <2>1. /\ Writes(m, rec, FALSE) /\ ~Raises(m, rec)
        /\ next.docs = [acc.docs EXCEPT ![rec.service] = new]
        /\ next.outcomes = Append(acc.outcomes, "clean")
    BY <1>9 DEF Overwritten, m
  <2>2. m.found /\ Classify(m, rec) = "clean"
    BY <2>1 DEF Writes, OutcomeOf
  <2>3. SettledIn(new, rec) /\ Holds(new, rec)
    BY <1>1, <1>2, <2>1, <2>2, WriteSettles
  <2>4. /\ Len(next.outcomes) = k + 1 /\ next.outcomes[k + 1] = "clean"
        /\ \A i \in 1..k : next.outcomes[i] = acc.outcomes[i]
    BY <1>7, <2>1 DEF Outcomes
  <2>5. ASSUME NEW i \in 1..k
        PROVE  /\ SettledIn(next.docs[plan[i].service], plan[i])
               /\ next.outcomes[i] \in {"clean", "already"} => Holds(next.docs[plan[i].service], plan[i])
    <3> DEFINE q == plan[i]
    <3>1. /\ SettledIn(acc.docs[q.service], q)
          /\ next.outcomes[i] \in {"clean", "already"} => Holds(acc.docs[q.service], q)
      BY <1>5, <2>4
    <3>2. q \in RecsFor(Fleet) /\ q.service \in Fleet
      BY <1>3 DEF RecsFor
    <3>3. CASE q.service # rec.service
      <4>1. next.docs[q.service] = acc.docs[q.service]
        BY <1>2, <2>1, <3>2, <3>3
      <4> QED
        BY <3>1, <4>1
    <3>4. CASE q.service = rec.service
      <4>1. next.docs[q.service] = new /\ acc.docs[q.service] = m
        BY <1>2, <2>1, <3>4 DEF m
      <4>2. /\ (rec.kind # "append" /\ q.kind = "change") => rec.proposed # q.current
            /\ (q.kind # "append" /\ rec.kind = "change") => q.proposed # rec.current
        <5>1. i \in DOMAIN plan
          BY <1>1
        <5> QED
          BY <1>1, <3>4, <5>1 DEF FromOneState, rec
      <4> HIDE DEF q, new
      <4>3. (SettledIn(m, q) => SettledIn(new, q)) /\ (Holds(m, q) => Holds(new, q))
        BY <1>1, <1>2, <2>1, <2>2, <3>2, <4>2, WriteKeepsOthers DEF new
      <4> QED
        BY <3>1, <4>1, <4>3 DEF q
    <3> QED
      BY <3>3, <3>4
  <2>6. next.docs[rec.service] = new
    BY <1>2, <2>1
  <2> HIDE DEF new
  <2> QED
    BY <1>6, <2>3, <2>4, <2>5, <2>6 DEF SettledSoFar, rec
<1> QED
  BY <1>4, <1>8, <1>9 DEF ApplyEffect, Stopped, rec
\* A plan applied without force: what is kept, and that it settles.
LEMMA FirstRun ==
    ASSUME NEW Fleet, NEW plan \in Seq(RecsFor(Fleet)), NEW manifests \in [Fleet -> Documents]
    PROVE  LET done == Classified(plan, manifests, FALSE)
           IN  /\ done \in ApplyStates(Fleet) /\ KeptSoFar(manifests, plan, done)
               /\ FromOneState(plan) => SettledSoFar(plan, done, Len(plan))
<1> DEFINE n == Len(plan)
<1>1. PICK s : AppliesInTurn(s, Fleet, plan, manifests, FALSE)
  BY PlanApplies
<1>2. /\ s \in [0..n -> ApplyStates(Fleet)] /\ s[0] = Unapplied(manifests)
      /\ \A k \in 1..n : ApplyEffect(s[k - 1], plan[k], FALSE, s[k])
      /\ Classified(plan, manifests, FALSE) = s[n] /\ n \in Nat
  BY <1>1 DEF AppliesInTurn
<1> HIDE DEF n
<1> DEFINE KeptAt == {k \in 0..n : KeptSoFar(manifests, plan, s[k])}
           Done == {k \in 0..n : SettledSoFar(plan, s[k], k)}
<1>3. 0 \in KeptAt /\ 0 \in Done /\ n \in 0..n
  <2>1. KeptSoFar(manifests, plan, Unapplied(manifests))
    BY DEF KeptSoFar, Unapplied
  <2>2. SettledSoFar(plan, Unapplied(manifests), 0)
    BY DEF SettledSoFar, Unapplied
  <2> QED
    BY <1>2, <2>1, <2>2
<1>4. ASSUME NEW k \in 0..n, k # n
      PROVE  /\ k + 1 \in 0..n /\ k + 1 \in 1..n /\ ApplyEffect(s[k], plan[k + 1], FALSE, s[k + 1])
             /\ s[k] \in ApplyStates(Fleet) /\ s[k + 1] \in ApplyStates(Fleet)
  <2>1. k + 1 \in 0..n /\ k + 1 \in 1..n /\ (k + 1) - 1 = k
    BY <1>2, <1>4
  <2> QED
    BY <1>2, <2>1
<1>5. \A k \in 0..n : k \in KeptAt /\ k # n => k + 1 \in KeptAt
  <2> SUFFICES ASSUME NEW k \in 0..n, k # n, KeptSoFar(manifests, plan, s[k])
               PROVE  KeptSoFar(manifests, plan, s[k + 1])
    BY <1>4
  <2> QED
    BY <1>4, KeptStep DEF n
<1>6. FromOneState(plan) => \A k \in 0..n : k \in Done /\ k # n => k + 1 \in Done
  <2> SUFFICES ASSUME FromOneState(plan), NEW k \in 0..n, k # n, SettledSoFar(plan, s[k], k)
               PROVE  SettledSoFar(plan, s[k + 1], k + 1)
    BY <1>4
  <2> QED
    BY <1>4, SettledStep DEF n
<1> HIDE DEF KeptAt, Done
<1>7. n \in KeptAt
  <2>1. \A k \in 0..n : k \in KeptAt
    BY <1>2, <1>3, <1>5, IntervalInduction
  <2> QED
    BY <1>3, <2>1
<1>8. FromOneState(plan) => n \in Done
  <2>1. FromOneState(plan) => \A k \in 0..n : k \in Done
    BY <1>2, <1>3, <1>6, IntervalInduction
  <2> QED
    BY <1>3, <2>1
<1> QED
  BY <1>2, <1>3, <1>7, <1>8 DEF KeptAt, Done, n

\* A plan that is settled changes nothing, and answers what the documents say.
AnswersAsFound(plan, docs, acc, k) ==
    /\ acc.docs = docs /\ acc.modified = {} /\ ~acc.raised /\ Len(acc.outcomes) = k
    /\ \A i \in 1..k : acc.outcomes[i] = OutcomeOf(docs[plan[i].service], plan[i])

LEMMA SettledRun ==
    ASSUME NEW Fleet, NEW plan \in Seq(RecsFor(Fleet)), NEW docs \in [Fleet -> Documents],
           \A i \in DOMAIN plan : SettledIn(docs[plan[i].service], plan[i])
    PROVE  AnswersAsFound(plan, docs, Classified(plan, docs, FALSE), Len(plan))
<1> DEFINE n == Len(plan)
<1>1. PICK s : AppliesInTurn(s, Fleet, plan, docs, FALSE)
  BY PlanApplies
<1>2. /\ s \in [0..n -> ApplyStates(Fleet)] /\ s[0] = Unapplied(docs)
      /\ \A k \in 1..n : ApplyEffect(s[k - 1], plan[k], FALSE, s[k])
      /\ Classified(plan, docs, FALSE) = s[n] /\ n \in Nat /\ DOMAIN plan = 1..n
  <2>1. n \in Nat /\ DOMAIN plan = 1..n
    OBVIOUS
  <2>2. /\ s \in [0..n -> ApplyStates(Fleet)] /\ s[0] = Unapplied(docs)
        /\ Classified(plan, docs, FALSE) = s[n]
    BY <1>1, Zenon DEF AppliesInTurn
  <2>3. \A k \in 1..n : ApplyEffect(s[k - 1], plan[k], FALSE, s[k])
    BY <1>1, Zenon DEF AppliesInTurn
  <2> QED
    BY <2>1, <2>2, <2>3
<1> HIDE DEF n
<1> DEFINE S == {k \in 0..n : AnswersAsFound(plan, docs, s[k], k)}
<1>3. 0 \in S /\ n \in 0..n
  <2>1. AnswersAsFound(plan, docs, Unapplied(docs), 0)
    BY DEF AnswersAsFound, Unapplied
  <2> QED
    BY <1>2, <2>1
<1>4. ASSUME NEW k \in 0..n, k # n, AnswersAsFound(plan, docs, s[k], k)
      PROVE  k + 1 \in 0..n /\ AnswersAsFound(plan, docs, s[k + 1], k + 1)
  <2> DEFINE rec == plan[k + 1]
             m == docs[rec.service]
             os == s[k].outcomes
             o == OutcomeOf(m, rec)
  <2>1. k + 1 \in 0..n /\ k + 1 \in 1..n /\ (k + 1) - 1 = k /\ k \in Nat
    BY <1>2, <1>4
  <2>2. /\ s[k].docs = docs /\ s[k].modified = {} /\ ~s[k].raised /\ Len(os) = k
        /\ \A i \in 1..k : os[i] = OutcomeOf(docs[plan[i].service], plan[i])
    BY <1>4 DEF AnswersAsFound
  <2>3. rec \in RecsFor(Fleet)
    BY <1>2, <2>1, ElementOfSeq DEF n
  <2>4. m \in Documents /\ os \in Seq(Outcomes)
    <3>1. rec.service \in Fleet
      BY <2>3 DEF RecsFor
    <3>2. s[k] \in ApplyStates(Fleet)
      BY <1>2
    <3> QED
      BY <3>1, <3>2 DEF ApplyStates
  <2>5. ~Writes(m, rec, FALSE)
    <3>1. SettledIn(m, rec)
      BY <1>2, <2>1
    <3> QED
      BY <3>1 DEF SettledIn, Writes, OutcomeOf
  <2>6. ApplyEffect(s[k], rec, FALSE, s[k + 1])
    BY <1>2, <2>1
  <2>8. Untouched(s[k], rec, FALSE, s[k + 1])
    BY <2>2, <2>5, <2>6 DEF ApplyEffect, Overwritten, Stopped
  <2>9. /\ s[k + 1].docs = docs /\ s[k + 1].modified = {} /\ ~s[k + 1].raised
        /\ s[k + 1].outcomes = Append(os, o)
    BY <2>2, <2>8 DEF Untouched
  <2>10. o \in Outcomes
    BY <2>3, <2>4, OutcomeType
  <2>11. \A i \in 1..(k + 1) : i \in 1..k \/ i = k + 1
    BY <2>1
  <2> HIDE DEF os, o
  <2>12. /\ Len(Append(os, o)) = k + 1 /\ Append(os, o)[k + 1] = o
         /\ \A i \in 1..k : Append(os, o)[i] = os[i]
    BY <2>2, <2>4, <2>10, AppendProperties
  <2> QED
    BY <2>1, <2>2, <2>9, <2>11, <2>12 DEF AnswersAsFound, o
<1>5. \A k \in 0..n : k \in S /\ k # n => k + 1 \in S
  BY <1>4
<1> HIDE DEF S
<1>6. n \in S
  <2>1. \A k \in 0..n : k \in S
    BY <1>2, <1>3, <1>5, IntervalInduction
  <2> QED
    BY <1>3, <2>1
<1> QED
  BY <1>2, <1>6 DEF S, n
\* What holds in the manifests is answered as already applied.
LEMMA HeldIsAlready ==
    ASSUME NEW Fleet, NEW rec \in RecsFor(Fleet), NEW m, Holds(m, rec)
    PROVE  OutcomeOf(m, rec) = "already"
<1>1. /\ rec.kind \in {"change", "add", "append"} /\ rec.proposed # 0 /\ m.found /\ m.spec
  BY DEF RecsFor, Holds, NoValue
<1>2. CASE rec.kind = "append"
  <2>1. rec.proposed \in m.list
    BY <1>2 DEF Holds, Proposed
  <2>2. m.list # {} /\ m.list # NotAList
    BY <1>1, <2>1 DEF NotAList
  <2> QED
    BY <1>1, <1>2, <2>1, <2>2 DEF OutcomeOf, Classify, Proposed
<1>3. CASE rec.kind # "append"
  <2>1. m.value = rec.proposed
    BY <1>3 DEF Holds, Proposed
  <2> QED
    BY <1>1, <1>3, <2>1 DEF OutcomeOf, Classify, Proposed, NoValue
<1> QED
  BY <1>2, <1>3
LEMMA ExitCodeSuccess ==
    ASSUME NEW outcomes \in Seq(Outcomes)
    PROVE  ExitCode(outcomes) = 0
             <=> \A i \in 1..Len(outcomes) : outcomes[i] \in {"clean", "already"}
<1>1. ExitCode(outcomes) = 0 <=> Range(outcomes) \subseteq {"clean", "already"}
  BY DEF ExitCode
<1>2. DOMAIN outcomes = 1..Len(outcomes)
  OBVIOUS
<1> QED
  BY <1>1, <1>2 DEF Range

\* What an application of a plan comes to, whatever the manifests hold and whichever
\* files cannot be written: a run that raises before it writes changes nothing; of the
\* files that cannot be written at most the first is changed, and only if it could be
\* opened.  Without force a value is only changed that a recommendation was made from
\* and a list only grows, in every other file; and if nothing was raised, success means
\* that every recommendation is in the manifests, and a second run changes nothing.
THEOREM PlanApplied ==
    ASSUME NEW Fleet \in SUBSET Int,
           call.about = "apply" =>
               /\ call.plan \in Seq(RecsFor(Fleet)) /\ FromOneState(call.plan)
               /\ call.manifests \in [Fleet -> Documents] /\ call.force \in BOOLEAN
    PROVE  ApplyIsSafe
<1> SUFFICES ASSUME call.about = "apply" PROVE ApplyIsSafe
  BY DEF ApplyIsSafe
<1> DEFINE plan == call.plan
           old == call.manifests
           force == call.force
           failing == call.failing
           D == Classified(plan, old, force)
           opened == call.opened
           W == WrittenFiles(D, failing)
           F == FailedFile(D, failing)
           done == ApplyRecommendations(plan, old, force, failing, opened)
           again == ApplyRecommendations(plan, done.manifests, FALSE, {}, FALSE)
           changed == {s \in DOMAIN old : done.manifests[s] # old[s]}
<1>1. /\ plan \in Seq(RecsFor(Fleet)) /\ FromOneState(plan) /\ old \in [Fleet -> Documents]
      /\ force \in BOOLEAN /\ DOMAIN old = Fleet
  OBVIOUS
<1>2. /\ done.outcomes = D.outcomes /\ done.raised = (D.raised \/ failing \cap D.modified # {})
      /\ done.manifests = [s \in Fleet |-> IF s \in W THEN D.docs[s]
                                       ELSE IF opened /\ s \in F THEN Emptied ELSE old[s]]
  BY <1>1 DEF ApplyRecommendations
<1>3. D.raised => W = {} /\ F = {}
  BY DEF WrittenFiles, FailedFile
<1>4. /\ W \subseteq D.modified /\ F \subseteq failing
      /\ \A s \in F : s \in D.modified /\ \A f \in failing \cap D.modified : s <= f
  BY DEF WrittenFiles, FailedFile
<1>10. D.modified \subseteq Fleet
  <2>1. PICK st : AppliesInTurn(st, Fleet, plan, old, force)
    BY <1>1, PlanApplies
  <2>2. D = st[Len(plan)] /\ st \in [0..Len(plan) -> ApplyStates(Fleet)]
    BY <2>1, Zenon DEF AppliesInTurn, D
  <2>4. Len(plan) \in 0..Len(plan)
    BY <1>1
  <2>3. D \in ApplyStates(Fleet)
    BY <2>2, <2>4
  <2> QED
    BY <2>3 DEF ApplyStates
<1>11. W \cap failing = {}
  <2>1. ASSUME NEW s \in W, s \in failing PROVE FALSE
    <3>1. s \in D.modified /\ s < s
      BY <2>1 DEF WrittenFiles
    <3>2. s \in Int
      BY <1>10, <3>1
    <3> QED
      BY <3>1, <3>2
  <2> QED
    BY <2>1
<1> HIDE DEF plan, old, force, failing, opened, D, W, F, done
<1>5. D.raised => changed = {}
  BY <1>1, <1>2, <1>3
<1>12. ASSUME NEW s \in changed \cap failing, NEW t \in changed \cap failing
       PROVE  opened /\ s = t
  <2>1. /\ opened /\ s \in F /\ t \in F
    BY <1>1, <1>2, <1>11, <1>12
  <2>2. s \in Int /\ t \in Int /\ s <= t /\ t <= s
    BY <1>4, <1>10, <2>1
  <2> QED
    BY <2>1, <2>2
<1>6. ASSUME ~force
      PROVE  /\ D \in ApplyStates(Fleet) /\ KeptSoFar(old, plan, D)
             /\ SettledSoFar(plan, D, Len(plan))
  <2>1. D = Classified(plan, old, FALSE)
    BY <1>1, <1>6 DEF D
  <2> QED
    BY <1>1, <2>1, FirstRun
<1>7. ASSUME ~force, NEW s \in changed \ failing
      PROVE  /\ old[s].list \subseteq done.manifests[s].list
             /\ old[s].value \notin {done.manifests[s].value, NoValue} =>
                    \E i \in DOMAIN plan : plan[i].service = s /\ plan[i].current = old[s].value
  <2>1. s \in Fleet /\ done.manifests[s] = D.docs[s]
    BY <1>1, <1>2, <1>4, <1>7
  <2> QED
    BY <1>1, <1>6, <1>7, <2>1 DEF KeptSoFar
<1>8. ASSUME ~force, ~done.raised
      PROVE  /\ again.manifests = done.manifests
             /\ ExitCode(done.outcomes) = 0 =>
                    \A i \in DOMAIN plan : Holds(done.manifests[plan[i].service], plan[i])
             /\ ExitCode(done.outcomes) = 0 => ExitCode(again.outcomes) = 0
  <2>1. ~D.raised /\ failing \cap D.modified = {}
    BY <1>2, <1>8
  <2>2. W = D.modified
    BY <2>1 DEF WrittenFiles, W
  <2>12. F = {}
    BY <2>1 DEF FailedFile, F
  <2>3. D.docs \in [Fleet -> Documents] /\ D.outcomes \in Seq(Outcomes)
    BY <1>6, <1>8 DEF ApplyStates
  <2>4. done.manifests = D.docs
    <3>1. \A s \in Fleet : s \notin W => D.docs[s] = old[s]
      BY <1>1, <1>6, <1>8, <2>2 DEF KeptSoFar
    <3> QED
      BY <1>2, <2>3, <2>12, <3>1
  <2>5. /\ Len(D.outcomes) = Len(plan)
        /\ \A i \in 1..Len(plan) :
               /\ SettledIn(D.docs[plan[i].service], plan[i])
               /\ D.outcomes[i] \in {"clean", "already"} => Holds(D.docs[plan[i].service], plan[i])
    BY <1>6, <1>8, <2>1 DEF SettledSoFar
  <2>6. DOMAIN plan = 1..Len(plan)
    BY <1>1
  <2> DEFINE A == Classified(plan, D.docs, FALSE)
  <2>7. AnswersAsFound(plan, D.docs, A, Len(plan)) /\ A \in ApplyStates(Fleet)
    <3> DEFINE ds == D.docs
    <3>1. ds \in [Fleet -> Documents] /\ \A i \in DOMAIN plan : SettledIn(ds[plan[i].service], plan[i])
      BY <2>3, <2>5, <2>6
    <3> HIDE DEF ds
    <3>2. AnswersAsFound(plan, ds, Classified(plan, ds, FALSE), Len(plan))
      BY <1>1, <3>1, SettledRun
    <3>3. Classified(plan, ds, FALSE) \in ApplyStates(Fleet)
      BY <1>1, <3>1, FirstRun
    <3> QED
      BY <3>2, <3>3 DEF ds
  <2> HIDE DEF A
  <2>8. /\ again.outcomes = A.outcomes
        /\ again.manifests = [s \in Fleet |-> IF s \in WrittenFiles(A, {}) THEN A.docs[s] ELSE D.docs[s]]
    BY <2>3, <2>4 DEF ApplyRecommendations, A
  <2>9. again.manifests = done.manifests
    <3>1. A.docs = D.docs
      BY <2>7 DEF AnswersAsFound
    <3> QED
      BY <2>3, <2>4, <2>8, <3>1
  <2>10. ASSUME ExitCode(done.outcomes) = 0
         PROVE  \A i \in 1..Len(plan) : Holds(D.docs[plan[i].service], plan[i])
    <3>1. \A i \in 1..Len(plan) : D.outcomes[i] \in {"clean", "already"}
      BY <1>2, <2>3, <2>5, <2>10, ExitCodeSuccess
    <3> QED
      BY <2>5, <3>1
  <2>11. ASSUME ExitCode(done.outcomes) = 0 PROVE ExitCode(again.outcomes) = 0
    <3>1. /\ Len(A.outcomes) = Len(plan) /\ A.outcomes \in Seq(Outcomes)
          /\ \A i \in 1..Len(plan) : A.outcomes[i] = OutcomeOf(D.docs[plan[i].service], plan[i])
      BY <2>7 DEF AnswersAsFound, ApplyStates
    <3>2. ASSUME NEW i \in 1..Len(plan) PROVE A.outcomes[i] = "already"
      <4>1. Holds(D.docs[plan[i].service], plan[i])
        BY <2>10, <2>11
      <4>2. plan[i] \in RecsFor(Fleet)
        BY <1>1, <2>6, ElementOfSeq
      <4>3. OutcomeOf(D.docs[plan[i].service], plan[i]) = "already"
        BY <4>1, <4>2, HeldIsAlready
      <4> QED
        BY <3>1, <4>3
    <3>3. \A i \in 1..Len(A.outcomes) : A.outcomes[i] \in {"clean", "already"}
      BY <3>1, <3>2
    <3>4. ExitCode(A.outcomes) = 0
      BY <3>1, <3>3, ExitCodeSuccess
    <3> QED
      BY <2>8, <3>4
  <2> QED
    BY <2>4, <2>6, <2>9, <2>10, <2>11
<1>9. call.about = "apply" =>
        /\ D.raised => changed = {}
        /\ \A s, t \in changed \cap failing : opened /\ s = t
        /\ ~force => \A s \in changed \ failing :
               LET was == old[s]  new == done.manifests[s]
               IN  /\ was.list # NotAList => was.list \subseteq new.list
                   /\ was.value \notin {new.value, NoValue} =>
                          \E i \in DOMAIN plan : plan[i].service = s /\ plan[i].current = was.value
        /\ (~force /\ ~done.raised) =>
               /\ again.manifests = done.manifests
               /\ ExitCode(done.outcomes) = 0 =>
                      \A i \in DOMAIN plan : Holds(done.manifests[plan[i].service], plan[i])
               /\ ExitCode(done.outcomes) = 0 => ExitCode(again.outcomes) = 0
  BY <1>5, <1>7, <1>8, <1>12, Zenon
<1> QED
  BY <1>9, Zenon DEF ApplyIsSafe, plan, old, force, failing, opened, D, done

-----------------------------------------------------------------------------
(***************************************************************************)
(* The recommendations, for any number of evaluations, causes and services *)
(* of a blast radius.                                                      *)
(***************************************************************************)

\* A set of numbers that is not empty has a least number.
LEMMA MinInSet ==
    ASSUME NEW S \in SUBSET Nat, S # {}
    PROVE  Min(S) \in S
<1> DEFINE R == {ss \in Nat \X Nat : ss[1] < ss[2]}
<1>1. PICK x \in S : \A y \in S : ~ (<<y, x>> \in R)
  <2> HIDE DEF R
  <2> QED
    BY LessThanWellFounded, WFMin DEF R
<1>2. \A y \in S : x =< y
  <2> TAKE y \in S
  <2>1. ~(y < x)
    BY <1>1
  <2> QED
    BY <2>1
<1> QED
  BY <1>1, <1>2, Zenon DEF Min

\* Appending what a sequence does not have keeps its elements apart.
LEMMA AppendDistinct ==
    ASSUME NEW X, NEW out \in Seq(X), NEW x \in X, IsInjective(out), x \notin Range(out)
    PROVE  IsInjective(Append(out, x)) /\ Range(Append(out, x)) = Range(out) \union {x}
<1> DEFINE n == Len(out)
           new == Append(out, x)
<1>1. n \in Nat /\ DOMAIN out = 1..n
  OBVIOUS
<1>2. /\ DOMAIN new = 1..(n + 1) /\ new[n + 1] = x /\ \A i \in 1..n : new[i] = out[i]
  <2>1. /\ new \in Seq(X) /\ Len(new) = n + 1 /\ new[n + 1] = x /\ \A i \in 1..n : new[i] = out[i]
    BY AppendProperties
  <2> QED
    BY <2>1
<1>3. /\ \A i \in 1..(n + 1) : i \in 1..n \/ i = n + 1
      /\ n + 1 \in 1..(n + 1) /\ 1..n \subseteq 1..(n + 1)
  BY <1>1
<1> HIDE DEF n, new
<1>4. \A i \in 1..n : new[i] # x
  BY <1>1, <1>2 DEF Range
<1>5. IsInjective(new)
  BY <1>1, <1>2, <1>3, <1>4 DEF IsInjective
<1>6. Range(new) = Range(out) \union {x}
  <2>1. \A y \in Range(new) : y \in Range(out) \union {x}
    BY <1>1, <1>2, <1>3 DEF Range
  <2>2. \A y \in Range(out) \union {x} : y \in Range(new)
    BY <1>1, <1>2, <1>3 DEF Range
  <2> QED
    BY <2>1, <2>2
<1> QED
  BY <1>5, <1>6 DEF new

\* The elements of w that are not in Skip, each once: what is kept of the first k.
KeptOf(w, Skip, out, k) ==
    IsInjective(out) /\ Range(out) = {w[j] : j \in 1..k} \ Skip

LEMMA KeptOfStep ==
    ASSUME NEW X, NEW w \in Seq(X), NEW Skip, NEW k \in 0..Len(w), k # Len(w),
           NEW out \in Seq(X), NEW next, KeptOf(w, Skip, out, k),
           \/ next = out /\ w[k + 1] \in Skip \union Range(out)
           \/ next = Append(out, w[k + 1]) /\ w[k + 1] \notin Skip \union Range(out)
    PROVE  next \in Seq(X) /\ KeptOf(w, Skip, next, k + 1)
<1>1. /\ k + 1 \in 1..Len(w) /\ (\A j \in 1..(k + 1) : j \in 1..k \/ j = k + 1)
      /\ 1..k \subseteq 1..(k + 1) /\ k + 1 \in 1..(k + 1)
  OBVIOUS
<1>2. w[k + 1] \in X
  BY <1>1, ElementOfSeq
<1>3. IsInjective(out) /\ Range(out) = {w[j] : j \in 1..k} \ Skip
  BY DEF KeptOf
<1> DEFINE seen == {w[j] : j \in 1..k}
<1>4. {w[j] : j \in 1..(k + 1)} = seen \union {w[k + 1]}
  BY <1>1
<1> HIDE DEF seen
<1>5. CASE next = out /\ w[k + 1] \in Skip \union Range(out)
  BY <1>3, <1>4, <1>5 DEF KeptOf, seen
<1>6. CASE next = Append(out, w[k + 1]) /\ w[k + 1] \notin Skip \union Range(out)
  <2> DEFINE x == w[k + 1]
  <2>1. x \in X /\ IsInjective(out) /\ x \notin Range(out) /\ next = Append(out, x)
    BY <1>2, <1>3, <1>6
  <2> HIDE DEF x
  <2>2. IsInjective(next) /\ Range(next) = Range(out) \union {x} /\ next \in Seq(X)
    BY <2>1, AppendDistinct, AppendProperties
  <2> QED
    BY <1>3, <1>4, <1>6, <2>2 DEF KeptOf, seen, x
<1> QED
  BY <1>5, <1>6

\* f is the function that NormalizeBlast and AddDependency go through.
Normalizes(f, blast) ==
    f = [k \in 0..Len(blast) |-> IF k = 0 THEN << >> ELSE FirstSeen(f[k - 1], blast[k])]
Undeclared(f, normal, trigger, declared) ==
    f = [k \in 0..Len(normal) |->
            IF k = 0 THEN << >>
            ELSE IF normal[k] \in {trigger} \union declared THEN f[k - 1]
            ELSE Append(f[k - 1], normal[k])]

LEMMA NormalizeExists ==
    ASSUME NEW X, NEW blast \in Seq(X)
    PROVE  \E g : Normalizes(g, blast)
<1> DEFINE n == Len(blast)
           O == Seq(X)
           step == [p \in O \X X |-> FirstSeen(p[1], p[2])]
<1>1. n \in Nat /\ blast \in [1..n -> X] /\ << >> \in O
  OBVIOUS
<1>2. \A out \in O, x \in X : FirstSeen(out, x) \in O
  BY AppendProperties DEF FirstSeen
<1>3. step \in [O \X X -> O] /\ \A out \in O, x \in X : step[out, x] = FirstSeen(out, x)
  BY <1>2
<1> HIDE DEF step, n, O
<1>4. PICK g \in [0..n -> O] : g[0] = << >> /\ \A i \in 1..n : g[i] = step[g[i - 1], blast[i]]
  <2>1. \E g \in [0..n -> O] : Iterates(g, << >>, step, n, blast)
    BY <1>1, <1>3, IterationExists
  <2> QED
    BY <2>1, Zenon DEF Iterates
<1>5. ASSUME NEW i \in 0..n
      PROVE  g[i] = IF i = 0 THEN << >> ELSE FirstSeen(g[i - 1], blast[i])
  <2>1. i # 0 => i \in 1..n /\ i - 1 \in 0..n
    BY <1>1
  <2>2. i # 0 => g[i - 1] \in O /\ blast[i] \in X
    BY <1>1, <2>1
  <2> QED
    BY <1>3, <1>4, <2>1, <2>2
<1>6. g = [i \in 0..n |-> IF i = 0 THEN << >> ELSE FirstSeen(g[i - 1], blast[i])]
  BY <1>5
<1> QED
  BY <1>6 DEF Normalizes, n

LEMMA UndeclaredExists ==
    ASSUME NEW X, NEW normal \in Seq(X), NEW trigger, NEW declared
    PROVE  \E g : Undeclared(g, normal, trigger, declared)
<1> DEFINE n == Len(normal)
           O == Seq(X)
           take(out, x) == IF x \in {trigger} \union declared THEN out ELSE Append(out, x)
           step == [p \in O \X X |-> take(p[1], p[2])]
<1>1. n \in Nat /\ normal \in [1..n -> X] /\ << >> \in O
  OBVIOUS
<1>2. \A out \in O, x \in X : take(out, x) \in O
  BY AppendProperties
<1> HIDE DEF take
<1>3. step \in [O \X X -> O] /\ \A out \in O, x \in X : step[out, x] = take(out, x)
  BY <1>2
<1> HIDE DEF step, n, O
<1>4. PICK g \in [0..n -> O] : g[0] = << >> /\ \A i \in 1..n : g[i] = step[g[i - 1], normal[i]]
  <2>1. \E g \in [0..n -> O] : Iterates(g, << >>, step, n, normal)
    BY <1>1, <1>3, IterationExists
  <2> QED
    BY <2>1, Zenon DEF Iterates
<1>5. ASSUME NEW i \in 0..n
      PROVE  g[i] = IF i = 0 THEN << >> ELSE take(g[i - 1], normal[i])
  <2>1. i # 0 => i \in 1..n /\ i - 1 \in 0..n
    BY <1>1
  <2>2. i # 0 => g[i - 1] \in O /\ normal[i] \in X
    BY <1>1, <2>1
  <2> QED
    BY <1>3, <1>4, <2>1, <2>2
<1>6. g = [i \in 0..n |-> IF i = 0 THEN << >> ELSE take(g[i - 1], normal[i])]
  BY <1>5
<1> QED
  BY <1>6 DEF Undeclared, n, take
\* What is proposed: the services of the blast radius that may be, each once.
LEMMA NormalizedBlast ==
    ASSUME NEW X, NEW blast \in Seq(X)
    PROVE  NormalizeBlast(blast) \in Seq(X) /\ KeptOf(blast, {0}, NormalizeBlast(blast), Len(blast))
<1> DEFINE n == Len(blast)
           f == CHOOSE g : Normalizes(g, blast)
           S == {k \in 0..n : f[k] \in Seq(X) /\ KeptOf(blast, {0}, f[k], k)}
<1>1. NormalizeBlast(blast) = f[n] /\ n \in Nat
  <2>1. NormalizeBlast(blast) = f[n]
    BY Zenon DEF NormalizeBlast, Normalizes
  <2> HIDE DEF f
  <2> QED
    BY <2>1
<1>2. Normalizes(f, blast)
  BY NormalizeExists, Zenon
<1> HIDE DEF f
<1>3. f[0] = << >> /\ \A k \in 1..n : f[k] = FirstSeen(f[k - 1], blast[k])
  <2>1. 0 \in 0..n /\ \A k \in 1..n : k \in 0..n /\ k # 0
    OBVIOUS
  <2> QED
    BY <1>2, <2>1 DEF Normalizes
<1>4. 0 \in S /\ n \in 0..n
  <2>1. KeptOf(blast, {0}, << >>, 0) /\ << >> \in Seq(X)
    BY DEF KeptOf, IsInjective, Range
  <2>2. 0 \in 0..n /\ n \in 0..n
    BY <1>1
  <2> HIDE DEF n
  <2> QED
    BY <1>3, <2>1, <2>2
<1>5. ASSUME NEW k \in 0..n, k \in S, k # n PROVE k + 1 \in S
  <2>1. k + 1 \in 1..n /\ k + 1 \in 0..n /\ (k + 1) - 1 = k
    <3> HIDE DEF S
    <3> QED
      BY <1>5
  <2>2. f[k + 1] = FirstSeen(f[k], blast[k + 1])
    BY <1>3, <2>1
  <2>3. \/ f[k + 1] = f[k] /\ blast[k + 1] \in {0} \union Range(f[k])
        \/ f[k + 1] = Append(f[k], blast[k + 1]) /\ blast[k + 1] \notin {0} \union Range(f[k])
    BY <2>2 DEF FirstSeen
  <2>4. f[k] \in Seq(X) /\ KeptOf(blast, {0}, f[k], k)
    BY <1>5
  <2>5. f[k + 1] \in Seq(X) /\ KeptOf(blast, {0}, f[k + 1], k + 1)
    BY <1>5, <2>3, <2>4, KeptOfStep
  <2> QED
    BY <2>1, <2>5
<1>6. \A k \in 0..n : k \in S
  <2>1. 0 \in Nat /\ n \in Nat
    BY <1>1
  <2> HIDE DEF S, n
  <2> QED
    BY <1>4, <1>5, <2>1, IntervalInduction
<1> QED
  BY <1>1, <1>4, <1>6

DependenciesOf(deps, trigger, blast, declared) ==
    /\ IsInjective(deps)
    /\ Range(deps) = Range(blast) \ ({0, trigger} \union declared)

LEMMA AddedDependencies ==
    ASSUME NEW X, NEW blast \in Seq(X), NEW trigger, trigger # 0, NEW declared
    PROVE  DependenciesOf(AddDependency(trigger, blast, declared), trigger, blast, declared)
<1> DEFINE normal == NormalizeBlast(blast)
           Skip == {trigger} \union declared
           n == Len(normal)
           f == CHOOSE g : Undeclared(g, normal, trigger, declared)
           S == {k \in 0..n : f[k] \in Seq(X) /\ KeptOf(normal, Skip, f[k], k)}
<1>1. normal \in Seq(X) /\ IsInjective(normal) /\ Range(normal) = Range(blast) \ {0}
  <2>1. normal \in Seq(X) /\ KeptOf(blast, {0}, normal, Len(blast))
    BY NormalizedBlast
  <2>2. Range(blast) = {blast[j] : j \in 1..Len(blast)}
    BY DEF Range
  <2> QED
    BY <2>1, <2>2 DEF KeptOf
<1> HIDE DEF normal
<1>2. n \in Nat /\ DOMAIN normal = 1..n
  BY <1>1
<1>3. AddDependency(trigger, blast, declared) = f[n]
  BY Zenon DEF AddDependency, Undeclared, normal
<1>4. Undeclared(f, normal, trigger, declared)
  BY <1>1, UndeclaredExists, Zenon
<1> HIDE DEF f
<1>5. f[0] = << >> /\ \A k \in 1..n : f[k] = IF normal[k] \in Skip THEN f[k - 1]
                                            ELSE Append(f[k - 1], normal[k])
  <2>1. 0 \in 0..n /\ \A k \in 1..n : k \in 0..n /\ k # 0
    BY <1>2
  <2> QED
    BY <1>4, <2>1 DEF Undeclared
<1>6. 0 \in S /\ n \in 0..n
  <2>1. KeptOf(normal, Skip, << >>, 0) /\ << >> \in Seq(X)
    BY DEF KeptOf, IsInjective, Range
  <2>2. 0 \in 0..n /\ n \in 0..n
    BY <1>2
  <2> HIDE DEF n, Skip
  <2> QED
    BY <1>5, <2>1, <2>2
<1>7. ASSUME NEW k \in 0..n, k \in S, k # n PROVE k + 1 \in S
  <2>1. k + 1 \in 1..n /\ k + 1 \in 0..n /\ (k + 1) - 1 = k
    <3> HIDE DEF S, n
    <3> QED
      BY <1>2, <1>7
  <2>2. f[k] \in Seq(X) /\ KeptOf(normal, Skip, f[k], k)
    BY <1>7
  <2>3. normal[k + 1] \notin Range(f[k])
    <3>1. Range(f[k]) \subseteq {normal[j] : j \in 1..k}
      BY <2>2 DEF KeptOf
    <3>2. \A j \in 1..k : j \in DOMAIN normal /\ j # k + 1
      <4> HIDE DEF n
      <4> QED
        BY <1>2, <2>1
    <3>3. \A j \in 1..k : normal[j] # normal[k + 1]
      BY <1>1, <1>2, <2>1, <3>2 DEF IsInjective
    <3> QED
      BY <3>1, <3>3
  <2>4. \/ f[k + 1] = f[k] /\ normal[k + 1] \in Skip \union Range(f[k])
        \/ f[k + 1] = Append(f[k], normal[k + 1]) /\ normal[k + 1] \notin Skip \union Range(f[k])
    BY <1>5, <2>1, <2>3
  <2> HIDE DEF Skip
  <2>5. f[k + 1] \in Seq(X) /\ KeptOf(normal, Skip, f[k + 1], k + 1)
    BY <1>1, <1>7, <2>2, <2>4, KeptOfStep
  <2> QED
    BY <2>1, <2>5
<1>8. \A k \in 0..n : k \in S
  <2>1. 0 \in Nat
    OBVIOUS
  <2> HIDE DEF S, n
  <2> QED
    BY <1>2, <1>6, <1>7, <2>1, IntervalInduction
<1>9. KeptOf(normal, Skip, f[n], n)
  BY <1>6, <1>8
<1>10. Range(normal) = {normal[j] : j \in 1..n}
  BY <1>2 DEF Range
<1> HIDE DEF n, S
<1> QED
  BY <1>1, <1>3, <1>9, <1>10 DEF KeptOf, DependenciesOf

EvaluationsOf(Fleet) ==
    [service : Fleet, judgment : BOOLEAN, breach : BOOLEAN, target : Int, current : Int]

\* A target is moved between the figure and the target that it missed.
LEMMA TightenedBetween ==
    ASSUME NEW Fleet, NEW evals \in Seq(EvaluationsOf(Fleet)), NEW i \in TightenSlo(evals)
    PROVE  /\ 2 * evals[i].current < Midpoint(evals[i])
           /\ Midpoint(evals[i]) < 2 * evals[i].target
<1> DEFINE e == evals[i]
           t == e.target
           c == e.current
<1>1. /\ i \in DOMAIN evals /\ e.target < 100 /\ 10 * Gap(e) >= 8 * (100 - e.target)
  BY DEF TightenSlo
<1>2. t \in Int /\ c \in Int
  <2>1. e \in EvaluationsOf(Fleet)
    BY <1>1, ElementOfSeq
  <2> QED
    BY <2>1 DEF EvaluationsOf
<1>3. Gap(e) = IF 0 <= t - c THEN t - c ELSE 0
  BY <1>2, MaxOfTwo DEF Gap
<1>4. t < 100 /\ 10 * (IF 0 <= t - c THEN t - c ELSE 0) >= 8 * (100 - t)
  BY <1>1, <1>3
<1> HIDE DEF t, c
<1>5. c < t
  BY <1>2, <1>4
<1>6. 2 * c < c + t /\ c + t < 2 * t
  BY <1>2, <1>5
<1> QED
  BY <1>6 DEF Midpoint, t, c

\* What is recommended, for any evaluations, causes and blast radius: a target moves only
\* to between the figure and itself, a dependency is proposed once and exactly when it is
\* in the blast radius and not declared, and a gate is keyed on its own service's judgment.
THEOREM RecommendationsGrounded ==
    ASSUME NEW Fleet, NEW X,
           call.about = "recommend" =>
               /\ call.evals \in Seq(EvaluationsOf(Fleet)) /\ call.blast \in Seq(X)
               /\ call.declared \subseteq X
    PROVE  RecommendationsAreGrounded
<1> SUFFICES ASSUME call.about = "recommend" PROVE RecommendationsAreGrounded
  BY DEF RecommendationsAreGrounded
<1> DEFINE evals == call.evals
           causes == call.causes
           deps == AddDependency(call.trigger, call.blast, call.declared)
<1>1. evals \in Seq(EvaluationsOf(Fleet)) /\ call.blast \in Seq(X)
  OBVIOUS
<1>2. ASSUME NEW i \in TightenSlo(evals)
      PROVE  2 * evals[i].current < Midpoint(evals[i]) /\ Midpoint(evals[i]) < 2 * evals[i].target
  BY <1>1, TightenedBetween
<1>3. IsInjective(deps) /\ Range(deps) \cap (call.declared \union {0, call.trigger}) = {}
  <2>1. CASE call.trigger = 0
    <3>1. deps = << >>
      BY <2>1 DEF AddDependency
    <3> HIDE DEF deps
    <3> QED
      BY <3>1 DEF IsInjective, Range
  <2>2. CASE call.trigger # 0
    <3>1. DependenciesOf(deps, call.trigger, call.blast, call.declared)
      BY <1>1, <2>2, AddedDependencies, Zenon
    <3> HIDE DEF deps
    <3>2. IsInjective(deps) /\ Range(deps) = Range(call.blast) \ ({0, call.trigger} \union call.declared)
      BY <3>1 DEF DependenciesOf
    <3> QED
      BY <3>2
  <2> QED
    BY <2>1, <2>2
<1>4. ASSUME call.trigger # 0, NEW s \in Range(call.blast) \ {0, call.trigger}
      PROVE  s \in call.declared \/ s \in Range(deps)
  BY <1>1, <1>4, AddedDependencies DEF DependenciesOf
<1>5. ASSUME NEW g \in Range(AddDeployGate(evals, causes)), g.signal # 0
      PROVE  evals[g.signal].service = g.service
  <2>1. PICK i \in DOMAIN causes : g = [service |-> causes[i].service,
                                        signal |-> GateSignal(evals, causes[i].service)]
    BY <1>5 DEF AddDeployGate, Range
  <2> DEFINE s == causes[i].service
             own == {k \in DOMAIN evals : evals[k].service = s /\ evals[k].judgment /\ evals[k].breach}
  <2>2. g.service = s /\ g.signal = GateSignal(evals, s)
    BY <2>1
  <2>3. own # {} /\ g.signal = Min(own)
    BY <1>5, <2>2 DEF GateSignal
  <2>4. own \in SUBSET Nat
    BY <1>1
  <2> HIDE DEF own
  <2>5. g.signal \in own
    BY <2>3, <2>4, MinInSet
  <2> QED
    BY <2>2, <2>5 DEF own
<1> HIDE DEF deps, evals, causes
<1> QED
  BY <1>2, <1>3, <1>4, <1>5, Zenon DEF RecommendationsAreGrounded, deps, evals, causes
\* What the run for a pull request comes to, whichever of its steps fail: a pull request
\* has a pushed branch, success a pull request or nothing to propose, and a branch that
\* could not be made leaves none behind.
THEOREM PullRequestLast ==
    ASSUME call.about = "pr" => /\ call.modified \in BOOLEAN /\ call.outcome \in 0..2
                                /\ call.modified => call.outcome # 2
    PROVE  PullRequestIsLast
<1> SUFFICES ASSUME call.about = "pr" PROVE PullRequestIsLast
  BY DEF PullRequestIsLast
<1> DEFINE result == PrPath(call.modified, call.outcome, call.failing)
           reached == {PrSteps[k] : k \in DoneSteps(call.failing)}
<1>1. /\ "create" \in reached => "push" \in reached
      /\ "push" \in reached => "checkout" \in reached
      /\ "checkout" \in reached => "branchFree" \in reached
  <2>1. /\ DOMAIN PrSteps = 1..11
        /\ PrSteps[6] = "branchFree" /\ PrSteps[7] = "checkout"
        /\ PrSteps[10] = "push" /\ PrSteps[11] = "create"
        /\ \A k \in 1..11 : /\ PrSteps[k] = "create" => k = 11
                            /\ PrSteps[k] = "push" => k = 10
                            /\ PrSteps[k] = "checkout" => k = 7
    BY DEF PrSteps
  <2>2. \A k \in DoneSteps(call.failing), j \in 1..11 : j <= k => j \in DoneSteps(call.failing)
    BY <2>1 DEF DoneSteps
  <2>3. DoneSteps(call.failing) \subseteq 1..11
    BY <2>1 DEF DoneSteps
  <2> QED
    BY <2>1, <2>2, <2>3
<1> HIDE DEF reached
<1>2. CASE ~call.modified
  <2>1. result = [exit |-> call.outcome, branch |-> FALSE, pushed |-> FALSE, pr |-> FALSE]
    BY <1>2 DEF PrPath
  <2> QED
    BY <1>2, <2>1 DEF PullRequestIsLast
<1>3. CASE call.modified
  <2>1. /\ result.branch <=> "checkout" \in reached
        /\ result.pushed <=> "push" \in reached
        /\ result.pr <=> "create" \in reached
        /\ result.exit = IF "create" \in reached THEN call.outcome
                         ELSE IF "branchFree" \notin reached THEN 2 ELSE 1
    BY <1>3 DEF PrPath, reached
  <2> HIDE DEF result
  <2> QED
    <3>1. result.pr => result.pushed /\ result.branch
      BY <1>1, <2>1
    <3>2. result.exit = 0 => call.outcome = 0 /\ result.pr
      BY <2>1
    <3>3. result.exit = 2 => ~result.branch
      BY <1>1, <1>3, <2>1
    <3> QED
      BY <3>1, <3>2, <3>3, Zenon DEF PullRequestIsLast, result
<1> QED
  BY <1>2, <1>3

-----------------------------------------------------------------------------
(***************************************************************************)
(* The scores of deployments and the signals of services.                  *)
(***************************************************************************)

\* A quotient by what is positive does not shrink when the number grows.
LEMMA QuotientGrows ==
    ASSUME NEW a \in Nat, NEW b \in Nat, NEW c \in Nat \ {0}, a <= b
    PROVE  a \div c \in Nat /\ b \div c \in Nat /\ a \div c <= b \div c
<1>1. PICK p : p = a \div c
  OBVIOUS
<1>2. PICK q : q = b \div c
  OBVIOUS
<1>3. p \in Int /\ q \in Int /\ p >= 0 /\ q >= 0
  BY <1>1, <1>2
<1>4. c * p <= a /\ a < c * (p + 1) /\ c * q <= b /\ b < c * (q + 1)
  BY <1>1, <1>2
<1>5. p <= q
  <2> SUFFICES ASSUME q + 1 <= p PROVE FALSE
    BY <1>3
  <2>1. (q + 1) * c <= p * c
    BY <1>3, ProductGrows
  <2>2. (q + 1) * c = c * (q + 1) /\ p * c = c * p
    BY <1>3
  <2> QED
    BY <1>3, <1>4, <2>1, <2>2
<1> QED
  BY <1>1, <1>2, <1>3, <1>5

\* What the confidence adds up to, before it is divided.
Weighted(burn, near, steep, depends, past) ==
    35 * burn + 25 * near + 15 * steep + 15 * depends + 10 * past

LEMMA CapWithin == ASSUME NEW x \in Nat PROVE Cap(x) \in Nat /\ Cap(x) <= 1000
  BY DEF Cap
LEMMA CapGrows == ASSUME NEW x \in Nat, NEW y \in Nat, x <= y PROVE Cap(x) <= Cap(y)
  BY DEF Cap

LEMMA BurnScores ==
    ASSUME NEW before \in Nat, NEW after \in Nat
    PROVE  /\ BurnScore(before, after) \in Nat /\ BurnScore(before, after + 1) \in Nat
           /\ BurnScore(before, after + 1) <= 1000
           /\ BurnScore(before, after) <= BurnScore(before, after + 1)
<1>1. after * 100 \in Nat /\ (after + 1) * 100 \in Nat /\ after * 100 <= (after + 1) * 100
      /\ after * 200 \in Nat /\ (after + 1) * 200 \in Nat /\ after * 200 <= (after + 1) * 200
  OBVIOUS
<1>2. CASE before = 0
  BY <1>1, <1>2, CapWithin, CapGrows DEF BurnScore
<1>3. CASE before # 0
  <2>1. /\ (after * 200) \div before \in Nat /\ ((after + 1) * 200) \div before \in Nat
        /\ (after * 200) \div before <= ((after + 1) * 200) \div before
    BY <1>1, <1>3, QuotientGrows
  <2>2. /\ BurnScore(before, after) = Cap((after * 200) \div before)
        /\ BurnScore(before, after + 1) = Cap(((after + 1) * 200) \div before)
    BY <1>3 DEF BurnScore
  <2> QED
    BY <2>1, <2>2, CapWithin, CapGrows
<1> QED
  BY <1>2, <1>3

\* x weighs no more than y, and both are shares.
NoHeavier(x, y) == /\ x \div 100 \in Nat /\ y \div 100 \in Nat
                   /\ y \div 100 <= 1000 /\ x \div 100 <= y \div 100
\* The scores, in thousandths.
Portions == {x \in Nat : x <= 1000}
LEMMA WeightedGrows ==
    ASSUME NEW a \in Portions, NEW b \in Portions, NEW c \in Portions, NEW d \in Portions,
           NEW e \in Portions, NEW f \in Portions, NEW g \in Portions, a <= f, b <= g
    PROVE  NoHeavier(Weighted(a, b, c, d, e), Weighted(f, g, c, d, e))
<1>1. Weighted(a, b, c, d, e) \in Nat /\ Weighted(f, g, c, d, e) \in Nat
  BY DEF Weighted, Portions
<1>2. Weighted(a, b, c, d, e) <= Weighted(f, g, c, d, e)
  BY DEF Weighted, Portions
<1>3. Weighted(f, g, c, d, e) <= 100000
  BY DEF Weighted, Portions
<1>4. PICK x \in Nat : x = Weighted(a, b, c, d, e)
  BY <1>1
<1>5. PICK y \in Nat : y = Weighted(f, g, c, d, e)
  BY <1>1
<1>6. x <= y /\ y <= 100000
  BY <1>2, <1>3, <1>4, <1>5
<1>7. x \div 100 \in Nat /\ y \div 100 \in Nat /\ y \div 100 <= 1000 /\ x \div 100 <= y \div 100
  BY <1>6
<1> QED
  BY <1>4, <1>5, <1>7 DEF NoHeavier

\* The confidence that a deployment caused a burn, for any figures: it is a share of one
\* and grows with the burn after the deployment and with their proximity.
CorrelatorCall ==
    call.about = "correlator" =>
        call \in [about : {"correlator"}, before : Nat, after : Nat, halves : 0..3, burn : Nat,
                  relation : STRING, deploys : Nat, prior : Nat]
LEMMA ScoresGrow ==
    ASSUME CorrelatorCall
    PROVE  CloserScoresHigher
<1> SUFFICES ASSUME call.about = "correlator" PROVE CloserScoresHigher
  BY DEF CloserScoresHigher
<1> DEFINE a == BurnScore(call.before, call.after)
           b == ProximityScore(call.halves)
           c == Cap(call.burn * 100)
           d == DependencyScore(call.relation)
           e == HistoryScore(call.deploys, call.prior)
<1>1. call.before \in Nat /\ call.after \in Nat /\ call.halves \in 0..3 /\ call.burn \in Nat
      /\ call.deploys \in Nat /\ call.prior \in Nat
  BY DEF CorrelatorCall
<1>2. PICK f \in Nat : f = BurnScore(call.before, call.after + 1) /\ a \in Nat /\ a <= f /\ f <= 1000
  <2> DEFINE Burns(x, y) == /\ BurnScore(x, y) \in Nat /\ BurnScore(x, y + 1) \in Nat
                            /\ BurnScore(x, y + 1) <= 1000 /\ BurnScore(x, y) <= BurnScore(x, y + 1)
  <2>1. \A x \in Nat : \A y \in Nat : Burns(x, y)
    BY BurnScores, Zenon
  <2> HIDE DEF Burns
  <2>2. Burns(call.before, call.after)
    BY <1>1, <2>1, Zenon
  <2> USE DEF Burns
  <2>3. /\ a \in Nat /\ BurnScore(call.before, call.after + 1) \in Nat
        /\ BurnScore(call.before, call.after + 1) <= 1000
        /\ a <= BurnScore(call.before, call.after + 1)
    BY <2>2, Zenon
  <2> HIDE DEF a, Burns
  <2> QED
    BY <2>3
<1>3. /\ ProximityScore(0) = 1000 /\ ProximityScore(1) = 368
      /\ ProximityScore(2) = 135 /\ ProximityScore(3) = 50
  BY DEF ProximityScore
<1>4. c \in Nat /\ c <= 1000
  <2>1. call.burn * 100 \in Nat
    BY <1>1
  <2> QED
    BY <2>1, CapWithin
<1>5. d \in Nat /\ d <= 1000
  BY DEF DependencyScore
<1>6. e \in Nat /\ e <= 1000
  <2>1. CASE call.deploys = 0
    BY <2>1 DEF HistoryScore
  <2>2. CASE call.deploys # 0
    <3>1. call.prior * 1000 \in Nat /\ call.deploys \in Nat \ {0}
      BY <1>1, <2>2
    <3>2. (call.prior * 1000) \div call.deploys \in Nat
      BY <3>1, QuotientGrows
    <3>3. e = Cap((call.prior * 1000) \div call.deploys)
      BY <2>2 DEF HistoryScore
    <3> HIDE DEF e
    <3> QED
      BY <3>2, <3>3, CapWithin
  <2> QED
    BY <2>1, <2>2
<1>7. Confidence(call) = Weighted(a, b, c, d, e) \div 100
  BY Zenon DEF Confidence, Weighted
<1> DEFINE nearer == [call EXCEPT !.halves = @ - 1]
           steeper == [call EXCEPT !.after = @ + 1]
<1>8. /\ nearer.before = call.before /\ nearer.after = call.after /\ nearer.burn = call.burn
      /\ nearer.relation = call.relation /\ nearer.deploys = call.deploys /\ nearer.prior = call.prior
      /\ nearer.halves = call.halves - 1
  BY DEF CorrelatorCall
<1>9. /\ steeper.before = call.before /\ steeper.halves = call.halves /\ steeper.burn = call.burn
      /\ steeper.relation = call.relation /\ steeper.deploys = call.deploys /\ steeper.prior = call.prior
      /\ steeper.after = call.after + 1
  BY DEF CorrelatorCall
<1> HIDE DEF nearer, steeper
<1>10. Confidence(nearer) = Weighted(a, ProximityScore(call.halves - 1), c, d, e) \div 100
  BY <1>8, Zenon DEF Confidence, Weighted
<1>11. Confidence(steeper) = Weighted(f, b, c, d, e) \div 100
  BY <1>2, <1>9, Zenon DEF Confidence, Weighted
<1>12. b \in Nat /\ b <= 1000
  BY <1>1, <1>3
<1>13. call.halves > 0 => ProximityScore(call.halves - 1) \in Nat /\ ProximityScore(call.halves - 1) <= 1000
                          /\ b <= ProximityScore(call.halves - 1)
  <2>1. CASE call.halves = 0
    BY <2>1
  <2>2. CASE call.halves = 1
    BY <1>3, <2>2
  <2>3. CASE call.halves = 2
    BY <1>3, <2>3
  <2>4. CASE call.halves = 3
    BY <1>3, <2>4
  <2> QED
    BY <1>1, <2>1, <2>2, <2>3, <2>4
<1> HIDE DEF a, b, c, d, e
<1>14. /\ Confidence(call) \in Nat /\ Confidence(steeper) <= 1000 /\ Confidence(steeper) \in Nat
       /\ Confidence(call) <= Confidence(steeper)
  <2>1. /\ a \in Portions /\ b \in Portions /\ c \in Portions /\ d \in Portions /\ e \in Portions
        /\ f \in Portions /\ a <= f /\ b <= b
    BY <1>2, <1>4, <1>5, <1>6, <1>12 DEF Portions
  <2>2. NoHeavier(Weighted(a, b, c, d, e), Weighted(f, b, c, d, e))
    BY <2>1, WeightedGrows
  <2> QED
    BY <1>7, <1>11, <2>2 DEF NoHeavier
<1>15. call.halves > 0 => Confidence(nearer) \in Nat /\ Confidence(nearer) >= Confidence(call)
  <2> SUFFICES ASSUME call.halves > 0 PROVE Confidence(nearer) \in Nat /\ Confidence(nearer) >= Confidence(call)
    OBVIOUS
  <2>1. PICK g \in Nat : g = ProximityScore(call.halves - 1) /\ b <= g /\ g <= 1000
    BY <1>13
  <2>2. /\ a \in Portions /\ b \in Portions /\ c \in Portions /\ d \in Portions /\ e \in Portions
        /\ g \in Portions /\ a <= a /\ b <= g
    BY <1>2, <1>4, <1>5, <1>6, <1>12, <2>1 DEF Portions
  <2>3. NoHeavier(Weighted(a, b, c, d, e), Weighted(a, g, c, d, e))
    BY <2>2, WeightedGrows
  <2> QED
    BY <1>7, <1>10, <2>1, <2>3 DEF NoHeavier
<1>16. Confidence(call) \in 0..1000 /\ Confidence(steeper) >= Confidence(call)
  BY <1>14
<1> QED
  BY <1>15, <1>16 DEF CloserScoresHigher, nearer, steeper

\* A drift is judged by its own service's series, for any targets.
LEMMA SignalsApart == SignalsKeepServicesApart
<1> SUFFICES ASSUME call.about = "signals"
             PROVE  DriftSignals(call.targets, call.budgeted)
                        = UNION {DriftSignals(<<call.targets[i]>>, call.budgeted) : i \in DOMAIN call.targets}
  BY DEF SignalsKeepServicesApart
<1> DEFINE T == call.targets
           Told(t) == t.slo \in call.budgeted[t.service] \ Failed /\ Len(t.history) >= 2
<1>1. DriftSignals(T, call.budgeted) = {T[i] : i \in {k \in DOMAIN T : Told(T[k])}}
  BY Zenon DEF DriftSignals
<1>2. ASSUME NEW t PROVE DriftSignals(<<t>>, call.budgeted) = {u \in {t} : Told(u)}
  <2> DEFINE one == <<t>>
  <2>1. DOMAIN one = {1} /\ one[1] = t
    OBVIOUS
  <2>2. DriftSignals(one, call.budgeted) = {one[i] : i \in {k \in DOMAIN one : Told(one[k])}}
    BY Zenon DEF DriftSignals
  <2> HIDE DEF one, Told
  <2>3. DriftSignals(one, call.budgeted) = {u \in {t} : Told(u)}
    BY <2>1, <2>2
  <2> QED
    BY <2>3 DEF one
<1> HIDE DEF Told
<1> DEFINE one(i) == DriftSignals(<<call.targets[i]>>, call.budgeted)
           few == {T[i] : i \in {k \in DOMAIN T : Told(T[k])}}
<1>3. \A i \in DOMAIN T : one(i) = {u \in {T[i]} : Told(u)}
  BY <1>2
<1> HIDE DEF one, T
<1>4. few = UNION {one(i) : i \in DOMAIN T}
  BY <1>3
<1> QED
  BY <1>1, <1>4 DEF few, one, T

-----------------------------------------------------------------------------
(***************************************************************************)
(* The cycle of the collector.                                             *)
(***************************************************************************)

SloStates == {"EXHAUSTED", "CRITICAL", "WARNING", "ERROR", "NO_DATA", "HEALTHY"}
Worst(w, S) == /\ w \in S /\ \A t \in S : Badness(t) <= Badness(w)
               /\ ("EXHAUSTED" \in S) <=> (w = "EXHAUSTED")
               /\ (S = {"HEALTHY"}) <=> (w = "HEALTHY")
               /\ (S \cap {"CRITICAL", "EXHAUSTED"} # {}) <=> (w \in {"CRITICAL", "EXHAUSTED"})

LEMMA ReadingHasStatus == ASSUME NEW slo PROVE Reading(slo).status \in SloStates
<1>1. ASSUME NEW pct PROVE StatusOf(pct) \in SloStates
  BY DEF StatusOf, SloStates
<1>2. PICK pct : Reading(slo).status \in {StatusOf(pct), "NO_DATA", "ERROR"}
  <2> DEFINE pct == IF slo.objective < 100
                    THEN ((100 - slo.answer) * 100) \div (100 - slo.objective) ELSE 0
  <2>1. CASE ~slo.query \/ slo.answer = NoAnswer
    BY <2>1 DEF Reading
  <2>2. CASE ~(~slo.query \/ slo.answer = NoAnswer) /\ slo.answer = Failure
    BY <2>2 DEF Reading
  <2>3. CASE ~(~slo.query \/ slo.answer = NoAnswer) /\ slo.answer # Failure
    <3>1. Reading(slo) = [status |-> StatusOf(pct), pct |-> pct]
      BY <2>3, Zenon DEF Reading
    <3> HIDE DEF pct
    <3> QED
      BY <3>1
  <2> QED
    BY <2>1, <2>2, <2>3
<1> QED
  BY <1>1, <1>2 DEF SloStates

LEMMA BadnessDistinct ==
    /\ \A t \in SloStates : Badness(t) \in Int /\ Badness(t) <= 4 /\ Badness(t) >= -1
    /\ Badness("EXHAUSTED") = 4 /\ Badness("HEALTHY") = -1
    /\ \A t \in SloStates : (Badness(t) = 4 => t = "EXHAUSTED") /\ (Badness(t) <= -1 => t = "HEALTHY")
                             /\ (Badness(t) >= 3 <=> t \in {"CRITICAL", "EXHAUSTED"})
  BY DEF Badness, SloStates

\* One of the statuses is the worst, and it is what the service has overall.
LEMMA WorstIsOne ==
    ASSUME NEW S \in SUBSET SloStates, S # {}
    PROVE  Worst(WorstStatus(S), S)
<1> DEFINE Top(s) == s \in S /\ \A t \in S : Badness(t) <= Badness(s)
<1>1. \E s : Top(s)
  <2>1. CASE "EXHAUSTED" \in S
    <3>1. Top("EXHAUSTED") BY <2>1 DEF Badness, SloStates
    <3> QED BY <3>1
  <2>2. CASE "CRITICAL" \in S /\ "EXHAUSTED" \notin S
    <3>1. Top("CRITICAL") BY <2>2 DEF Badness, SloStates
    <3> QED BY <3>1
  <2>3. CASE "WARNING" \in S /\ S \cap {"CRITICAL", "EXHAUSTED"} = {}
    <3>1. Top("WARNING") BY <2>3 DEF Badness, SloStates
    <3> QED BY <3>1
  <2>4. CASE "ERROR" \in S /\ S \cap {"WARNING", "CRITICAL", "EXHAUSTED"} = {}
    <3>1. Top("ERROR") BY <2>4 DEF Badness, SloStates
    <3> QED BY <3>1
  <2>5. CASE "NO_DATA" \in S /\ S \cap {"ERROR", "WARNING", "CRITICAL", "EXHAUSTED"} = {}
    <3>1. Top("NO_DATA") BY <2>5 DEF Badness, SloStates
    <3> QED BY <3>1
  <2>6. CASE S \cap {"NO_DATA", "ERROR", "WARNING", "CRITICAL", "EXHAUSTED"} = {}
    <3>1. Top("HEALTHY") BY <2>6 DEF Badness, SloStates
    <3> QED BY <3>1
  <2> QED
    BY <2>1, <2>2, <2>3, <2>4, <2>5, <2>6
<1>2. WorstStatus(S) = CHOOSE s \in S : \A t \in S : Badness(t) <= Badness(s)
  BY Zenon DEF WorstStatus
<1>3. Top(WorstStatus(S))
  BY <1>1, <1>2, Zenon
<1> DEFINE w == WorstStatus(S)
<1>4. w \in S /\ w \in SloStates /\ \A t \in S : t \in SloStates /\ Badness(t) <= Badness(w)
  BY <1>3
<1> HIDE DEF w
<1>5. "EXHAUSTED" \in S => w = "EXHAUSTED"
  BY <1>4, BadnessDistinct
<1>6. w = "HEALTHY" => S = {"HEALTHY"}
  <2> SUFFICES ASSUME w = "HEALTHY" PROVE \A t \in S : t = "HEALTHY"
    BY <1>4
  <2> QED
    BY <1>4, BadnessDistinct
<1>7. S \cap {"CRITICAL", "EXHAUSTED"} # {} => w \in {"CRITICAL", "EXHAUSTED"}
  <2> SUFFICES ASSUME NEW t \in S, t \in {"CRITICAL", "EXHAUSTED"} PROVE w \in {"CRITICAL", "EXHAUSTED"}
    OBVIOUS
  <2>1. Badness(t) >= 3 /\ Badness(t) <= Badness(w) /\ Badness(t) \in Int /\ Badness(w) \in Int /\ w \in SloStates
    BY <1>4, BadnessDistinct
  <2> QED
    BY <2>1, BadnessDistinct
<1>8. Worst(w, S)
  BY <1>4, <1>5, <1>6, <1>7 DEF Worst
<1> QED
  BY <1>8 DEF w

\* The services and their SLOs, for any readings of them.
DeclaredSlos == [name : Nat, query : BOOLEAN, ratio : SUBSET Nat, objective : Int, answer : Int]
Fleets == [ObservedServices -> [slos : Seq(DeclaredSlos), raises : BOOLEAN, refused : SUBSET Nat]]
\* The SLOs of a service have names of their own.
NamesApart(V) ==
    \A s \in ObservedServices : \A i, j \in DOMAIN V[s].slos : V[s].slos[i].name = V[s].slos[j].name => i = j
CycleCall ==
    call.about = "cycle" =>
        IsFiniteSet(ObservedServices) /\ call.services \in Fleets /\ NamesApart(call.services)

LEMMA SloStatuses ==
    ASSUME NEW X, NEW slos \in Seq(X), slos # << >>
    PROVE  Worst(Overall(slos), {Reading(slos[i]).status : i \in DOMAIN slos})
<1> DEFINE S == {Reading(slos[i]).status : i \in DOMAIN slos}
<1>1. S \in SUBSET SloStates
  BY ReadingHasStatus
<1>2. 1 \in DOMAIN slos
  OBVIOUS
<1>3. S # {}
  BY <1>2
<1>4. Overall(slos) = WorstStatus(S)
  BY Zenon DEF Overall
<1> HIDE DEF S
<1>5. Worst(Overall(slos), S)
  BY <1>1, <1>3, <1>4, WorstIsOne
<1> QED
  BY <1>5 DEF S

LEMMA CycleApart ==
    ASSUME CycleCall
    PROVE  CycleKeepsServicesApart
<1> SUFFICES ASSUME call.about = "cycle" PROVE CycleKeepsServicesApart
  BY DEF CycleKeepsServicesApart
<1> DEFINE V == call.services
           D == {s \in ObservedServices : V[s].slos # << >>}
           G == {s \in ObservedServices : V[s].slos # << >> /\ ~V[s].raises}
           alone(s) == [t \in {s} |-> V[t]]
           Its(s) == {<<s, i, Reading(V[s].slos[i]).status>> : i \in DOMAIN V[s].slos}
           counts == [b \in {"HEALTHY", "WARNING", "CRITICAL", "EXHAUSTED"} |->
                          {s \in G : Bucket(Overall(V[s].slos)) = b}]
           summary == [counts |-> counts, total |-> Cardinality(G),
                       errors |-> Cardinality(D) - Cardinality(G), parents |-> Parents(V)]
<1>1. DOMAIN V = ObservedServices /\ IsFiniteSet(ObservedServices)
  BY DEF CycleCall, Fleets
<1>2. Declared(V) = [s \in D |-> V[s]]
  <2>1. D = {t \in DOMAIN V : V[t].slos # << >>}
    BY <1>1
  <2> QED
    BY <2>1, Zenon DEF Declared
<1>3. Collected(V) = [s \in G |-> V[s]]
  <2>1. DOMAIN Declared(V) = D /\ \A s \in D : Declared(V)[s] = V[s]
    BY <1>2
  <2>2. {t \in DOMAIN Declared(V) : ~Declared(V)[t].raises} = G
    BY <2>1
  <2>3. Collected(V) = [s \in G |-> Declared(V)[s]]
    BY <2>2, Zenon DEF Collected
  <2>4. \A s \in G : Declared(V)[s] = V[s]
    BY <2>1
  <2> QED
    BY <2>3, <2>4, Zenon
<1>4. DOMAIN Collected(V) = G /\ \A s \in G : Collected(V)[s] = V[s]
  BY <1>3
<1>5. Submitted(V) = UNION {Its(s) : s \in G}
  BY <1>4, Zenon DEF Submitted
<1>6. ASSUME NEW s \in ObservedServices
      PROVE  Submitted(alone(s)) = IF s \in G THEN Its(s) ELSE {}
  <2> DEFINE A == alone(s)
             g == IF s \in G THEN {s} ELSE {}
  <2>1. DOMAIN A = {s} /\ A[s] = V[s]
    OBVIOUS
  <2> HIDE DEF A
  <2>2. DOMAIN Declared(A) = {t \in {s} : A[t].slos # << >>} /\ \A t \in DOMAIN Declared(A) : Declared(A)[t] = A[t]
    BY <2>1 DEF Declared
  <2>3. DOMAIN Collected(A) = {t \in DOMAIN Declared(A) : ~Declared(A)[t].raises}
    BY DEF Collected
  <2>4. DOMAIN Collected(A) = g
    BY <2>1, <2>2, <2>3
  <2> DEFINE Of(t) == {<<t, i, Reading(A[t].slos[i]).status>> : i \in DOMAIN A[t].slos}
  <2>5. Submitted(A) = UNION {Of(t) : t \in DOMAIN Collected(A)}
    BY Zenon DEF Submitted
  <2>6. Of(s) = Its(s)
    BY <2>1
  <2> HIDE DEF Of, Its, G
  <2>7. Submitted(A) = IF s \in G THEN Its(s) ELSE {}
    BY <2>4, <2>5, <2>6
  <2> QED
    BY <2>7 DEF A
<1>7. CollectCycle(V).slos = UNION {CollectCycle(alone(s)).slos : s \in ObservedServices}
  <2>1. ASSUME NEW v PROVE CollectCycle(v).slos = Submitted(v)
    BY DEF CollectCycle
  <2> DEFINE O(s) == CollectCycle(alone(s)).slos
  <2>2. \A s \in ObservedServices : O(s) = IF s \in G THEN Its(s) ELSE {}
    BY <1>6, <2>1, Zenon
  <2>3. G \subseteq ObservedServices
    OBVIOUS
  <2>4. CollectCycle(V).slos = UNION {Its(s) : s \in G}
    BY <1>5, <2>1, Zenon
  <2> HIDE DEF O, Its, G
  <2>5. UNION {Its(s) : s \in G} = UNION {O(s) : s \in ObservedServices}
    BY <2>2, <2>3
  <2>6. CollectCycle(V).slos = UNION {O(s) : s \in ObservedServices}
    BY <2>4, <2>5, Zenon
  <2> QED
    BY <2>6 DEF O
<1>8. CollectCycle(V).portfolio # << >> => CollectCycle(V).portfolio[1] = summary
  <2>1. Portfolio(Collected(V)) = counts
    <3>1. \A b : {s \in DOMAIN Collected(V) : Bucket(Overall(Collected(V)[s].slos)) = b}
                     = {s \in G : Bucket(Overall(V[s].slos)) = b}
      BY <1>4
    <3> QED
      BY <3>1, Zenon DEF Portfolio
  <2>2. DOMAIN Declared(V) = D
    BY <1>2
  <2>3. CollectCycle(V).portfolio = IF G = {} THEN << >> ELSE <<summary>>
    <3> HIDE DEF G, D, counts
    <3> DEFINE whole == [counts |-> Portfolio(Collected(V)), total |-> Cardinality(DOMAIN Collected(V)),
                         errors |-> Cardinality(DOMAIN Declared(V)) - Cardinality(DOMAIN Collected(V)),
                         parents |-> Parents(V)]
    <3>1. CollectCycle(V).portfolio = IF DOMAIN Collected(V) = {} THEN << >> ELSE <<whole>>
      BY DEF CollectCycle
    <3>2. whole = summary
      BY <1>4, <2>1, <2>2, Zenon
    <3> HIDE DEF whole, summary
    <3> QED
      BY <1>4, <3>1, <3>2
  <2> HIDE DEF summary, G
  <2> QED
    BY <2>3
<1>9. \A s \in G : Worst(Overall(V[s].slos), {Reading(V[s].slos[i]).status : i \in DOMAIN V[s].slos})
  <2> SUFFICES ASSUME NEW s \in G
               PROVE  Worst(Overall(V[s].slos), {Reading(V[s].slos[i]).status : i \in DOMAIN V[s].slos})
    OBVIOUS
  <2>1. V[s].slos # << >>
    OBVIOUS
  <2>2. V[s].slos \in Seq(DeclaredSlos)
    BY DEF CycleCall, Fleets
  <2> QED
    BY <2>1, <2>2, SloStatuses
<1>10. \A s \in summary.counts["HEALTHY"] : \A i \in DOMAIN V[s].slos : Reading(V[s].slos[i]).status = "HEALTHY"
  <2> SUFFICES ASSUME NEW s \in G, Bucket(Overall(V[s].slos)) = "HEALTHY", NEW i \in DOMAIN V[s].slos
               PROVE  Reading(V[s].slos[i]).status = "HEALTHY"
    OBVIOUS
  <2>1. Overall(V[s].slos) = "HEALTHY"
    BY DEF Bucket
  <2> DEFINE S == {Reading(V[s].slos[j]).status : j \in DOMAIN V[s].slos}
  <2>2. S = {"HEALTHY"}
    BY <1>9, <2>1, Zenon DEF Worst
  <2>3. Reading(V[s].slos[i]).status \in S
    OBVIOUS
  <2> QED
    BY <2>2, <2>3, Zenon
<1>11. \A s \in G : \A i \in DOMAIN V[s].slos :
           Reading(V[s].slos[i]).status = "EXHAUSTED" => s \in summary.counts["EXHAUSTED"]
  <2> SUFFICES ASSUME NEW s \in G, NEW i \in DOMAIN V[s].slos, Reading(V[s].slos[i]).status = "EXHAUSTED"
               PROVE  Bucket(Overall(V[s].slos)) = "EXHAUSTED"
    OBVIOUS
  <2> DEFINE S == {Reading(V[s].slos[j]).status : j \in DOMAIN V[s].slos}
  <2>1. Reading(V[s].slos[i]).status \in S
    OBVIOUS
  <2>2. Overall(V[s].slos) = "EXHAUSTED"
    BY <1>9, <2>1, Zenon DEF Worst
  <2> QED
    BY <2>2 DEF Bucket
<1>12. summary.total + summary.errors = Cardinality(D)
  <2>1. IsFiniteSet(G) /\ IsFiniteSet(D)
    <3>1. G \subseteq ObservedServices /\ D \subseteq ObservedServices
      OBVIOUS
    <3> QED
      BY <1>1, <3>1, FS_Subset, Zenon
  <2>2. Cardinality(G) \in Nat /\ Cardinality(D) \in Nat
    BY <2>1, FS_CardinalityType, Zenon
  <2>3. summary.total = Cardinality(G) /\ summary.errors = Cardinality(D) - Cardinality(G)
    OBVIOUS
  <2> HIDE DEF summary, G, D
  <2> QED
    BY <2>2, <2>3
<1> DEFINE cycle == CollectCycle(V)
<1>13. DOMAIN Collected(V) = G
  BY <1>4
<1>14. CycleKeepsServicesApart <=>
         LET told == cycle.portfolio[1]
         IN  /\ cycle.slos = UNION {CollectCycle(alone(s)).slos : s \in ObservedServices}
             /\ cycle.portfolio # << >> =>
                 /\ \A s \in told.counts["HEALTHY"] : \A i \in DOMAIN V[s].slos :
                        Reading(V[s].slos[i]).status = "HEALTHY"
                 /\ \A s \in DOMAIN Collected(V) : \A i \in DOMAIN V[s].slos :
                        Reading(V[s].slos[i]).status = "EXHAUSTED" => s \in told.counts["EXHAUSTED"]
                 /\ told.total + told.errors = Cardinality(D)
  BY Zenon DEF CycleKeepsServicesApart
<1> HIDE DEF V, D, G, alone, summary, cycle
<1>15. cycle.portfolio # << >> => cycle.portfolio[1] = summary
  BY <1>8 DEF cycle
<1>16. cycle.slos = UNION {CollectCycle(alone(s)).slos : s \in ObservedServices}
  BY <1>7 DEF cycle
<1> QED
  BY <1>10, <1>11, <1>12, <1>13, <1>14, <1>15, <1>16, Zenon

\* A set is listed whole, each of its members once.
LEMMA SetListed ==
    ASSUME NEW S, IsFiniteSet(S)
    PROVE  /\ Cardinality(S) \in Nat /\ SetToSeq(S) \in [1..Cardinality(S) -> S]
           /\ \A x \in S : \E k \in 1..Cardinality(S) : SetToSeq(S)[k] = x
<1> DEFINE n == Cardinality(S)
           f == SetToSeq(S)
           Lists(g) == g \in [1..n -> S] /\ IsInjective(g)
<1>1. n \in Nat /\ ExistsBijection(1..n, S)
  BY FS_CardinalityType, Zenon
<1>2. \E g : Lists(g)
  BY <1>1, Zenon DEF ExistsBijection, Bijection, Injection
<1>3. f = CHOOSE g \in [1..n -> S] : IsInjective(g)
  BY Zenon DEF SetToSeq
<1>4. Lists(f)
  <2> HIDE DEF f, n
  <2> QED
    BY <1>2, <1>3, Zenon
<1>5. f \in Injection(1..n, S)
  BY <1>4, Zenon DEF Injection
<1> HIDE DEF f
<1>6. Cardinality(1..n) = n
  <2> HIDE DEF n
  <2> QED
    BY <1>1, FS_Interval
<1>7. f \in Surjection(1..n, S)
  BY <1>5, <1>6, FS_Injection, Zenon
<1> QED
  BY <1>1, <1>4, <1>7, Zenon DEF Surjection, f, n

\* What is in a sequence.
Has(q, r) == \E k \in DOMAIN q : q[k] = r

LEMMA HasBoth ==
    ASSUME NEW R, NEW p \in Seq(R), NEW q \in Seq(R)
    PROVE  p \o q \in Seq(R) /\ \A r : Has(p \o q, r) <=> Has(p, r) \/ Has(q, r)
<1>1. DOMAIN p = 1..Len(p) /\ DOMAIN q = 1..Len(q) /\ DOMAIN (p \o q) = 1..(Len(p) + Len(q))
      /\ p \o q \in Seq(R) /\ Len(p) \in Nat /\ Len(q) \in Nat
  OBVIOUS
<1>2. \A k \in 1..Len(p) : (p \o q)[k] = p[k] /\ k \in 1..(Len(p) + Len(q))
  BY <1>1
<1>3. \A k \in 1..Len(q) : (p \o q)[Len(p) + k] = q[k] /\ Len(p) + k \in 1..(Len(p) + Len(q))
  BY <1>1
<1>4. ASSUME NEW k \in 1..(Len(p) + Len(q))
      PROVE  k \in 1..Len(p) \/ \E j \in 1..Len(q) : k = Len(p) + j
  <2>1. CASE k <= Len(p)
    BY <1>1, <2>1
  <2>2. CASE k > Len(p)
    <3>1. k - Len(p) \in 1..Len(q) /\ k = Len(p) + (k - Len(p))
      BY <1>1, <2>2
    <3> QED
      BY <3>1
  <2> QED
    BY <1>1, <2>1, <2>2
<1>5. ASSUME NEW r PROVE Has(p \o q, r) <=> Has(p, r) \/ Has(q, r)
  <2>1. ASSUME Has(p \o q, r) PROVE Has(p, r) \/ Has(q, r)
    <3>1. PICK k \in 1..(Len(p) + Len(q)) : (p \o q)[k] = r
      BY <1>1, <2>1 DEF Has
    <3> QED
      BY <1>1, <1>2, <1>3, <1>4, <3>1, Zenon DEF Has
  <2> QED
    BY <1>1, <1>2, <1>3, <2>1, Zenon DEF Has
<1> QED
  BY <1>1, <1>5

\* Sequences one after another hold what each of them holds.
LEMMA FlattenHas ==
    ASSUME NEW R, NEW n \in Nat, NEW q \in [1..n -> Seq(R)]
    PROVE  FlattenSeq(q) \in Seq(R) /\ \A r : Has(FlattenSeq(q), r) <=> \E j \in 1..n : Has(q[j], r)
<1>0. q \in Seq(Seq(R)) /\ Len(q) = n
  OBVIOUS
<1>1. CASE n = 0
  <2>1. FlattenSeq(q) = q /\ q = << >>
    BY <1>0, <1>1 DEF FlattenSeq
  <2> QED
    BY <1>1, <2>1 DEF Has
<1>2. CASE n # 0
  <2> DEFINE step == [p \in Seq(R) \X Seq(R) |-> p[1] \o p[2]]
             F(g, i) == IF i = 1 THEN q[i] ELSE g[i - 1] \o q[i]
             Q(f) == f = [i \in 1..n |-> F(f, i)]
             fl == CHOOSE f : Q(f)
  <2>1. step \in [Seq(R) \X Seq(R) -> Seq(R)] /\ << >> \in Seq(R)
    OBVIOUS
  <2>2. \A a, b \in Seq(R) : step[a, b] = a \o b
    OBVIOUS
  <2> HIDE DEF step
  <2>3. PICK g \in [0..n -> Seq(R)] : Iterates(g, << >>, step, n, q)
    BY <2>1, IterationExists
  <2>4. ASSUME NEW i \in 1..n PROVE g[i] = g[i - 1] \o q[i] /\ g[i - 1] \in Seq(R) /\ g[i] \in Seq(R)
    <3>1. i - 1 \in 0..n /\ i \in 0..n
      OBVIOUS
    <3>2. g[i] = step[g[i - 1], q[i]]
      BY <2>3, Zenon DEF Iterates
    <3>3. g[i - 1] \in Seq(R) /\ g[i] \in Seq(R) /\ q[i] \in Seq(R)
      BY <3>1
    <3> QED
      BY <2>2, <3>2, <3>3
  <2>5. g[0] = << >>
    BY <2>3, Zenon DEF Iterates
  <2> DEFINE h == [i \in 1..n |-> g[i]]
  <2>6. \A i \in 1..n : h[i] = F(h, i)
    <3> SUFFICES ASSUME NEW i \in 1..n PROVE h[i] = F(h, i)
      OBVIOUS
    <3>1. CASE i = 1
      <4>1. g[1] = g[0] \o q[1] /\ q[1] \in Seq(R)
        BY <2>4, <3>1
      <4>2. g[1] = q[1]
        BY <2>5, <4>1
      <4> QED
        BY <3>1, <4>2
    <3>2. CASE i # 1
      <4>1. i - 1 \in 1..n
        BY <3>2
      <4>2. h[i] = g[i] /\ h[i - 1] = g[i - 1]
        BY <4>1
      <4> HIDE DEF h
      <4> QED
        BY <2>4, <3>2, <4>2
    <3> QED
      BY <3>1, <3>2
  <2>7. Q(fl)
    <3>1. Q(h)
      <4> HIDE DEF F
      <4> QED
        BY <2>6
    <3> HIDE DEF Q, h
    <3> QED
      BY <3>1
  <2>8. FlattenSeq(q) = fl[n]
    <3>1. Len(q) # 0
      BY <1>0, <1>2
    <3> QED
      BY <1>0, <3>1, Zenon DEF FlattenSeq
  <2> HIDE DEF fl
  <2>9. \A i \in 1..n : fl[i] = F(fl, i)
    <3> HIDE DEF F
    <3>1. fl = [i \in 1..n |-> F(fl, i)]
      BY <2>7
    <3> QED
      BY <3>1, Zenon
  <2> DEFINE Held(i) == fl[i] \in Seq(R) /\ \A r : Has(fl[i], r) <=> \E j \in 1..i : Has(q[j], r)
             S == {i \in 1..n : Held(i)}
  <2>10. 1 \in S
    <3>1. 1 \in 1..n
      BY <1>2
    <3>2. fl[1] = q[1] /\ q[1] \in Seq(R)
      BY <2>9, <3>1
    <3>3. \A j \in 1..1 : j = 1
      OBVIOUS
    <3>4. Held(1)
      BY <3>2, <3>3
    <3> QED
      BY <3>1, <3>4
  <2>11. ASSUME NEW k \in 1..n, k \in S, k # n PROVE k + 1 \in S
    <3>1. k + 1 \in 1..n /\ k + 1 # 1 /\ (k + 1) - 1 = k
      BY <2>11
    <3>2. fl[k + 1] = fl[k] \o q[k + 1] /\ q[k + 1] \in Seq(R)
      BY <2>9, <3>1
    <3>3. Held(k)
      BY <2>11
    <3>4. fl[k + 1] \in Seq(R) /\ \A r : Has(fl[k + 1], r) <=> Has(fl[k], r) \/ Has(q[k + 1], r)
      BY <3>2, <3>3, HasBoth
    <3>5. \A j \in 1..(k + 1) : j \in 1..k \/ j = k + 1
      OBVIOUS
    <3>6. \A j \in 1..k : j \in 1..(k + 1)
      OBVIOUS
    <3>7. k + 1 \in 1..(k + 1)
      OBVIOUS
    <3>8. Held(k + 1)
      BY <3>3, <3>4, <3>5, <3>6, <3>7, Zenon
    <3> QED
      BY <3>1, <3>8
  <2> HIDE DEF S
  <2>12. \A k \in 1..n : k \in S
    <3>1. 1 \in Nat
      OBVIOUS
    <3> QED
      BY <2>10, <2>11, <3>1, IntervalInduction
  <2>13. n \in S
    <3>1. n \in 1..n
      BY <1>2
    <3> QED
      BY <2>12, <3>1
  <2> QED
    BY <2>8, <2>13 DEF S
<1> QED
  BY <1>1, <1>2

LEMMA ReverseHas ==
    ASSUME NEW R, NEW q \in Seq(R)
    PROVE  Reverse(q) \in Seq(R) /\ \A r : Has(Reverse(q), r) <=> Has(q, r)
<1>1. /\ Reverse(q) \in Seq(R) /\ DOMAIN Reverse(q) = 1..Len(q) /\ DOMAIN q = 1..Len(q) /\ Len(q) \in Nat
      /\ \A i \in 1..Len(q) : Reverse(q)[i] = q[(Len(q) - i) + 1]
  BY DEF Reverse
<1>2. \A i \in 1..Len(q) : (Len(q) - i) + 1 \in 1..Len(q) /\ i = (Len(q) - ((Len(q) - i) + 1)) + 1
  BY <1>1
<1>3. ASSUME NEW r, Has(Reverse(q), r) PROVE Has(q, r)
  <2>1. PICK k \in 1..Len(q) : Reverse(q)[k] = r
    BY <1>1, <1>3 DEF Has
  <2> QED
    BY <1>1, <1>2, <2>1, Zenon DEF Has
<1>4. ASSUME NEW r, Has(q, r) PROVE Has(Reverse(q), r)
  <2>1. PICK k \in 1..Len(q) : q[k] = r
    BY <1>1, <1>4 DEF Has
  <2>2. PICK j \in 1..Len(q) : j = (Len(q) - k) + 1
    BY <1>2
  <2>3. k = (Len(q) - j) + 1
    BY <1>2, <2>2
  <2>4. Reverse(q)[j] = r
    BY <1>1, <2>1, <2>3
  <2> QED
    BY <1>1, <2>4, Zenon DEF Has
<1> QED
  BY <1>1, <1>3, <1>4, Zenon

\* What collect stores of a service's SLO.
Stored(V, s, i) ==
    [service |-> s, slo |-> V[s].slos[i].name, status |-> Reading(V[s].slos[i]).status]
StoredSet == [service : ObservedServices, slo : Nat, status : SloStates]

\* The store holds a record of each SLO of each service and no other.
LEMMA StoreHas ==
    ASSUME IsFiniteSet(ObservedServices), NEW V \in Fleets
    PROVE  /\ StoredBy(V) \in Seq(StoredSet)
           /\ \A r : Has(StoredBy(V), r) <=> \E s \in ObservedServices : \E i \in DOMAIN V[s].slos : r = Stored(V, s, i)
<1> DEFINE f == SetToSeq(ObservedServices)
           n == Cardinality(ObservedServices)
           of(s) == [i \in DOMAIN V[s].slos |-> Stored(V, s, i)]
           q == [k \in 1..n |-> of(f[k])]
<1>1. /\ n \in Nat /\ f \in [1..n -> ObservedServices]
      /\ \A x \in ObservedServices : \E k \in 1..n : f[k] = x
  BY SetListed
<1>2. DOMAIN V = ObservedServices
  BY DEF Fleets
<1>3. StoredBy(V) = Reverse(FlattenSeq(q))
  <2>1. DOMAIN f = 1..n
    BY <1>1
  <2> HIDE DEF n
  <2> QED
    BY <1>2, <2>1, Zenon DEF StoredBy, Stored
<1>4. ASSUME NEW s \in ObservedServices
      PROVE  of(s) \in Seq(StoredSet) /\ \A r : Has(of(s), r) <=> \E i \in DOMAIN V[s].slos : r = Stored(V, s, i)
  <2>1. V[s].slos \in Seq(DeclaredSlos)
    BY DEF Fleets
  <2>2. DOMAIN V[s].slos = 1..Len(V[s].slos) /\ Len(V[s].slos) \in Nat
    BY <2>1, SequenceDomain
  <2>3. \A i \in DOMAIN V[s].slos : Stored(V, s, i) \in StoredSet
    <3> SUFFICES ASSUME NEW i \in DOMAIN V[s].slos PROVE Stored(V, s, i) \in StoredSet
      OBVIOUS
    <3>1. V[s].slos[i] \in DeclaredSlos
      BY <2>1
    <3>2. V[s].slos[i].name \in Nat
      BY <3>1 DEF DeclaredSlos
    <3> QED
      BY <3>2, ReadingHasStatus DEF Stored, StoredSet
  <2>4. of(s) \in Seq(StoredSet)
    BY <2>2, <2>3
  <2>5. ASSUME NEW r PROVE Has(of(s), r) <=> \E i \in DOMAIN V[s].slos : r = Stored(V, s, i)
    BY Zenon DEF Has
  <2> QED
    BY <2>4, <2>5
<1> HIDE DEF of, f, n
<1>5. q \in [1..n -> Seq(StoredSet)] /\ \A k \in 1..n : q[k] = of(f[k]) /\ f[k] \in ObservedServices
  BY <1>1, <1>4
<1> HIDE DEF q
<1>6. FlattenSeq(q) \in Seq(StoredSet) /\ \A r : Has(FlattenSeq(q), r) <=> \E j \in 1..n : Has(q[j], r)
  BY <1>1, <1>5, FlattenHas
<1>7. StoredBy(V) \in Seq(StoredSet) /\ \A r : Has(StoredBy(V), r) <=> Has(FlattenSeq(q), r)
  BY <1>3, <1>6, ReverseHas
<1>8. ASSUME NEW r
      PROVE  (\E j \in 1..n : Has(q[j], r)) <=> \E s \in ObservedServices : \E i \in DOMAIN V[s].slos : r = Stored(V, s, i)
  <2>1. ASSUME NEW j \in 1..n, Has(q[j], r)
        PROVE  \E s \in ObservedServices : \E i \in DOMAIN V[s].slos : r = Stored(V, s, i)
    BY <1>4, <1>5, <2>1, Zenon
  <2>2. ASSUME NEW s \in ObservedServices, \E i \in DOMAIN V[s].slos : r = Stored(V, s, i)
        PROVE  \E j \in 1..n : Has(q[j], r)
    <3>1. PICK k \in 1..n : f[k] = s
      BY <1>1
    <3>2. Has(q[k], r)
      BY <1>4, <1>5, <2>2, <3>1, Zenon
    <3> QED
      BY <3>2
  <2> QED
    BY <2>1, <2>2, Zenon
<1> QED
  BY <1>6, <1>7, <1>8, Zenon

\* The latest reading of an SLO is the one that was collected.
LEMMA LatestIsCollected ==
    ASSUME IsFiniteSet(ObservedServices), NEW V \in Fleets, NamesApart(V), NEW s \in ObservedServices
    PROVE  Latest(StoredBy(V), s) = {Stored(V, s, i) : i \in DOMAIN V[s].slos}
<1> DEFINE log == StoredBy(V)
           Unseen(j) == log[j].service = s /\ \A i \in 1..(j - 1) : log[i].service # s \/ log[i].slo # log[j].slo
<1>1. log \in Seq(StoredSet)
      /\ \A r : Has(log, r) <=> \E t \in ObservedServices : \E i \in DOMAIN V[t].slos : r = Stored(V, t, i)
  BY StoreHas
<1>2. Latest(log, s) = {log[k] : k \in {j \in DOMAIN log : Unseen(j)}}
  BY Zenon DEF Latest
<1>3. \A t, i : Stored(V, t, i).service = t /\ Stored(V, t, i).slo = V[t].slos[i].name
  BY DEF Stored
<1> HIDE DEF log
<1>4. DOMAIN log = 1..Len(log) /\ Len(log) \in Nat
  BY <1>1
<1>5. ASSUME NEW k \in DOMAIN log
      PROVE  \E t \in ObservedServices : \E i \in DOMAIN V[t].slos : log[k] = Stored(V, t, i)
  BY <1>1, Zenon DEF Has
<1>6. ASSUME NEW k \in DOMAIN log, log[k].service = s
      PROVE  \E i \in DOMAIN V[s].slos : log[k] = Stored(V, s, i)
  <2>1. PICK t \in ObservedServices : \E i \in DOMAIN V[t].slos : log[k] = Stored(V, t, i)
    BY <1>5, Zenon
  <2>2. PICK i \in DOMAIN V[t].slos : log[k] = Stored(V, t, i)
    BY <2>1, Zenon
  <2>3. t = s
    BY <1>3, <1>6, <2>2
  <2> QED
    BY <2>2, <2>3
<1>7. ASSUME NEW i \in DOMAIN V[s].slos
      PROVE  \E k \in DOMAIN log : Unseen(k) /\ log[k] = Stored(V, s, i)
  <2> DEFINE K == {k \in DOMAIN log : log[k].service = s /\ log[k].slo = V[s].slos[i].name}
  <2>1. K # {}
    <3>1. Has(log, Stored(V, s, i))
      BY <1>1, Zenon
    <3> QED
      BY <1>3, <3>1 DEF Has
  <2>2. K \in SUBSET Int /\ IsFiniteSet(K)
    <3>1. K \in SUBSET (1..Len(log)) /\ IsFiniteSet(1..Len(log))
      BY <1>4, FS_Interval
    <3> QED
      BY <3>1, FS_Subset
  <2> DEFINE m == Min(K)
  <2>3. m \in K /\ \A y \in K : m <= y
    <3> HIDE DEF K
    <3> QED
      BY <2>1, <2>2, FiniteEnds
  <2> HIDE DEF m
  <2>4. m \in DOMAIN log /\ m \in 1..Len(log) /\ log[m].service = s /\ log[m].slo = V[s].slos[i].name
    BY <1>4, <2>3
  <2>5. Unseen(m)
    <3> SUFFICES ASSUME NEW l \in 1..(m - 1) PROVE log[l].service # s \/ log[l].slo # log[m].slo
      BY <2>4
    <3>1. l \in DOMAIN log /\ ~(m <= l)
      BY <1>4, <2>4
    <3>2. l \notin K
      BY <2>3, <3>1
    <3> QED
      BY <2>4, <3>1, <3>2
  <2>6. PICK j \in DOMAIN V[s].slos : log[m] = Stored(V, s, j)
    BY <1>6, <2>4
  <2>7. j = i
    <3>1. V[s].slos[j].name = V[s].slos[i].name
      BY <1>3, <2>4, <2>6
    <3> QED
      BY <3>1, Zenon DEF NamesApart
  <2> QED
    BY <2>4, <2>5, <2>6, <2>7
<1>8. \A k \in DOMAIN log : Unseen(k) => log[k].service = s
  OBVIOUS
<1> HIDE DEF Unseen
<1>9. {log[k] : k \in {j \in DOMAIN log : Unseen(j)}} \subseteq {Stored(V, s, i) : i \in DOMAIN V[s].slos}
  BY <1>6, <1>8
<1>10. {Stored(V, s, i) : i \in DOMAIN V[s].slos} \subseteq {log[k] : k \in {j \in DOMAIN log : Unseen(j)}}
  BY <1>7
<1> QED
  BY <1>2, <1>9, <1>10, Zenon DEF log

LEMMA ScoreIsFull ==
    ASSUME NEW slos \in Seq(DeclaredSlos)
    PROVE  Score(slos) = 100 <=> (slos # << >> /\ \A i \in DOMAIN slos : Reading(slos[i]).status = "HEALTHY")
<1> DEFINE n == Len(slos)
           H == {i \in DOMAIN slos : Reading(slos[i]).status = "HEALTHY"}
           c == Cardinality(H)
<1>1. n \in Nat /\ DOMAIN slos = 1..n /\ (slos = << >> <=> n = 0)
  BY SequenceDomain
<1>2. IsFiniteSet(1..n) /\ Cardinality(1..n) = n
  <2> HIDE DEF n
  <2> QED
    BY <1>1, FS_Interval
<1>3. c \in Nat /\ c <= n /\ (c = n => H = DOMAIN slos)
  <2>1. H \subseteq 1..n
    BY <1>1
  <2> HIDE DEF H, n
  <2>2. IsFiniteSet(H) /\ c <= n /\ (c = n => H = 1..n)
    BY <1>2, <2>1, FS_Subset
  <2> QED
    BY <1>1, <2>2, FS_CardinalityType
<1>4. H = DOMAIN slos => c = n
  <2> HIDE DEF H, n
  <2> QED
    BY <1>1, <1>2
<1>5. H = DOMAIN slos <=> \A i \in DOMAIN slos : Reading(slos[i]).status = "HEALTHY"
  OBVIOUS
<1>6. Score(slos) = IF slos = << >> THEN 0 ELSE (100 * c) \div n
  BY Zenon DEF Score
<1> HIDE DEF H, n, c
<1>7. CASE n = 0
  BY <1>1, <1>6, <1>7
<1>8. CASE n # 0
  <2>1. PICK x \in Nat, y \in Nat : x = c /\ y = n /\ y > 0 /\ x <= y
    BY <1>1, <1>3, <1>8
  <2>2. PICK p : p = (100 * x) \div y
    OBVIOUS
  <2>3. p \in Int /\ y * p <= 100 * x /\ 100 * x < y * (p + 1)
    BY <2>1, <2>2
  <2>4. p = 100 => x = y
    BY <2>1, <2>3
  <2>5. x = y => p = 100
    <3> SUFFICES ASSUME x = y PROVE p = 100
      OBVIOUS
    <3>1. y * p <= 100 * y /\ 100 * y < y * (p + 1)
      BY <2>3
    <3>2. ASSUME p > 100 PROVE FALSE
      <4>1. 101 * y <= p * y /\ p * y = y * p
        BY <2>1, <2>3, <3>2, ProductGrows
      <4> QED
        BY <2>1, <2>3, <3>1, <4>1
    <3>3. ASSUME p < 100 PROVE FALSE
      <4>1. (p + 1) * y <= 100 * y /\ (p + 1) * y = y * (p + 1)
        BY <2>1, <2>3, <3>3, ProductGrows
      <4> QED
        BY <2>1, <2>3, <3>1, <4>1
    <3> QED
      BY <2>3, <3>2, <3>3
  <2>6. Score(slos) = p
    BY <1>1, <1>6, <1>8, <2>1, <2>2
  <2> QED
    BY <1>1, <1>3, <1>4, <1>5, <1>8, <2>1, <2>4, <2>5, <2>6
<1> QED
  BY <1>7, <1>8

LEMMA AgreeOnOne ==
    ASSUME IsFiniteSet(ObservedServices), NEW V \in Fleets, NamesApart(V), NEW s \in ObservedServices
    PROVE  LET w == OverallStored(StoredBy(V), s) IN
           /\ w = Overall(V[s].slos)
           /\ Score(V[s].slos) = 100 <=> w = "HEALTHY"
           /\ (\E r \in Latest(StoredBy(V), s) : ExplainSeverity(r.status) = "critical")
                  <=> Bucket(w) \in {"CRITICAL", "EXHAUSTED"}
           /\ (\E i \in DOMAIN V[s].slos : Reading(V[s].slos[i]).status \in {"CRITICAL", "EXHAUSTED"})
                  <=> Bucket(w) \in {"CRITICAL", "EXHAUSTED"}
<1> DEFINE w == OverallStored(StoredBy(V), s)
           S == {Reading(V[s].slos[i]).status : i \in DOMAIN V[s].slos}
<1>1. Latest(StoredBy(V), s) = {Stored(V, s, i) : i \in DOMAIN V[s].slos}
  BY LatestIsCollected
<1>2. \A i : Stored(V, s, i).status = Reading(V[s].slos[i]).status
  BY DEF Stored
<1>3. {r.status : r \in Latest(StoredBy(V), s)} = S
  BY <1>1, <1>2
<1>4. w = WorstStatus(S) /\ Overall(V[s].slos) = WorstStatus(S)
  BY <1>3, Zenon DEF OverallStored, Overall
<1>5. V[s].slos \in Seq(DeclaredSlos)
  BY DEF Fleets
<1>6. Bucket(w) \in {"CRITICAL", "EXHAUSTED"} <=> w \in {"CRITICAL", "EXHAUSTED"}
  <2> HIDE DEF w
  <2> QED
    BY DEF Bucket
<1>7. \A t : ExplainSeverity(t) = "critical" <=> t \in {"CRITICAL", "EXHAUSTED"}
  BY DEF ExplainSeverity
<1> DEFINE bad == \E i \in DOMAIN V[s].slos : Reading(V[s].slos[i]).status \in {"CRITICAL", "EXHAUSTED"}
<1>8. (\E r \in Latest(StoredBy(V), s) : ExplainSeverity(r.status) = "critical") <=> bad
  BY <1>1, <1>2, <1>7
<1>9. bad <=> S \cap {"CRITICAL", "EXHAUSTED"} # {}
  OBVIOUS
<1>10. CASE V[s].slos = << >>
  <2>1. S = {} /\ ~bad
    BY <1>10
  <2>2. w = "UNKNOWN"
    BY <1>4, <2>1 DEF WorstStatus
  <2>3. Score(V[s].slos) = 0
    BY <1>10 DEF Score
  <2> HIDE DEF w, bad
  <2> QED
    BY <1>4, <1>6, <1>8, <2>1, <2>2, <2>3 DEF w, bad
<1>11. CASE V[s].slos # << >>
  <2>1. Worst(w, S)
    BY <1>4, <1>5, <1>11, SloStatuses, Zenon
  <2>2. (S = {"HEALTHY"}) <=> (w = "HEALTHY")
    BY <2>1, Zenon DEF Worst
  <2>3. (S \cap {"CRITICAL", "EXHAUSTED"} # {}) <=> (w \in {"CRITICAL", "EXHAUSTED"})
    BY <2>1, Zenon DEF Worst
  <2>4. 1 \in DOMAIN V[s].slos
    BY <1>5, <1>11
  <2>5. S = {"HEALTHY"} <=> \A i \in DOMAIN V[s].slos : Reading(V[s].slos[i]).status = "HEALTHY"
    BY <2>4
  <2>6. Score(V[s].slos) = 100 <=> w = "HEALTHY"
    BY <1>5, <1>11, <2>2, <2>5, ScoreIsFull, Zenon
  <2> HIDE DEF w, bad, S
  <2>7. bad <=> Bucket(w) \in {"CRITICAL", "EXHAUSTED"}
    BY <1>6, <1>9, <2>3, Zenon
  <2> QED
    BY <1>4, <1>8, <2>6, <2>7, Zenon DEF w, bad
<1> QED
  BY <1>10, <1>11

\* The commands agree, for any readings of any services: what the store holds last, the
\* portfolio, the score, the explanation, the record and the exit codes.
THEOREM CommandsConcur ==
    ASSUME CycleCall
    PROVE  CommandsAgree
<1> SUFFICES ASSUME call.about = "cycle" PROVE CommandsAgree
  BY DEF CommandsAgree
<1> DEFINE V == call.services
           log == StoredBy(V)
           Bad(t) == t \in {"CRITICAL", "EXHAUSTED"}
<1>1. IsFiniteSet(ObservedServices) /\ V \in Fleets /\ NamesApart(V)
  BY DEF CycleCall
<1> HIDE DEF V
<1>2. log \in Seq(StoredSet)
      /\ \A r : Has(log, r) <=> \E s \in ObservedServices : \E i \in DOMAIN V[s].slos : r = Stored(V, s, i)
  BY <1>1, StoreHas
<1>3. \A s \in ObservedServices :
          /\ OverallStored(log, s) = Overall(V[s].slos)
          /\ Score(V[s].slos) = 100 <=> OverallStored(log, s) = "HEALTHY"
          /\ (\E r \in Latest(log, s) : ExplainSeverity(r.status) = "critical")
                <=> Bucket(OverallStored(log, s)) \in {"CRITICAL", "EXHAUSTED"}
          /\ (\E i \in DOMAIN V[s].slos : Reading(V[s].slos[i]).status \in {"CRITICAL", "EXHAUSTED"})
                <=> Bucket(OverallStored(log, s)) \in {"CRITICAL", "EXHAUSTED"}
  BY <1>1, AgreeOnOne, Zenon
<1>4. CollectExit(V) = 2 <=> \E k \in DOMAIN log : log[k].status \in {"EXHAUSTED", "CRITICAL"}
  BY DEF CollectExit
<1>5. (\E k \in DOMAIN log : log[k].status \in {"EXHAUSTED", "CRITICAL"})
          <=> \E s \in ObservedServices : \E i \in DOMAIN V[s].slos :
                  Reading(V[s].slos[i]).status \in {"CRITICAL", "EXHAUSTED"}
  <2>1. \A s, i : Stored(V, s, i).status = Reading(V[s].slos[i]).status
    BY DEF Stored
  <2> HIDE DEF log
  <2>2. ASSUME NEW k \in DOMAIN log, log[k].status \in {"EXHAUSTED", "CRITICAL"}
        PROVE  \E s \in ObservedServices : \E i \in DOMAIN V[s].slos :
                   Reading(V[s].slos[i]).status \in {"CRITICAL", "EXHAUSTED"}
    <3>1. Has(log, log[k])
      BY DEF Has
    <3>2. PICK s \in ObservedServices : \E i \in DOMAIN V[s].slos : log[k] = Stored(V, s, i)
      BY <1>2, <3>1, Zenon
    <3> QED
      BY <2>1, <2>2, <3>2
  <2>3. ASSUME NEW s \in ObservedServices, NEW i \in DOMAIN V[s].slos,
               Reading(V[s].slos[i]).status \in {"CRITICAL", "EXHAUSTED"}
        PROVE  \E k \in DOMAIN log : log[k].status \in {"EXHAUSTED", "CRITICAL"}
    <3>1. Has(log, Stored(V, s, i))
      BY <1>2, Zenon
    <3> QED
      BY <2>1, <2>3, <3>1 DEF Has
  <2> QED
    BY <2>2, <2>3
<1>6. CollectExit(V) = 2 <=> \E s \in ObservedServices : Bucket(OverallStored(log, s)) \in {"CRITICAL", "EXHAUSTED"}
  BY <1>3, <1>4, <1>5, Zenon
<1>7. \A t : RecordSeverity(t) = "critical" <=> ExplainSeverity(t) = "critical"
  BY DEF RecordSeverity, ExplainSeverity
<1>8. VerifyExit(V, call.present) = 0 => \A s \in ObservedServices : Contract(V[s].slos) \subseteq call.present
  <2>1. DOMAIN V = ObservedServices
    BY <1>1 DEF Fleets
  <2> QED
    BY <2>1 DEF VerifyExit
<1> QED
  BY <1>3, <1>6, <1>7, <1>8, Zenon DEF CommandsAgree, V

-----------------------------------------------------------------------------
(***************************************************************************)
(* The blast radius.                                                       *)
(***************************************************************************)

\* From where one arc leads into X.
Before(arcs, X) == {a[1] : a \in {b \in arcs : b[2] \in X}}
\* The services found within n steps of s, and the steps they are found in.
Widens(r, arcs, s, n) ==
    /\ r[0] = {}
    /\ \A i \in 1..n : r[i] = Before(arcs, {s} \union r[i - 1]) \ {s}
Confined(arcs, U, s) == \A a \in arcs : a[1] \in U \union {s}

LEMMA DependentsBefore ==
    ASSUME NEW arcs, NEW X
    PROVE  DependentsOf(BlastGraph(arcs), X) = Before(arcs, X)
<1>1. \A a \in arcs : Edge(a[1], a[2], "service", 90, "prometheus").source = a[1]
                      /\ Edge(a[1], a[2], "service", 90, "prometheus").target = a[2]
  BY DEF Edge
<1> DEFINE E(a) == Edge(a[1], a[2], "service", 90, "prometheus")
<1>2. DependentsOf(BlastGraph(arcs), X) = {e.source : e \in {d \in {E(a) : a \in arcs} : d.target \in X}}
  BY Zenon DEF DependentsOf, BlastGraph
<1>3. \A a \in arcs : E(a).source = a[1] /\ E(a).target = a[2]
  BY <1>1
<1> HIDE DEF E
<1> QED
  BY <1>2, <1>3 DEF Before

LEMMA ReachedWidens ==
    ASSUME NEW arcs, NEW s, MaxDepth \in Nat
    PROVE  Widens(Reached(BlastGraph(arcs), s), arcs, s, MaxDepth)
<1> DEFINE X == SUBSET {a[1] : a \in arcs}
           step == [p \in X \X {0} |-> Before(arcs, {s} \union p[1]) \ {s}]
           w == [i \in 1..MaxDepth |-> 0]
           F(g, n) == IF n = 0 THEN {} ELSE DependentsOf(BlastGraph(arcs), {s} \union g[n - 1]) \ {s}
<1>1. \A Y : Before(arcs, Y) \in X
  BY DEF Before
<1>2. step \in [X \X {0} -> X]
  BY <1>1
<1>3. w \in [1..MaxDepth -> {0}] /\ {} \in X
  OBVIOUS
<1>4. \A x \in X : step[x, 0] = Before(arcs, {s} \union x) \ {s}
  OBVIOUS
<1>5. \A i \in 1..MaxDepth : w[i] = 0
  OBVIOUS
<1> HIDE DEF X, step, w
<1>6. PICK g \in [0..MaxDepth -> X] : Iterates(g, {}, step, MaxDepth, w)
  BY <1>2, <1>3, IterationExists
<1>7. g[0] = {} /\ \A i \in 1..MaxDepth : g[i] = Before(arcs, {s} \union g[i - 1]) \ {s}
  <2>1. ASSUME NEW i \in 1..MaxDepth PROVE g[i] = Before(arcs, {s} \union g[i - 1]) \ {s}
    <3>1. i - 1 \in 0..MaxDepth
      OBVIOUS
    <3>2. g[i] = step[g[i - 1], w[i]] /\ g[i - 1] \in X
      BY <1>6, <3>1, Zenon DEF Iterates
    <3> QED
      BY <1>4, <1>5, <3>2
  <2> QED
    BY <1>6, <2>1, Zenon DEF Iterates
<1>8. g = [n \in 0..MaxDepth |-> F(g, n)]
  <2>1. \A n \in 0..MaxDepth : g[n] = F(g, n)
    <3> SUFFICES ASSUME NEW n \in 0..MaxDepth PROVE g[n] = F(g, n)
      OBVIOUS
    <3>1. CASE n = 0
      BY <1>7, <3>1
    <3>2. CASE n # 0
      <4>1. n \in 1..MaxDepth
        BY <3>2
      <4> QED
        BY <1>7, <3>2, <4>1, DependentsBefore, Zenon
    <3> QED
      BY <3>1, <3>2
  <2> HIDE DEF F
  <2> QED
    BY <2>1
<1> DEFINE Q(f) == f = [n \in 0..MaxDepth |-> F(f, n)]
<1>9. Reached(BlastGraph(arcs), s) = CHOOSE f : Q(f)
  BY Zenon DEF Reached
<1> DEFINE r == CHOOSE f : Q(f)
<1>10. Q(r)
  <2>1. Q(g)
    BY <1>8
  <2> HIDE DEF Q
  <2> QED
    BY <2>1
<1> HIDE DEF r
<1>11. \A n \in 0..MaxDepth : r[n] = F(r, n)
  <2> HIDE DEF F
  <2>1. r = [n \in 0..MaxDepth |-> F(r, n)]
    BY <1>10
  <2> QED
    BY <2>1, Zenon
<1>12. r[0] = {}
  <2>1. 0 \in 0..MaxDepth
    OBVIOUS
  <2> QED
    BY <1>11, <2>1
<1>13. ASSUME NEW i \in 1..MaxDepth PROVE r[i] = Before(arcs, {s} \union r[i - 1]) \ {s}
  <2>1. i \in 0..MaxDepth /\ i # 0
    OBVIOUS
  <2>2. r[i] = DependentsOf(BlastGraph(arcs), {s} \union r[i - 1]) \ {s}
    BY <1>11, <2>1
  <2> QED
    BY <2>2, DependentsBefore, Zenon
<1> QED
  BY <1>9, <1>12, <1>13, Zenon DEF Widens, r

LEMMA BeforeGrows ==
    ASSUME NEW A, NEW B, A \subseteq B, NEW X, NEW Y, X \subseteq Y
    PROVE  Before(A, X) \subseteq Before(B, Y)
  BY DEF Before

\* With fewer arcs, no more is found.
LEMMA FewerReach ==
    ASSUME NEW n \in Nat, NEW A, NEW B, A \subseteq B, NEW s, NEW q, NEW r,
           Widens(q, A, s, n), Widens(r, B, s, n)
    PROVE  \A i \in 0..n : q[i] \subseteq r[i]
<1> DEFINE S == {i \in 0..n : q[i] \subseteq r[i]}
<1>1. 0 \in S
  BY DEF Widens
<1>2. ASSUME NEW k \in 0..n, k \in S, k # n PROVE k + 1 \in S
  <2>1. k + 1 \in 1..n /\ k + 1 \in 0..n /\ (k + 1) - 1 = k
    BY <1>2
  <2>2. q[k + 1] = Before(A, {s} \union q[k]) \ {s} /\ r[k + 1] = Before(B, {s} \union r[k]) \ {s}
    BY <2>1 DEF Widens
  <2>3. {s} \union q[k] \subseteq {s} \union r[k]
    BY <1>2
  <2>4. Before(A, {s} \union q[k]) \subseteq Before(B, {s} \union r[k])
    BY <2>3, BeforeGrows
  <2> QED
    BY <2>1, <2>2, <2>4
<1> HIDE DEF S
<1>3. \A k \in 0..n : k \in S
  BY <1>1, <1>2, IntervalInduction
<1> QED
  BY <1>3 DEF S

\* What depends on nothing outside itself is never found.
LEMMA ApartUnreached ==
    ASSUME NEW n \in Nat, NEW arcs, NEW s, NEW r, Widens(r, arcs, s, n), NEW X, s \notin X,
           \A b \in arcs : b[1] \in X => b[2] \in X
    PROVE  \A i \in 0..n : r[i] \intersect X = {}
<1> DEFINE S == {i \in 0..n : r[i] \intersect X = {}}
<1>1. 0 \in S
  BY DEF Widens
<1>2. ASSUME NEW k \in 0..n, k \in S, k # n PROVE k + 1 \in S
  <2>1. k + 1 \in 1..n /\ k + 1 \in 0..n /\ (k + 1) - 1 = k
    BY <1>2
  <2>2. r[k + 1] = Before(arcs, {s} \union r[k]) \ {s}
    BY <2>1 DEF Widens
  <2>3. r[k] \intersect X = {}
    BY <1>2
  <2>4. Before(arcs, {s} \union r[k]) \intersect X = {}
    BY <2>3 DEF Before
  <2> QED
    BY <2>1, <2>2, <2>4
<1> HIDE DEF S
<1>3. \A k \in 0..n : k \in S
  BY <1>1, <1>2, IntervalInduction
<1> QED
  BY <1>3 DEF S

\* After as many steps as there are services, one more finds nothing new.
LEMMA ReachSettles ==
    ASSUME NEW n \in Nat, NEW arcs, NEW s, NEW r, Widens(r, arcs, s, n),
           NEW U, IsFiniteSet(U), s \notin U, Confined(arcs, U, s), Cardinality(U) <= n
    PROVE  r[n] \in SUBSET U /\ r[n] = Before(arcs, {s} \union r[n]) \ {s}
<1> DEFINE next(i) == Before(arcs, {s} \union r[i]) \ {s}
           S == {i \in 0..n : /\ r[i] \in SUBSET U /\ r[i] \subseteq next(i)
                              /\ (r[i] = next(i) \/ i <= Cardinality(r[i]))}
<1>1. Cardinality(U) \in Nat
  BY FS_CardinalityType
<1>2. ASSUME NEW X PROVE Before(arcs, X) \ {s} \in SUBSET U
  BY DEF Confined, Before
<1>3. ASSUME NEW Y \in SUBSET U PROVE IsFiniteSet(Y) /\ Cardinality(Y) \in Nat /\ Cardinality(Y) <= Cardinality(U)
                                      /\ (Cardinality(Y) = Cardinality(U) => Y = U)
  BY FS_Subset, FS_CardinalityType
<1>4. 0 \in S
  <2>1. r[0] = {} /\ Cardinality({}) = 0
    BY FS_EmptySet DEF Widens
  <2> QED
    BY <2>1
<1>5. ASSUME NEW k \in 0..n, k \in S, k # n PROVE k + 1 \in S
  <2>1. k + 1 \in 1..n /\ k + 1 \in 0..n /\ (k + 1) - 1 = k
    BY <1>5
  <2>2. r[k + 1] = next(k)
    BY <2>1 DEF Widens
  <2>3. r[k] \in SUBSET U /\ r[k] \subseteq next(k) /\ (r[k] = next(k) \/ k <= Cardinality(r[k]))
    BY <1>5
  <2>4. r[k + 1] \in SUBSET U
    BY <1>2, <2>2
  <2>5. r[k] \subseteq r[k + 1]
    BY <2>2, <2>3
  <2>6. r[k + 1] \subseteq next(k + 1)
    <3>1. {s} \union r[k] \subseteq {s} \union r[k + 1]
      BY <2>5
    <3>2. Before(arcs, {s} \union r[k]) \subseteq Before(arcs, {s} \union r[k + 1])
      BY <3>1, BeforeGrows
    <3> QED
      BY <2>2, <3>2
  <2>7. r[k + 1] = next(k + 1) \/ k + 1 <= Cardinality(r[k + 1])
    <3>1. CASE r[k] = next(k)
      BY <2>2, <3>1
    <3>2. CASE r[k] # next(k)
      <4>1. k <= Cardinality(r[k]) /\ r[k] # r[k + 1]
        BY <2>2, <2>3, <3>2
      <4>2. IsFiniteSet(r[k + 1]) /\ Cardinality(r[k + 1]) \in Nat /\ Cardinality(r[k]) \in Nat
        BY <1>3, <2>3, <2>4
      <4>3. Cardinality(r[k]) <= Cardinality(r[k + 1]) /\ Cardinality(r[k]) # Cardinality(r[k + 1])
        BY <2>5, <4>1, <4>2, FS_Subset
      <4> HIDE DEF next
      <4> QED
        BY <4>1, <4>2, <4>3
    <3> QED
      BY <3>1, <3>2
  <2> HIDE DEF next
  <2> QED
    BY <2>1, <2>4, <2>6, <2>7
<1>6. \A k \in 0..n : k \in S
  <2> HIDE DEF S
  <2> QED
    BY <1>4, <1>5, IntervalInduction
<1>7. r[n] \in SUBSET U /\ r[n] \subseteq next(n) /\ (r[n] = next(n) \/ n <= Cardinality(r[n]))
  <2>1. n \in S
    BY <1>6
  <2> QED
    BY <2>1
<1>8. CASE n <= Cardinality(r[n])
  <2>1. Cardinality(r[n]) = Cardinality(U)
    BY <1>1, <1>3, <1>7, <1>8
  <2>2. r[n] = U
    BY <1>3, <1>7, <2>1
  <2>3. next(n) \in SUBSET U
    BY <1>2
  <2> HIDE DEF next
  <2>4. r[n] = next(n)
    BY <1>7, <2>2, <2>3
  <2> QED
    BY <1>7, <2>4 DEF next
<1> QED
  BY <1>7, <1>8

\* The services around one, and everything from which it is reached.
Around(s) == (Apps \union {"ingress"}) \ {s}
BlastCall ==
    call.about = "blast" =>
        /\ call.arcs \subseteq (Apps \union {"ingress"}) \X Apps
        /\ MaxDepth \in Nat /\ Cardinality(Apps) <= MaxDepth

LEMMA AroundIsSmall ==
    ASSUME NEW s \in Apps
    PROVE  IsFiniteSet(Around(s)) /\ Cardinality(Around(s)) <= Cardinality(Apps) /\ s \notin Around(s)
<1>1. IsFiniteSet(Apps) /\ Cardinality(Apps) \in Nat
  <2>1. IsFiniteSet({}) /\ IsFiniteSet({} \union {"a"}) /\ IsFiniteSet(({} \union {"a"}) \union {"b"})
        /\ IsFiniteSet((({} \union {"a"}) \union {"b"}) \union {"c"})
    BY FS_EmptySet, FS_AddElement, Zenon
  <2>2. Apps = (({} \union {"a"}) \union {"b"}) \union {"c"}
    BY DEF Apps
  <2> QED
    BY <2>1, <2>2, FS_CardinalityType, Zenon
<1> DEFINE T == Apps \union {"ingress"}
<1>2. "ingress" \notin Apps
  BY DEF Apps
<1>3. IsFiniteSet(T) /\ Cardinality(T) = Cardinality(Apps) + 1
  BY <1>1, <1>2, FS_AddElement
<1>4. s \in T
  OBVIOUS
<1> HIDE DEF T
<1>5. IsFiniteSet(T \ {s}) /\ Cardinality(T \ {s}) = Cardinality(T) - 1
  BY <1>3, <1>4, FS_RemoveElement
<1> QED
  BY <1>1, <1>3, <1>5 DEF Around, T

LEMMA AffectedReach ==
    ASSUME NEW arcs \in SUBSET ((Apps \union {"ingress"}) \X Apps), NEW s \in Apps,
           MaxDepth \in Nat, Cardinality(Apps) <= MaxDepth
    PROVE  \E R \in SUBSET Around(s) :
               /\ R = Reached(BlastGraph(arcs), s)[MaxDepth]
               /\ R = Before(arcs, {s} \union R) \ {s}
               /\ Affected(BlastGraph(arcs), s) = Before(arcs, {s}) \union R
<1> DEFINE r == Reached(BlastGraph(arcs), s)
<1>1. Widens(r, arcs, s, MaxDepth)
  BY ReachedWidens
<1>2. Confined(arcs, Around(s), s)
  <2> SUFFICES ASSUME NEW a \in arcs PROVE a[1] \in Around(s) \union {s}
    BY DEF Confined
  <2>1. a \in (Apps \union {"ingress"}) \X Apps
    OBVIOUS
  <2>2. a[1] \in Apps \union {"ingress"}
    BY <2>1
  <2> QED
    BY <2>2 DEF Around
<1>3. /\ IsFiniteSet(Around(s)) /\ s \notin Around(s) /\ Cardinality(Around(s)) <= MaxDepth
  <2>1. Cardinality(Around(s)) \in Nat /\ Cardinality(Apps) \in Int
    <3>1. Apps \subseteq Around(s) \union {s}
      BY DEF Around
    <3>2. IsFiniteSet(Around(s) \union {s})
      BY AroundIsSmall, FS_AddElement, Zenon
    <3>3. IsFiniteSet(Apps)
      BY <3>1, <3>2, FS_Subset, Zenon
    <3> QED
      BY <3>3, AroundIsSmall, FS_CardinalityType
  <2> QED
    BY <2>1, AroundIsSmall
<1> HIDE DEF r
<1>4. r[MaxDepth] \in SUBSET Around(s) /\ r[MaxDepth] = Before(arcs, {s} \union r[MaxDepth]) \ {s}
  BY <1>1, <1>2, <1>3, ReachSettles
<1>5. Affected(BlastGraph(arcs), s) = Before(arcs, {s}) \union r[MaxDepth]
  BY DependentsBefore, Zenon DEF Affected, r
<1> QED
  BY <1>4, <1>5 DEF r

LEMMA LevelsGrow ==
    ASSUME NEW t \in Nat, NEW u \in Nat, NEW c \in Nat, NEW d \in Nat, t <= u, c <= d
    PROVE  RiskLevel(u, d) >= RiskLevel(t, c) /\ (d > 0 => BlastExit(RiskLevel(u, d)) > 0)
<1>1. /\ BlastExit(2) = 1 /\ BlastExit(3) = 2 /\ BlastExit(4) = 2
  BY DEF BlastExit
<1>2. RiskLevel(u, d) >= RiskLevel(t, c)
  BY DEF RiskLevel
<1>3. d > 0 => RiskLevel(u, d) \in {2, 3, 4}
  BY DEF RiskLevel
<1> QED
  BY <1>1, <1>2, <1>3

\* The blast radius is reachability, for any dependencies between the services and any
\* tiers: what reaches the service is in it and nothing else, fewer dependencies are no
\* riskier and a critical service that is hit never passes.
THEOREM BlastReaches ==
    ASSUME BlastCall
    PROVE  BlastIsReachability
<1> SUFFICES ASSUME call.about = "blast", NEW s \in Apps
             PROVE  LET graph == BlastGraph(call.arcs) IN
                    /\ \A a \in Apps \ {s} :
                           a \in Affected(graph, s)
                             <=> \/ <<a, s>> \in call.arcs
                                 \/ \E x \in Apps \ {s} : <<a, x>> \in call.arcs /\ x \in Affected(graph, s)
                    /\ \A apart \in SUBSET (Apps \ {s}) :
                           (\A arc \in call.arcs : arc[1] \in apart => arc[2] \in apart)
                             => apart \intersect Affected(graph, s) = {}
                    /\ \A arc \in call.arcs :
                           Risk(graph, s, call.tiers) >= Risk(BlastGraph(call.arcs \ {arc}), s, call.tiers)
                    /\ \A a \in Affected(graph, s) : (a \in DOMAIN call.tiers /\ call.tiers[a] = "critical") =>
                           BlastExit(Risk(graph, s, call.tiers)) > 0
  BY Zenon DEF BlastIsReachability
<1> DEFINE arcs == call.arcs
           W == Affected(BlastGraph(arcs), s)
           Hit(X) == {a \in X : a \in DOMAIN call.tiers /\ call.tiers[a] = "critical"}
<1>1. /\ arcs \in SUBSET ((Apps \union {"ingress"}) \X Apps)
      /\ MaxDepth \in Nat /\ Cardinality(Apps) <= MaxDepth
  BY DEF BlastCall
<1> HIDE DEF arcs
<1>2. PICK R \in SUBSET Around(s) :
          /\ R = Reached(BlastGraph(arcs), s)[MaxDepth]
          /\ R = Before(arcs, {s} \union R) \ {s}
          /\ W = Before(arcs, {s}) \union R
  BY <1>1, AffectedReach, Zenon
<1>3. \A b \in arcs : b = <<b[1], b[2]>> /\ b[2] \in Apps /\ b[1] \in Apps \union {"ingress"}
  BY <1>1
<1>4. \A x, Y : x \in Before(arcs, Y) <=> \E b \in arcs : b[1] = x /\ b[2] \in Y
  BY DEF Before
<1>5. ASSUME NEW a \in Apps \ {s}
      PROVE  (a \in W) <=> (\/ <<a, s>> \in arcs \/ \E x \in Apps \ {s} : <<a, x>> \in arcs /\ x \in W)
  <2>1. Before(arcs, {s}) \subseteq Before(arcs, {s} \union R)
    BY BeforeGrows, Zenon
  <2>2. \A x : x # s => (x \in W <=> x \in R)
    BY <1>2, <2>1
  <2>3. a \in R <=> \E b \in arcs : b[1] = a /\ b[2] \in {s} \union R
    BY <1>2, <1>4
  <2>4. ASSUME NEW y PROVE (\E b \in arcs : b[1] = a /\ b[2] = y) <=> <<a, y>> \in arcs
    <3>1. <<a, y>>[1] = a /\ <<a, y>>[2] = y
      OBVIOUS
    <3> QED
      BY <1>3, <3>1, Zenon
  <2>5. ASSUME a \in W
        PROVE  <<a, s>> \in arcs \/ \E x \in Apps \ {s} : <<a, x>> \in arcs /\ x \in W
    <3>1. PICK b \in arcs : b[1] = a /\ b[2] \in {s} \union R
      BY <2>2, <2>3, <2>5
    <3>2. <<a, b[2]>> \in arcs /\ b[2] \in Apps
      BY <1>3, <3>1
    <3>3. s \notin R
      BY <1>2
    <3> QED
      BY <2>2, <3>1, <3>2, <3>3
  <2>6. ASSUME <<a, s>> \in arcs PROVE a \in W
    BY <2>2, <2>3, <2>4, <2>6
  <2>7. ASSUME NEW x \in Apps \ {s}, <<a, x>> \in arcs, x \in W PROVE a \in W
    <3>1. x \in R
      BY <2>2, <2>7
    <3> QED
      BY <2>2, <2>3, <2>4, <2>7, <3>1
  <2> QED
    BY <2>5, <2>6, <2>7
<1>6. IsFiniteSet(W)
  <2>1. Before(arcs, {s}) \subseteq Around(s) \union {s}
    BY <1>3 DEF Before, Around
  <2>2. W \subseteq Around(s) \union {s}
    BY <1>2, <2>1
  <2>3. IsFiniteSet(Around(s) \union {s})
    BY AroundIsSmall, FS_AddElement, Zenon
  <2> QED
    BY <2>2, <2>3, FS_Subset, Zenon
<1>7. ASSUME NEW X \in SUBSET W
      PROVE  /\ Cardinality(X) \in Nat /\ Cardinality(W) \in Nat /\ Cardinality(X) <= Cardinality(W)
             /\ Cardinality(Hit(X)) \in Nat /\ Cardinality(Hit(W)) \in Nat
             /\ Cardinality(Hit(X)) <= Cardinality(Hit(W)) /\ IsFiniteSet(Hit(W))
  <2>1. IsFiniteSet(X) /\ Cardinality(X) <= Cardinality(W)
    BY <1>6, FS_Subset
  <2>2. Hit(X) \subseteq X /\ Hit(X) \subseteq Hit(W) /\ Hit(W) \subseteq W
    OBVIOUS
  <2> HIDE DEF Hit, W
  <2>3. IsFiniteSet(Hit(X)) /\ IsFiniteSet(Hit(W)) /\ Cardinality(Hit(X)) <= Cardinality(Hit(W))
    BY <1>6, <2>1, <2>2, FS_Subset
  <2> QED
    BY <1>6, <2>1, <2>3, FS_CardinalityType
<1>8. ASSUME NEW A
      PROVE  Risk(BlastGraph(A), s, call.tiers)
                 = RiskLevel(Cardinality(Affected(BlastGraph(A), s)), Cardinality(Hit(Affected(BlastGraph(A), s))))
  BY Zenon DEF Risk
<1>9. ASSUME NEW arc \in arcs
      PROVE  Risk(BlastGraph(arcs), s, call.tiers) >= Risk(BlastGraph(arcs \ {arc}), s, call.tiers)
  <2> DEFINE fewer == arcs \ {arc}
             V == Affected(BlastGraph(fewer), s)
  <2>1. fewer \subseteq arcs /\ fewer \in SUBSET ((Apps \union {"ingress"}) \X Apps)
    BY <1>1
  <2> HIDE DEF fewer
  <2>2. PICK Q \in SUBSET Around(s) :
            /\ Q = Reached(BlastGraph(fewer), s)[MaxDepth]
            /\ Q = Before(fewer, {s} \union Q) \ {s}
            /\ V = Before(fewer, {s}) \union Q
    BY <1>1, <2>1, AffectedReach, Zenon
  <2>3. Q \subseteq R
    <3>1. Widens(Reached(BlastGraph(fewer), s), fewer, s, MaxDepth)
          /\ Widens(Reached(BlastGraph(arcs), s), arcs, s, MaxDepth)
      BY <1>1, ReachedWidens
    <3>2. MaxDepth \in 0..MaxDepth
      BY <1>1
    <3>3. \A i \in 0..MaxDepth : Reached(BlastGraph(fewer), s)[i] \subseteq Reached(BlastGraph(arcs), s)[i]
      BY <1>1, <2>1, <3>1, FewerReach
    <3> QED
      BY <1>2, <2>2, <3>2, <3>3
  <2>4. Before(fewer, {s}) \subseteq Before(arcs, {s})
    BY <2>1, BeforeGrows, Zenon
  <2>5. V \in SUBSET W
    BY <1>2, <2>2, <2>3, <2>4
  <2> HIDE DEF V, W, Hit
  <2>6. RiskLevel(Cardinality(W), Cardinality(Hit(W))) >= RiskLevel(Cardinality(V), Cardinality(Hit(V)))
    BY <1>7, <2>5, LevelsGrow
  <2> QED
    BY <1>8, <2>6 DEF W, V, fewer
<1>10. ASSUME NEW a \in W, a \in DOMAIN call.tiers /\ call.tiers[a] = "critical"
       PROVE  BlastExit(Risk(BlastGraph(arcs), s, call.tiers)) > 0
  <2>1. a \in Hit(W)
    BY <1>10
  <2>2. Hit(W) # {} /\ IsFiniteSet(Hit(W))
    BY <1>7, <2>1
  <2> HIDE DEF Hit
  <2>3. Cardinality(Hit(W)) > 0
    BY <1>7, <2>2, FS_EmptySet
  <2> HIDE DEF W
  <2>4. BlastExit(RiskLevel(Cardinality(W), Cardinality(Hit(W)))) > 0
    BY <1>7, <2>3, LevelsGrow
  <2> QED
    BY <1>8, <2>4 DEF W
<1>11. ASSUME NEW apart \in SUBSET (Apps \ {s}), \A arc \in arcs : arc[1] \in apart => arc[2] \in apart
       PROVE  apart \intersect W = {}
  <2>1. Widens(Reached(BlastGraph(arcs), s), arcs, s, MaxDepth)
    BY <1>1, ReachedWidens
  <2>2. s \notin apart /\ MaxDepth \in 0..MaxDepth
    BY <1>1
  <2>3. \A i \in 0..MaxDepth : Reached(BlastGraph(arcs), s)[i] \intersect apart = {}
    BY <1>1, <1>11, <2>1, <2>2, ApartUnreached
  <2>4. R \intersect apart = {}
    BY <1>2, <2>2, <2>3
  <2>5. Before(arcs, {s}) \intersect apart = {}
    BY <1>11, <2>2 DEF Before
  <2> QED
    BY <1>2, <2>4, <2>5
<1> HIDE DEF W
<1>12. /\ \A arc \in arcs : Risk(BlastGraph(arcs), s, call.tiers) >= Risk(BlastGraph(arcs \ {arc}), s, call.tiers)
       /\ \A a \in W : (a \in DOMAIN call.tiers /\ call.tiers[a] = "critical") =>
              BlastExit(Risk(BlastGraph(arcs), s, call.tiers)) > 0
  BY <1>9, <1>10, Zenon
<1> QED
  BY <1>5, <1>11, <1>12, Zenon DEF W, arcs

-----------------------------------------------------------------------------
(***************************************************************************)
(* What the operator is answered.                                          *)
(***************************************************************************)

\* The calls of the gate, the collector and its commands, the blast radius, the
\* recommendations, the walk, the application and the pull request.
OperatorCall(Fleet, Ids, Named) ==
    /\ call.about = "gate" => call \in GateCalls
    /\ CorrelatorCall /\ CycleCall /\ BlastCall
    /\ call.about = "recommend" =>
           /\ call.evals \in Seq(EvaluationsOf(Fleet)) /\ call.blast \in Seq(Named)
           /\ call.declared \subseteq Named
    /\ call.about = "walk" => call.ids \in Seq(Ids) /\ call.keys \in Seq(Keys)
    /\ call.about = "apply" =>
           /\ call.plan \in Seq(RecsFor(Fleet)) /\ FromOneState(call.plan)
           /\ call.manifests \in [Fleet -> Documents] /\ call.force \in BOOLEAN
    /\ call.about = "pr" => /\ call.modified \in BOOLEAN /\ call.outcome \in 0..2
                            /\ call.modified => call.outcome # 2

\* From the readings to the pull request: whatever is called, for any number of services,
\* readings, recommendations, keys and steps that fail, what is answered is as it should be.
THEOREM OperatorAnswered ==
    ASSUME NEW Fleet \in SUBSET Int, NEW Ids, NEW Named, OperatorCall(Fleet, Ids, Named)
    PROVE  OperatorAnswers
<1>1. RecommendationsAreGrounded
  BY RecommendationsGrounded, Zenon DEF OperatorCall
<1>2. WalkKeepsDecisions
  BY WalkDecided, Zenon DEF OperatorCall
<1>3. ApplyIsSafe
  BY PlanApplied, Zenon DEF OperatorCall
<1>4. PullRequestIsLast
  BY PullRequestLast, Zenon DEF OperatorCall
<1>5. GateClosesWithBudget
  <2>1. CASE call.about = "gate"
    BY <2>1, GateFollowsBudget, Zenon DEF OperatorCall
  <2>2. CASE call.about # "gate"
    BY <2>2, Zenon DEF GateClosesWithBudget
  <2> QED
    BY <2>1, <2>2
<1>6. CloserScoresHigher
  BY ScoresGrow, Zenon DEF OperatorCall
<1>7. CycleKeepsServicesApart /\ CommandsAgree
  BY CycleApart, CommandsConcur, Zenon DEF OperatorCall
<1>8. BlastIsReachability
  BY BlastReaches, Zenon DEF OperatorCall
<1> QED
  BY <1>1, <1>2, <1>3, <1>4, <1>5, <1>6, <1>7, <1>8, SignalsApart, Zenon DEF OperatorAnswers
=============================================================================
