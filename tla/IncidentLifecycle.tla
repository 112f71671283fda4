-------------------------- MODULE IncidentLifecycle --------------------------
(***************************************************************************)
(* What respond promises about one incident, whoever works on it: it is    *)
(* open until it is resolved, escalated, failed or paused for approval;    *)
(* how it ended is final; and a remediation that needs a human's consent   *)
(* does not lead to "RESOLVED" without it.                                 *)
(***************************************************************************)
VARIABLES state,    \* "OPEN", "AWAITING_APPROVAL" or a terminal state
          gated,    \* the remediation requires approval
          consent   \* a human approved it

vars == <<state, gated, consent>>

Init == state = "OPEN" /\ gated = FALSE /\ consent = FALSE

\* Agents work; the remediation proposed last decides whether it is gated.
Work ==
  /\ state = "OPEN" /\ state' = "OPEN"
  /\ gated' \in BOOLEAN /\ UNCHANGED consent

Pause ==
  /\ state = "OPEN" /\ state' = "AWAITING_APPROVAL"
  /\ gated' = TRUE /\ UNCHANGED consent

Resolve ==
  /\ state = "OPEN" /\ state' = "RESOLVED"
  /\ gated' = FALSE /\ UNCHANGED consent

\* A human consents while the incident waits; the action may still fail.
Consent ==
  /\ state = "AWAITING_APPROVAL" /\ consent' = TRUE
  /\ UNCHANGED <<state, gated>>

ResolveApproved ==
  /\ state = "AWAITING_APPROVAL" /\ consent /\ state' = "RESOLVED"
  /\ UNCHANGED <<gated, consent>>

\* Handed to a human: by an agent's escalation, a rejection, a timeout or a failure.
Escalate ==
  /\ state \in {"OPEN", "AWAITING_APPROVAL"} /\ state' = "ESCALATED"
  /\ gated' \in BOOLEAN /\ UNCHANGED consent

Fail ==
  /\ state = "OPEN" /\ state' = "FAILED"
  /\ gated' \in BOOLEAN /\ UNCHANGED consent

Next ==
  Work \/ Pause \/ Resolve \/ Consent \/ ResolveApproved \/ Escalate \/ Fail

Spec == Init /\ [][Next]_vars
==============================================================================
