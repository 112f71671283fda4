------------------------------ MODULE MCCommands ------------------------------
(***************************************************************************)
(* What is asked of the workers from outside, for TLC: either requests to  *)
(* respond's approval server, or a call of one of the functions that       *)
(* answer from their arguments.  Lock objects are interchangeable (and so  *)
(* are requests, but permuting those costs more than it saves here).       *)
(***************************************************************************)
EXTENDS ApprovalServer, Answers, TLC

LockSymmetry == Permutations(Locks)

NoCall == [about |-> "approval"]

Calls ==
  \/ call \in CallsOfGate \/ call \in CallsOfConditions \/ call \in CallsOfCorrelator
  \/ call \in CallsOfCycle \/ call \in CallsOfDrift \/ call \in CallsOfSignals
  \/ call \in CallsOfDependencies \/ call \in CallsOfBlast
  \/ call \in CallsOfRearm \/ call \in CallsOfRestored \/ call \in CallsOfQuantile
  \/ call \in CallsOfSample \/ call \in CallsOfWindows
  \/ call \in CallsOfPolling \/ call \in CallsOfWebhook \/ call \in CallsOfPipeline
  \/ call \in CallsOfPromotion \/ call \in CallsOfOverride \/ call \in CallsOfCalibration
  \/ call \in CallsOfEngine \/ call \in CallsOfDedup \/ call \in CallsOfServe
  \/ call \in CallsOfBudget
  \/ call \in CallsOfTraces \/ call \in CallsOfContracts \/ call \in CallsOfLineage
  \/ call \in CallsOfModel \/ call \in CallsOfCommand \/ call \in CallsOfGather
  \/ call \in CallsOfRecommend \/ call \in CallsOfWalk \/ call \in CallsOfApply
  \/ call \in CallsOfPr

NoPolicy == [hasAction |-> FALSE, hasCooldown |-> FALSE]

MCInit == Init /\ (call = NoCall \/ (policy = NoPolicy /\ Calls))
MCNext == call = NoCall /\ Next /\ UNCHANGED call
MCSpec == MCInit /\ [][MCNext]_<<vars, call>>
===============================================================================
