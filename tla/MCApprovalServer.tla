--------------------------- MODULE MCApprovalServer ---------------------------
(* An instance of ApprovalServer for TLC: see MCApprovalServer.cfg and        *)
(* MCApprovalFailure.cfg; MCCommands has the one with four requests.          *)
EXTENDS ApprovalServer
==============================================================================
