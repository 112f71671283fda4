--------------------------- MODULE MCRespondIngest ---------------------------
(* An instance of RespondIngest for TLC: see MCRespondIngest.cfg.             *)
EXTENDS RespondIngest
=============================================================================
