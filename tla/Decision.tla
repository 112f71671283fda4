------------------------------- MODULE Decision -------------------------------
(***************************************************************************)
(* The parts of the workers that keep no state answer one call at a time.  *)
(* The call under consideration is a state variable, chosen initially from *)
(* the calls the program can make; the properties say what the code's      *)
(* answer to it must be.                                                   *)
(***************************************************************************)
VARIABLE call    \* [about |-> <the function called>, ...its arguments]
=============================================================================
