---------------------------- MODULE MCRequestLog ----------------------------
(***************************************************************************)
(* Three entries the table takes, more than there are outages, one without *)
(* a response, and one whose model is too long for its column; a producer  *)
(* that is full with one message, so that an entry that is delivered late  *)
(* sends the next ones to the other sinks.                                 *)
(***************************************************************************)
EXTENDS RequestLog, TLC

CONSTANTS e1, e2, e3, long, blocked

Fitting == {e1, e2, e3}
Symmetry == Permutations(Fitting)
=============================================================================
