------------------------------- MODULE MCGate -------------------------------
(***************************************************************************)
(* Two clients of the memory limiter and one of Redis; two tokens of which *)
(* one is the proxy's own key; a file that is any of its versions at first *)
(* and is edited once.  Two requests per window of three ticks.  The clock *)
(* of a worker may be one tick late, and Redis forgets a client after more *)
(* than a window; time goes on for long enough to see it do so.            *)
(***************************************************************************)
EXTENDS Gate, TLC

Symmetry == Permutations(Clients)
=============================================================================
