----------------------------- MODULE MCUpstream -----------------------------
(***************************************************************************)
(* The shipped four attempts and backoff of one second; retry-after        *)
(* headers below, between and above the backoffs of one, two and four.     *)
(* Three URLs, the first of them the slowest, and two rounds of turns.     *)
(***************************************************************************)
EXTENDS Upstream

SlowFirst == [u \in Urls |-> IF u = 1 THEN 3 ELSE 1]
=============================================================================
