------------------------------ MODULE MCCache ------------------------------
(***************************************************************************)
(* Three keys for two places, so that a put evicts and a key can come      *)
(* back; two entries, so that a stale one is seen; a clock that passes the *)
(* time to live twice.  Two workers share the Redis cache.                 *)
(***************************************************************************)
EXTENDS ConfiguredCache, TLC

Symmetry == Permutations(Keys) \cup Permutations(Entries) \cup Permutations(Workers)
=============================================================================
