---------------------------- MODULE Subsequences ----------------------------
(***************************************************************************)
(* What the lists of the proxy are filtered with: backends, messages,      *)
(* parts of an answer, events of a stream.  It is SelectSeq of Sequences,  *)
(* with the test given as a set and the recursion as that of a function,   *)
(* so that facts about it can be proved.                                   *)
(***************************************************************************)
EXTENDS Integers, Sequences

\* The elements of s that are in S, in their order.
Only(s, S) ==
    LET only[n \in 0 .. Len(s)] ==
            IF n = 0 THEN <<>>
            ELSE IF s[n] \in S THEN Append(only[n - 1], s[n]) ELSE only[n - 1]
    IN  only[Len(s)]

\* The positions of s, in their order.
Positions(s) == [n \in 1 .. Len(s) |-> n]
=============================================================================
