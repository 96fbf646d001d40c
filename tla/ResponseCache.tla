--------------------------- MODULE ResponseCache ---------------------------
(***************************************************************************)
(* What the proxy may rely on from the response cache of proxy/cache.py,   *)
(* whichever implementation is configured: a get of a key answers with the *)
(* last entry put under that key, or with a miss.  Entries disappear at    *)
(* any moment (they expire, they are evicted) but never change, and never  *)
(* come back once gone.                                                    *)
(***************************************************************************)
CONSTANTS Keys, Entries, NoEntry

VARIABLES
    store,      \* what a get of each key would return
    answer      \* what the last get returned, or what the last put was given

cacheVars == <<store, answer>>

TypeOK ==
    /\ store \in [Keys -> Entries \cup {NoEntry}]
    /\ answer \in Entries \cup {NoEntry} \cup Keys \X Entries

Init ==
    /\ store = [k \in Keys |-> NoEntry]
    /\ answer = NoEntry

Without(s, K) == [k \in Keys |-> IF k \in K THEN NoEntry ELSE s[k]]
Held == {k \in Keys : store[k] # NoEntry}

\* A put overwrites its key; to make room it may drop others, or the entry itself.
Keep(k, e) ==
    \E K \in SUBSET (Held \cup {k}) :
        store' = Without([store EXCEPT ![k] = e], K)

Put(k, e) == Keep(k, e) /\ answer' = <<k, e>>

Get(k) == answer' = store[k] /\ UNCHANGED store

\* Time passes: entries expire.
Drop == \E K \in SUBSET Held : store' = Without(store, K)
Expire == Drop /\ UNCHANGED answer

Next ==
    \/ \E k \in Keys : Get(k)
    \/ \E k \in Keys, e \in Entries : Put(k, e)
    \/ Expire

Spec == Init /\ [][Next]_cacheVars
=============================================================================
