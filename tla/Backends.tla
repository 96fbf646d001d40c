------------------------------ MODULE Backends ------------------------------
(***************************************************************************)
(* backends.json as the proxy reads it: which backend serves a model, and  *)
(* what is configured for a backend of a given name.  Every function of    *)
(* the source re-reads the file; here it is a constant, so a run is a      *)
(* period between two edits of the file.                                   *)
(*                                                                         *)
(* The routes are a sequence because the source walks the JSON object in   *)
(* file order and stops at the first match.                                *)
(***************************************************************************)
EXTENDS Integers, Sequences, FiniteSets, Subsequences

CONSTANTS
    Models,     \* the model names requests may ask for
    NoModel,    \* a request whose body has no field "model"
    NullModel,  \* one whose field "model" is null or empty
    Names,      \* every name backends.json mentions
    NoName,     \* an entry without a "name"
    NoBudget,   \* an entry without "monthly_budget_usd"
    Routes,     \* the "routes" object, in file order
    Default     \* the "default" object

(***************************************************************************)
(* "serves" stands for the models that start with the route's prefix;      *)
(* "label" is the name resolve() uses when the entry has no "name": the    *)
(* prefix of a route, "ollama" for the default entry.  Only whether an     *)
(* entry has prices and an API key matters here.                           *)
(***************************************************************************)
RouteType ==
    [serves : SUBSET Models, label : Names, name : Names \cup {NoName},
     fallback : Seq(Names), budget : Nat \cup {NoBudget},
     priced : BOOLEAN, keyed : BOOLEAN]

DefaultType ==
    [label : Names, name : Names \cup {NoName}, priced : BOOLEAN, keyed : BOOLEAN]

ASSUME ConfigAssumption ==
    /\ NoModel \notin Models /\ NullModel \notin Models
    /\ NoModel # NullModel
    /\ NoName \notin Names
    /\ NoBudget \notin Nat
    /\ Routes \in Seq(RouteType)
    /\ Default \in DefaultType

Earliest(I) == CHOOSE i \in I : \A j \in I : i <= j

(***************************************************************************)
(* resolve: the name of the first route whose prefix matches the model,    *)
(* or of the default entry, as for a request without a model.              *)
(***************************************************************************)
Matching(m) == {i \in DOMAIN Routes : m \in Routes[i].serves}

NameOf(entry) == IF entry.name = NoName THEN entry.label ELSE entry.name

ModelFields == Models \cup {NoModel, NullModel}

Resolve ==
    [m \in ModelFields |->
        IF Matching(m) # {} THEN NameOf(Routes[Earliest(Matching(m))])
                            ELSE NameOf(Default)]

(***************************************************************************)
(* Every other lookup goes by the "name" field, never by the label: an     *)
(* entry without a name has no key, price, budget or fallback.             *)
(***************************************************************************)
RoutesOf(b) == {i \in DOMAIN Routes : Routes[i].name = b}
RouteOf(b) == Routes[Earliest(RoutesOf(b))]

Known(b) == RoutesOf(b) # {} \/ Default.name = b

HasKey(b) ==
    IF RoutesOf(b) # {} THEN RouteOf(b).keyed ELSE Default.name = b /\ Default.keyed

Priced(b) ==
    IF RoutesOf(b) # {} THEN RouteOf(b).priced ELSE Default.name = b /\ Default.priced

Budget(b) == IF RoutesOf(b) # {} THEN RouteOf(b).budget ELSE NoBudget

\* get_fallback_chain: a backend known only as the default has none, and
\* names that are not configured are skipped.
FallbackChain(b) ==
    IF RoutesOf(b) # {} THEN Only(RouteOf(b).fallback, {n \in Names : Known(n)}) ELSE <<>>

\* backends_to_try: the backend resolve() chose, then its fallbacks.
Chain == [b \in Names |-> <<b>> \o FallbackChain(b)]

\* The capped backends to which only the requests routed to them are sent.
CappedAlone ==
    {b \in Names : /\ Budget(b) # NoBudget
                   /\ \A n \in Names \ {b} : \A i \in DOMAIN Chain[n] : Chain[n][i] # b}
=============================================================================
