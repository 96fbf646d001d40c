---------------------------- MODULE ProxyProofs ----------------------------
(***************************************************************************)
(* Proofs about the handler, for any configuration, any policy, any number *)
(* of slots and any bounds: its types and the order of its calls; the      *)
(* bound on the overshoot of a budget; the prompts that backends see; the  *)
(* answers that clients get from them or from the cache; and the log entry *)
(* and the charge that go with an answer.                                  *)
(***************************************************************************)
EXTENDS Proxy, SubsequenceProofs, FiniteSetTheorems

-----------------------------------------------------------------------------
(***************************************************************************)
(* The lookups in backends.json.                                           *)
(***************************************************************************)

\* The first of a non-empty set of route positions is one of them.
LEMMA EarliestIn == ASSUME NEW I \in SUBSET Nat, I # {} PROVE Earliest(I) \in I
<1>1. \E n \in I : \A m \in I : n <= m
  BY Least
<1>2. QED
  BY <1>1 DEF Earliest

\* resolve() always finds a configured name.
LEMMA ResolveType == \A m \in ModelFields : Resolve[m] \in Names
<1>1. ASSUME NEW i \in DOMAIN Routes
      PROVE  NameOf(Routes[i]) \in Names
  <2>1. Routes[i] \in RouteType
    BY ConfigAssumption
  <2>2. QED
    BY <2>1 DEF RouteType, NameOf
<1>2. NameOf(Default) \in Names
  BY ConfigAssumption DEF DefaultType, NameOf
<1>3. DOMAIN Routes \subseteq Nat
  BY ConfigAssumption, LenProperties
<1>4. SUFFICES ASSUME NEW m \in ModelFields, Matching(m) # {}
               PROVE NameOf(Routes[Earliest(Matching(m))]) \in Names
  BY <1>2 DEF Resolve
<1>5. Earliest(Matching(m)) \in Matching(m)
  BY <1>3, <1>4, EarliestIn DEF Matching
<1>6. QED
  BY <1>1, <1>5 DEF Matching

\* The chain of a backend begins with the backend.
LEMMA ChainType ==
  \A b \in Names : /\ Chain[b] \in Seq(Names)
                   /\ Len(Chain[b]) \in Nat \ {0}
                   /\ Chain[b][1] = b
<1>1. TAKE b \in Names
<1>2. Chain[b] = <<b>> \o FallbackChain(b)
  BY DEF Chain
<1>3. FallbackChain(b) \in Seq(Names)
  <2>1. CASE RoutesOf(b) = {}
    BY <2>1, EmptySeq DEF FallbackChain
  <2>2. CASE RoutesOf(b) # {}
    <3>1. DOMAIN Routes \subseteq Nat
      BY ConfigAssumption, LenProperties
    <3>2. RouteOf(b) \in RouteType
      <4>1. RoutesOf(b) \in SUBSET Nat /\ RoutesOf(b) \subseteq DOMAIN Routes
        BY <3>1 DEF RoutesOf
      <4>2. Earliest(RoutesOf(b)) \in DOMAIN Routes
        BY <2>2, <4>1, EarliestIn
      <4>3. QED
        BY <4>2, ConfigAssumption DEF RouteOf
    <3>3. RouteOf(b).fallback \in Seq(Names)
      BY <3>2 DEF RouteType
    <3>4. QED
      BY <2>2, <3>3, OnlyType DEF FallbackChain
  <2>3. QED
    BY <2>1, <2>2
<1>4. <<b>> \in Seq(Names)
  OBVIOUS
<1>5. QED
  BY <1>2, <1>3, <1>4, ConcatProperties

\* Every request is routed to a configured name.
LEMMA PrimaryType == \A j \in JobType : Primary(j) \in Names
  BY ResolveType DEF JobType, Primary

\* The modes of a worker, and the requests that may arrive.
LEMMA ModesType == TypeOK => policy \in PolicyType /\ policy.pii \in PIIModes
  BY ProxyAssumption DEF TypeOK, PolicyType

LEMMA JobOfType == \A in \in Inputs : JobOf(in) \in JobType
  BY ProxyAssumption DEF JobOf, InputType, JobType

\* What a handler answers by itself is well typed.
LEMMA AnswersTyped ==
  ASSUME TypeOK, NEW kind \in Kinds, NEW n \in 100 .. 599, NEW pii \in SUBSET Places
  PROVE  Answer(kind, n, pii) \in AnswerType
  BY ModesType DEF Answer, AnswerType

\* A call to a backend of the configuration is well typed, whoever makes it.
LEMMA CallToType ==
  ASSUME NEW b \in Names, NEW j \in JobType
  PROVE  CallTo(b, j) \in CallType
<1>1. j.prompt \in PromptValues /\ j.body \in PromptValues
  BY DEF JobType
<1>2. InjectedKey(j) \in Names \cup {ClientKey}
  BY PrimaryType DEF InjectedKey
<1>3. QED
  BY <1>1, <1>2 DEF CallTo, CallType
-----------------------------------------------------------------------------
(***************************************************************************)
(* The calls a request has made are the beginning of its chain.  TypeOK is *)
(* inductive only together with it: a call is well typed because the chain *)
(* still has a backend at that position.                                   *)
(***************************************************************************)
Prefix(calls, chain) ==
  /\ Len(calls) <= Len(chain)
  /\ \A i \in 1 .. Len(calls) : calls[i].to = chain[i]

CallsInOrder ==
  \A r \in Requests :
    /\ pc[r] \in {"reading", "blocking", "alerting"} => sent[r] = <<>>
    /\ pc[r] \in {"calling", "connecting", "streaming"} => sent[r] # <<>>
    /\ sent[r] # <<>> => job[r] \in JobType /\ Prefix(sent[r], Chain[Primary(job[r])])

\* A call is well typed, and is the next one of the chain.
LEMMA CallNextProperties ==
  ASSUME TypeOK, NEW r \in Requests, job[r] \in JobType, HasNext(r), CallNext(r)
  PROVE  \E c \in CallType :
            /\ sent' = [sent EXCEPT ![r] = Append(sent[r], c)]
            /\ c.to = Chain[Primary(job[r])][Len(sent[r]) + 1]
            /\ c.saw \in {job[r].prompt, job[r].body}
<1> DEFINE b == Primary(job[r])
           next == Chain[b][Len(sent[r]) + 1]
           c == CallTo(next, job[r])
<1>1. b \in Names
  BY PrimaryType
<1>2. Chain[b] \in Seq(Names)
  BY <1>1, ChainType
<1>3. Len(sent[r]) + 1 \in 1 .. Len(Chain[b])
  <2>1. sent[r] \in Seq(CallType)
    BY DEF TypeOK
  <2>2. Len(sent[r]) \in Nat /\ Len(Chain[b]) \in Nat
    BY <1>2, <2>1, LenProperties
  <2>3. QED
    BY <2>2 DEF HasNext
<1>4. next \in Names
  BY <1>2, <1>3, ElementOfSeq
<1>5. c \in CallType
  <2> HIDE DEF next
  <2>1. QED
    BY <1>4, CallToType
<1>6. c.to = next /\ c.saw \in {job[r].prompt, job[r].body}
  BY DEF CallTo
<1>7. sent' = [sent EXCEPT ![r] = Append(sent[r], c)]
  BY DEF CallNext
<1>8. QED
  BY <1>5, <1>6, <1>7

\* A request that has made no call can make one, and one in a call is a request.
LEMMA CanCall ==
  ASSUME TypeOK, CallsInOrder, NEW r \in Requests, pc[r] \in {"reading", "alerting"}
  PROVE  job[r] \in JobType /\ sent[r] = <<>> /\ HasNext(r)
<1>1. job[r] \in JobType /\ sent[r] = <<>>
  BY DEF TypeOK, CallsInOrder
<1>2. Len(Chain[Primary(job[r])]) \in Nat \ {0}
  BY <1>1, PrimaryType, ChainType
<1>3. QED
  BY <1>1, <1>2, EmptySeq DEF HasNext

\* A call leaves the record of the calls well typed.
LEMMA CallNextType ==
  ASSUME TypeOK, NEW r \in Requests, job[r] \in JobType, HasNext(r), CallNext(r)
  PROVE  sent' \in [Requests -> Seq(CallType)]
<1>1. PICK c \in CallType : sent' = [sent EXCEPT ![r] = Append(sent[r], c)]
  BY CallNextProperties
<1>2. Append(sent[r], c) \in Seq(CallType)
  BY AppendProperties DEF TypeOK
<1>3. QED
  BY <1>1, <1>2 DEF TypeOK

\* After a call there is a backend that was called last.
LEMMA LastCalledType ==
  ASSUME TypeOK, CallsInOrder, NEW r \in Requests, pc[r] = "calling"
  PROVE  /\ LastCalled(r) \in Names
         /\ LastCall(r) \in CallType
         /\ Len(sent[r]) \in Nat \ {0}
<1>1. sent[r] \in Seq(CallType) /\ sent[r] # <<>>
  BY DEF TypeOK, CallsInOrder
<1>2. Len(sent[r]) \in Nat \ {0}
  BY <1>1, EmptySeq
<1>3. sent[r][Len(sent[r])] \in CallType
  BY <1>1, <1>2, ElementOfSeq
<1>4. QED
  BY <1>2, <1>3 DEF LastCalled, LastCall, CallType

\* Whatever a put drops, the cache keeps its type.
LEMMA KeepType ==
  ASSUME cache \in [CacheKeys -> CacheEntries \cup {NoEntry}],
         NEW k \in CacheKeys, NEW e \in CacheEntries, Cache!Keep(k, e)
  PROVE  /\ cache' \in [CacheKeys -> CacheEntries \cup {NoEntry}]
         /\ \A x \in CacheKeys : cache'[x] = NoEntry \/ cache'[x] = IF x = k THEN e ELSE cache[x]
  BY DEF Cache!Keep, Cache!Without

\* Nor does it lose its type when entries expire: each one stays or goes.
LEMMA DropType ==
  ASSUME cache \in [CacheKeys -> CacheEntries \cup {NoEntry}], Cache!Drop
  PROVE  /\ cache' \in [CacheKeys -> CacheEntries \cup {NoEntry}]
         /\ \A x \in CacheKeys : cache'[x] = NoEntry \/ cache'[x] = cache[x]
  BY DEF Cache!Drop, Cache!Without

\* What a worker stores, under whatever modes, is an entry under its own key.
LEMMA StoreType ==
  ASSUME TypeOK, NEW modes \in PolicyType, NEW j \in JobType, NEW c \in CallType,
         NEW rep \in Replies, Store(modes, j, c, rep)
  PROVE  /\ cache' \in [CacheKeys -> CacheEntries \cup {NoEntry}]
         /\ \/ cache' = cache
            \/ /\ Storable(j, rep) /\ CacheKey(j) \in CacheKeys
               /\ \A x \in CacheKeys :
                     \/ cache'[x] = NoEntry
                     \/ cache'[x] = IF x = CacheKey(j) THEN Entry(modes, c, rep) ELSE cache[x]
<1>1. cache \in [CacheKeys -> CacheEntries \cup {NoEntry}]
  BY DEF TypeOK
<1>2. CASE Storable(j, rep)
  <2>1. CacheKey(j) \in CacheKeys
    BY <1>2 DEF Storable, Cacheable, CacheKey, CacheKeys, JobType, ModelFields, PromptValues
  <2>2. Entry(modes, c, rep) \in CacheEntries
    <3>1. rep.status \in 100 .. 599 /\ rep.pii \in SUBSET Places /\ modes.pii \in PIIModes
      BY ProxyAssumption DEF ReplyType, PolicyType
    <3>2. c.to \in Names /\ c.saw \in PromptValues
      BY DEF CallType
    <3>3. Delivered(modes, rep) \in SUBSET Places
      BY <3>1 DEF Delivered
    <3>4. QED
      BY <3>1, <3>2, <3>3 DEF Entry, CacheEntries
  <2>3. Cache!Keep(CacheKey(j), Entry(modes, c, rep))
    BY <1>2 DEF Store
  <2>4. QED
    BY <1>1, <1>2, <2>1, <2>2, <2>3, KeepType
<1>3. CASE ~Storable(j, rep)
  BY <1>1, <1>3 DEF Store
<1>4. QED
  BY <1>2, <1>3

\* What other workers do to the cache: a request and a call of theirs, under their modes.
LEMMA Elsewhere ==
  ASSUME NEW modes \in Policies, NEW in \in Inputs, NEW rep \in Replies,
         StoreElsewhere(modes, in, rep)
  PROVE  /\ CacheShared /\ UNCHANGED <<policy, slot, budget>>
         /\ \E j \in JobType, c \in CallType :
               /\ Store(modes, j, c, rep)
               /\ c.saw = j.prompt
               /\ \E i \in DOMAIN Chain[Primary(j)] : c.to = Chain[Primary(j)][i]
<1> DEFINE j == Scrubbed(modes, JobOf(in))
           chain == Chain[Primary(j)]
<1>1. JobOf(in) \in JobType /\ JobOf(in).body = JobOf(in).prompt
  BY JobOfType DEF JobOf
<1>2. j \in JobType /\ j.body = j.prompt
  BY <1>1, ProxyAssumption DEF Scrubbed, JobType, PromptValues
<1>3. PICK i \in DOMAIN chain : Store(modes, j, CallTo(chain[i], j), rep)
  BY DEF StoreElsewhere
<1>4. chain[i] \in Names
  BY <1>2, <1>3, PrimaryType, ChainType, LenProperties, ElementOfSeq
<1> HIDE DEF j
<1>5. CallTo(chain[i], j) \in CallType
  BY <1>2, <1>4, CallToType
<1>6. CallTo(chain[i], j).saw = j.prompt /\ CallTo(chain[i], j).to = chain[i]
  BY <1>2 DEF CallTo
<1>7. CacheShared /\ UNCHANGED <<policy, slot, budget>>
  BY DEF StoreElsewhere
<1>8. QED
  BY <1>2, <1>3, <1>5, <1>6, <1>7

\* Whether the log can be written or not, the answer is well typed.
LEMMA LogAndReturnType ==
  ASSUME TypeOK, NEW r \in Requests, NEW a \in AnswerType, LogAndReturn(r, a)
  PROVE  /\ pc' = [pc EXCEPT ![r] = "idle"]
         /\ reply' \in [Requests -> AnswerType]
         /\ logged' \in [Requests -> Nat]
<1>1. Answer("internal", 500, {}) \in AnswerType
  BY AnswersTyped DEF Kinds
<1>2. reply \in [Requests -> AnswerType] /\ logged \in [Requests -> Nat]
  BY DEF TypeOK
<1>3. CASE Return(r, Answer("internal", 500, {}))
  BY <1>1, <1>2, <1>3 DEF Return
<1>4. CASE /\ pc' = [pc EXCEPT ![r] = "idle"]
           /\ reply' = [reply EXCEPT ![r] = a]
           /\ logged' = [logged EXCEPT ![r] = @ + 1]
  BY <1>2, <1>4
<1>5. QED
  BY <1>3, <1>4 DEF LogAndReturn

\* Forwarding a request keeps the types, from the cache or to a backend.
LEMMA ForwardType ==
  ASSUME TypeOK, CallsInOrder, NEW r \in Requests, pc[r] \in {"reading", "alerting"}, Forward(r)
  PROVE  TypeOK'
<1>1. job[r] \in JobType /\ HasNext(r)
  BY CanCall
<1>2. CASE Hit(job[r])
  <2> DEFINE entry == cache[CacheKey(job[r])]
             a == CachedAnswer(entry)
  <2>1. CacheKey(job[r]) \in CacheKeys
    BY <1>1, <1>2 DEF Hit, Cacheable, CacheKey, CacheKeys, JobType, ModelFields, PromptValues
  <2>2. entry \in CacheEntries
    BY <1>2, <2>1 DEF TypeOK, Hit
  <2>3. a \in AnswerType
    <3> HIDE DEF entry
    <3> QED BY <2>2 DEF CachedAnswer, AnswerType, Kinds, CacheEntries
  <2>4. LogAndReturn(r, a) /\ UNCHANGED <<sent, policy, job, cache, budget, bounds>>
    BY <1>2 DEF Forward
  <2> HIDE DEF a
  <2>5. /\ pc' = [pc EXCEPT ![r] = "idle"]
        /\ reply' \in [Requests -> AnswerType]
        /\ logged' \in [Requests -> Nat]
    BY <2>3, <2>4, LogAndReturnType
  <2>6. QED
    BY <2>4, <2>5 DEF TypeOK, States, budget, bounds
<1>3. CASE ~Hit(job[r])
  <2>1. CallNext(r) /\ UNCHANGED <<policy, job, cache, budget, bounds, reply, logged>>
    BY <1>3 DEF Forward, Suspend
  <2>2. pc' = [pc EXCEPT ![r] = "calling"] \/ pc' = [pc EXCEPT ![r] = "connecting"]
    BY <1>3 DEF Forward, Suspend
  <2>3. sent' \in [Requests -> Seq(CallType)]
    BY <1>1, <2>1, CallNextType
  <2>4. QED
    BY <1>1, <2>1, <2>2, <2>3 DEF TypeOK, States, budget, bounds
<1>4. QED
  BY <1>2, <1>3

\* So does the response of a backend: its cost, its cache entry, its log entry.
LEMMA FinishType ==
  ASSUME TypeOK, CallsInOrder, NEW r \in Requests, NEW rep \in Replies, Finish(r, rep)
  PROVE  TypeOK'
<1> DEFINE b == LastCalled(r)
           cost == Charge(b, rep)
           a == Answer("buffered", rep.status, Delivered(policy, rep))
<1>1. pc[r] = "calling" /\ job[r] \in JobType /\ rep \in ReplyType
  BY ProxyAssumption DEF Finish, TypeOK
<1>2. b \in Names /\ LastCall(r) \in CallType
  BY <1>1, LastCalledType
<1>3. Delivered(policy, rep) \in SUBSET Places
  BY <1>1 DEF Delivered, ReplyType
<1>4. cost \in Nat
  BY <1>1, ProxyAssumption DEF Charge, ReplyType
<1>5. a \in AnswerType
  BY <1>1, <1>3, AnswersTyped DEF Kinds, ReplyType
<1>6. spent' \in [Names -> Nat] /\ ledger' \in [Names -> Nat]
  <2>1. Record(b, cost)
    BY DEF Finish
  <2>2. spent \in [Names -> Nat] /\ ledger \in [Names -> Nat]
    BY DEF TypeOK
  <2> HIDE DEF b, cost
  <2>3. spent' \in [Names -> Nat]
    BY <1>2, <1>4, <2>1, <2>2 DEF Record
  <2>4. ledger' \in [Names -> Nat]
    BY <1>2, <1>4, <2>1, <2>2 DEF Record
  <2>5. QED
    BY <2>3, <2>4
<1>7. cache' \in [CacheKeys -> CacheEntries \cup {NoEntry}]
  <2>1. CASE cache' = cache
    BY <2>1 DEF TypeOK
  <2>2. CASE Store(policy, job[r], LastCall(r), rep)
    BY <1>1, <1>2, <2>2, ModesType, StoreType
  <2>3. QED
    BY <2>1, <2>2 DEF Finish
<1>8. /\ pc' = [pc EXCEPT ![r] = "idle"]
      /\ reply' \in [Requests -> AnswerType]
      /\ logged' \in [Requests -> Nat]
  <2>1. LogAndReturn(r, a)
    BY DEF Finish
  <2> HIDE DEF a
  <2>2. QED
    BY <1>5, <2>1, LogAndReturnType
<1>9. UNCHANGED <<policy, job, sent, arrivals, restarts, months>>
  BY DEF Finish, bounds
<1>10. QED
  BY <1>6, <1>7, <1>8, <1>9 DEF TypeOK, States

\* Every step keeps the types, given that calls follow the chain.
LEMMA TypeStep == TypeOK /\ CallsInOrder /\ [Next]_vars => TypeOK'
<1> SUFFICES ASSUME TypeOK, CallsInOrder, [Next]_vars PROVE TypeOK'
  OBVIOUS
<1> USE DEF budget, bounds
<1>1. ASSUME NEW r \in Requests, NEW in \in Inputs, Arrive(r, in) PROVE TypeOK'
  <2> DEFINE j == JobOf(in)
  <2>1. j \in JobType
    BY JobOfType
  <2>2. NoReply \in AnswerType
    BY DEF NoReply, AnswerType, Kinds, PIIModes
  <2>3. /\ pc' = [pc EXCEPT ![r] = "reading"] /\ job' = [job EXCEPT ![r] = j]
        /\ sent' = [sent EXCEPT ![r] = <<>>] /\ reply' = [reply EXCEPT ![r] = NoReply]
        /\ logged' = [logged EXCEPT ![r] = 0]
        /\ arrivals' \in 0 .. MaxArrivals
        /\ UNCHANGED <<policy, cache, spent, ledger, restarts, months>>
    BY <1>1, ProxyAssumption DEF Arrive, TypeOK
  <2>4. <<>> \in Seq(CallType)
    BY EmptySeq
  <2> HIDE DEF j
  <2>5. QED
    BY <2>1, <2>2, <2>3, <2>4 DEF TypeOK, States
<1>2. ASSUME NEW r \in Requests, Refuse(r) PROVE TypeOK'
  <2>1. \A n \in {402, 403} : Answer("refused", n, {}) \in AnswerType
    BY AnswersTyped DEF Kinds
  <2>2. QED
    BY <1>2, <2>1 DEF Refuse, Return, TypeOK, States
<1>3. ASSUME NEW r \in Requests, Block(r) PROVE TypeOK'
  BY <1>3 DEF Block, Admitted, Suspend, TypeOK, States
<1>4. ASSUME NEW r \in Requests, Hold(r) PROVE TypeOK'
  <2>1. pc[r] = "reading" /\ job[r] \in JobType
    BY <1>4 DEF Hold, Admitted, TypeOK
  <2>2. Scrubbed(policy, job[r]) \in JobType
    BY <2>1, ProxyAssumption DEF Scrubbed, JobType, PromptValues
  <2>3. QED
    BY <1>4, <2>2 DEF Hold, Suspend, TypeOK, States
<1>5. ASSUME NEW r \in Requests, Pass(r) PROVE TypeOK'
  BY <1>5, ForwardType DEF Pass, Admitted
<1>6. ASSUME NEW r \in Requests, Blocked(r) PROVE TypeOK'
  <2>1. Answer("blocked", 403, {}) \in AnswerType
    BY AnswersTyped DEF Kinds
  <2>2. /\ pc' = [pc EXCEPT ![r] = "idle"]
        /\ reply' \in [Requests -> AnswerType] /\ logged' \in [Requests -> Nat]
    BY <1>6, <2>1, LogAndReturnType DEF Blocked
  <2>3. QED
    BY <1>6, <2>2 DEF Blocked, TypeOK, States
<1>7. ASSUME NEW r \in Requests, Alerted(r) PROVE TypeOK'
  BY <1>7, ForwardType DEF Alerted
<1>8. ASSUME NEW r \in Requests, Fail(r) PROVE TypeOK'
  <2>1. job[r] \in JobType
    BY <1>8 DEF Fail, TypeOK
  <2>2. Answer("gateway", 504, {}) \in AnswerType
    BY AnswersTyped DEF Kinds
  <2>3. CASE HasNext(r) /\ CallNext(r) /\ UNCHANGED <<pc, reply, logged>>
    BY <1>8, <2>1, <2>3, CallNextType DEF Fail, TypeOK
  <2>4. CASE Return(r, Answer("gateway", 504, {})) /\ UNCHANGED sent
    BY <1>8, <2>2, <2>4 DEF Fail, Return, TypeOK, States
  <2>5. QED
    BY <1>8, <2>3, <2>4 DEF Fail
<1>9. ASSUME NEW r \in Requests, Raise(r) PROVE TypeOK'
  <2>1. Answer("internal", 500, {}) \in AnswerType
    BY AnswersTyped DEF Kinds
  <2>2. QED
    BY <1>9, <2>1 DEF Raise, Return, TypeOK, States
<1>10. ASSUME NEW r \in Requests, NEW rep \in Replies, Finish(r, rep) PROVE TypeOK'
  BY <1>10, FinishType
<1>11. ASSUME NEW r \in Requests, NEW rep \in Replies, FallBack(r, rep) PROVE TypeOK'
  <2>1. job[r] \in JobType
    BY <1>11 DEF FallBack, TypeOK
  <2>2. sent' \in [Requests -> Seq(CallType)]
    BY <1>11, <2>1, CallNextType DEF FallBack
  <2>3. QED
    BY <1>11, <2>2 DEF FallBack, TypeOK
<1>12. ASSUME NEW r \in Requests, NEW rep \in Replies, Open(r, rep) PROVE TypeOK'
  <2>1. Answer("stream", rep.status, rep.pii) \in AnswerType
    BY ProxyAssumption, AnswersTyped DEF Kinds, ReplyType
  <2>2. QED
    BY <1>12, <2>1 DEF Open, TypeOK, States
<1>13. ASSUME NEW r \in Requests, Close(r) PROVE TypeOK'
  BY <1>13 DEF Close, TypeOK, States
<1>14. CASE Expire
  BY <1>14, DropType DEF Expire, slot, TypeOK
<1>15. CASE Restart
  <2>1. NoReply \in AnswerType /\ <<>> \in Seq(CallType)
    BY EmptySeq DEF NoReply, AnswerType, Kinds, PIIModes
  <2>2. cache' \in [CacheKeys -> CacheEntries \cup {NoEntry}]
    BY <1>15 DEF Restart, CacheAtStart, TypeOK
  <2>3. QED
    BY <1>15, <2>1, <2>2, ProxyAssumption DEF Restart, TypeOK, States
<1>16. CASE NewMonth
  BY <1>16, ProxyAssumption DEF NewMonth, slot, TypeOK
<1>17. CASE UNCHANGED vars
  BY <1>17 DEF vars, slot, TypeOK
<1>18. ASSUME NEW modes \in Policies, NEW in \in Inputs, NEW rep \in Replies,
              StoreElsewhere(modes, in, rep)
       PROVE  TypeOK'
  <2>1. modes \in PolicyType
    BY ProxyAssumption
  <2>2. cache' \in [CacheKeys -> CacheEntries \cup {NoEntry}]
    BY <1>18, <2>1, Elsewhere, StoreType
  <2>3. UNCHANGED <<policy, slot, budget>>
    BY <1>18, Elsewhere
  <2>4. arrivals' \in 0 .. MaxArrivals /\ UNCHANGED <<restarts, months>>
    BY <1>18, ProxyAssumption DEF StoreElsewhere, TypeOK
  <2>5. QED
    BY <2>2, <2>3, <2>4 DEF slot, TypeOK
<1>19. QED
  BY <1>1, <1>2, <1>3, <1>4, <1>5, <1>6, <1>7, <1>8, <1>9, <1>10, <1>11, <1>12,
     <1>13, <1>14, <1>15, <1>16, <1>17, <1>18 DEF Next, Handle, Resume
-----------------------------------------------------------------------------
\* One more call keeps the calls a beginning of the chain.
LEMMA CallNextInOrder ==
  ASSUME TypeOK, CallsInOrder, NEW r \in Requests, job[r] \in JobType, HasNext(r), CallNext(r),
         UNCHANGED job
  PROVE  /\ \A q \in Requests \ {r} : sent'[q] = sent[q]
         /\ sent'[r] # <<>>
         /\ Prefix(sent'[r], Chain[Primary(job[r])])
<1> DEFINE chain == Chain[Primary(job[r])]
<1>1. PICK c \in CallType : /\ sent' = [sent EXCEPT ![r] = Append(sent[r], c)]
                            /\ c.to = chain[Len(sent[r]) + 1]
  BY CallNextProperties
<1>2. sent[r] \in Seq(CallType) /\ sent \in [Requests -> Seq(CallType)]
  BY DEF TypeOK
<1>3. sent'[r] = Append(sent[r], c) /\ \A q \in Requests \ {r} : sent'[q] = sent[q]
  BY <1>1, <1>2
<1>4. Len(sent[r]) \in Nat /\ Len(chain) \in Nat /\ Len(sent[r]) < Len(chain)
  BY <1>2, LenProperties, PrimaryType, ChainType DEF HasNext
<1>5. \A i \in 1 .. Len(sent[r]) : sent[r][i].to = chain[i]
  BY <1>2, <1>4, EmptySeq DEF CallsInOrder, Prefix
<1>6. /\ Len(sent'[r]) = Len(sent[r]) + 1 /\ sent'[r] # <<>>
      /\ \A i \in 1 .. Len(sent[r]) : sent'[r][i] = sent[r][i]
      /\ sent'[r][Len(sent[r]) + 1] = c
  BY <1>2, <1>3, AppendProperties
<1> HIDE DEF chain
<1>7. Prefix(sent'[r], chain)
  BY <1>1, <1>4, <1>5, <1>6 DEF Prefix
<1>8. QED
  BY <1>3, <1>6, <1>7 DEF chain

\* The first call of a request is to the first backend of its chain.
LEMMA ForwardInOrder ==
  ASSUME TypeOK, CallsInOrder, NEW r \in Requests, pc[r] \in {"reading", "alerting"}, Forward(r)
  PROVE  CallsInOrder'
<1>1. job[r] \in JobType /\ HasNext(r) /\ sent[r] = <<>>
  BY CanCall
<1>2. CASE Hit(job[r])
  <2>1. pc' = [pc EXCEPT ![r] = "idle"] /\ UNCHANGED <<sent, job>>
    BY <1>2 DEF Forward, LogAndReturn, Return
  <2>2. QED
    BY <2>1 DEF TypeOK, CallsInOrder
<1>3. CASE ~Hit(job[r])
  <2>1. CallNext(r) /\ UNCHANGED job
    BY <1>3 DEF Forward
  <2>2. pc' = [pc EXCEPT ![r] = "calling"] \/ pc' = [pc EXCEPT ![r] = "connecting"]
    BY <1>3 DEF Forward, Suspend
  <2>3. QED
    BY <1>1, <2>1, <2>2, CallNextInOrder DEF TypeOK, CallsInOrder
<1>4. QED
  BY <1>2, <1>3

\* Every step keeps the calls a beginning of the chain.
LEMMA CallsStep == TypeOK /\ CallsInOrder /\ [Next]_vars => CallsInOrder'
<1> SUFFICES ASSUME TypeOK, CallsInOrder, [Next]_vars PROVE CallsInOrder'
  OBVIOUS
\* A request that ends keeps its calls; so does one that goes on without calling.
<1>1. ASSUME NEW r \in Requests, Blocked(r) \/ Raise(r) \/ Close(r) \/ Refuse(r)
      PROVE  CallsInOrder'
  <2>1. pc' = [pc EXCEPT ![r] = "idle"] /\ UNCHANGED <<sent, job>>
    BY <1>1 DEF Blocked, Raise, Close, Refuse, LogAndReturn, Return
  <2>2. QED
    BY <2>1 DEF TypeOK, CallsInOrder
<1>2. ASSUME NEW r \in Requests, NEW in \in Inputs, Arrive(r, in) PROVE CallsInOrder'
  <2>1. /\ pc' = [pc EXCEPT ![r] = "reading"] /\ sent' = [sent EXCEPT ![r] = <<>>]
        /\ \A q \in Requests \ {r} : job'[q] = job[q]
    BY <1>2 DEF Arrive, TypeOK
  <2>2. QED
    BY <2>1 DEF TypeOK, CallsInOrder
<1>3. ASSUME NEW r \in Requests, Block(r) PROVE CallsInOrder'
  <2>1. pc[r] = "reading" /\ pc' = [pc EXCEPT ![r] = "blocking"] /\ UNCHANGED <<sent, job>>
    BY <1>3 DEF Block, Admitted, Suspend
  <2>2. QED
    BY <2>1 DEF TypeOK, CallsInOrder
<1>4. ASSUME NEW r \in Requests, Hold(r) PROVE CallsInOrder'
  <2>1. /\ pc[r] = "reading" /\ pc' = [pc EXCEPT ![r] = "alerting"] /\ UNCHANGED sent
        /\ \A q \in Requests \ {r} : job'[q] = job[q]
    BY <1>4 DEF Hold, Admitted, Suspend, TypeOK
  <2>2. QED
    BY <2>1 DEF TypeOK, CallsInOrder
<1>5. ASSUME NEW r \in Requests, Pass(r) \/ Alerted(r) PROVE CallsInOrder'
  BY <1>5, ForwardInOrder DEF Pass, Alerted, Admitted
<1>6. ASSUME NEW r \in Requests, Fail(r) PROVE CallsInOrder'
  <2>1. job[r] \in JobType /\ pc[r] \in {"calling", "connecting"} /\ UNCHANGED job
    BY <1>6 DEF Fail, TypeOK
  <2>2. CASE HasNext(r) /\ CallNext(r) /\ UNCHANGED pc
    BY <2>1, <2>2, CallNextInOrder DEF CallsInOrder
  <2>3. CASE pc' = [pc EXCEPT ![r] = "idle"] /\ UNCHANGED sent
    BY <2>1, <2>3 DEF TypeOK, CallsInOrder
  <2>4. QED
    BY <1>6, <2>2, <2>3 DEF Fail, Return
<1>7. ASSUME NEW r \in Requests, NEW rep \in Replies, Finish(r, rep) PROVE CallsInOrder'
  <2>1. pc' = [pc EXCEPT ![r] = "idle"] /\ UNCHANGED <<sent, job>>
    BY <1>7 DEF Finish, LogAndReturn, Return
  <2>2. QED
    BY <2>1 DEF TypeOK, CallsInOrder
<1>8. ASSUME NEW r \in Requests, NEW rep \in Replies, FallBack(r, rep) PROVE CallsInOrder'
  <2>1. /\ job[r] \in JobType /\ pc[r] = "calling" /\ UNCHANGED <<job, pc>>
        /\ HasNext(r) /\ CallNext(r)
    BY <1>8 DEF FallBack, TypeOK
  <2>2. QED
    BY <2>1, CallNextInOrder DEF CallsInOrder
<1>9. ASSUME NEW r \in Requests, NEW rep \in Replies, Open(r, rep) PROVE CallsInOrder'
  <2>1. /\ pc[r] = "connecting" /\ pc' = [pc EXCEPT ![r] = "streaming"]
        /\ UNCHANGED <<sent, job>>
    BY <1>9 DEF Open
  <2>2. QED
    BY <2>1 DEF TypeOK, CallsInOrder
<1>10. CASE Restart
  BY <1>10 DEF Restart, CallsInOrder
<1>11. CASE Expire \/ NewMonth \/ UNCHANGED vars
  BY <1>11 DEF Expire, NewMonth, vars, slot, CallsInOrder
<1>12. ASSUME NEW modes \in Policies, NEW in \in Inputs, NEW rep \in Replies,
              StoreElsewhere(modes, in, rep)
       PROVE  CallsInOrder'
  BY <1>12, Elsewhere DEF slot, CallsInOrder
<1>13. QED
  BY <1>1, <1>2, <1>3, <1>4, <1>5, <1>6, <1>7, <1>8, <1>9, <1>10, <1>11, <1>12
     DEF Next, Handle, Resume

\* Both invariants hold when the worker starts.
LEMMA InitTyped == Init => TypeOK /\ CallsInOrder
<1> SUFFICES ASSUME Init PROVE TypeOK /\ CallsInOrder
  OBVIOUS
<1>1. NoReply \in AnswerType /\ <<>> \in Seq(CallType)
  BY EmptySeq DEF NoReply, AnswerType, Kinds, PIIModes
<1>2. QED
  BY <1>1, ProxyAssumption DEF Init, TypeOK, CallsInOrder, States

\* The invariant the other proofs rest on.
LEMMA Calls == Spec => [](TypeOK /\ CallsInOrder)
  BY InitTyped, TypeStep, CallsStep, PTL DEF Spec

(***************************************************************************)
(* Type correctness: every variable keeps its type, and a suspended        *)
(* handler always holds a request.                                         *)
(***************************************************************************)
THEOREM Typing == Spec => []TypeOK
  BY Calls, PTL
-----------------------------------------------------------------------------
(***************************************************************************)
(* A failure is reported in the step that finds no backend left, and the   *)
(* calls of an answered request do not change.                             *)
(***************************************************************************)
Exhausted ==
  \A r \in Requests :
    /\ pc[r] \notin {"idle", "streaming"} => reply[r].kind = "none"
    /\ Failed(r) => sent[r] # <<>> /\ ~HasNext(r)

\* Ending a handler changes the state of its own slot only.
LEMMA ReturnReply ==
  ASSUME TypeOK, NEW r \in Requests, NEW a, Return(r, a) \/ LogAndReturn(r, a)
  PROVE  /\ pc' = [pc EXCEPT ![r] = "idle"]
         /\ \A q \in Requests \ {r} : pc'[q] = pc[q] /\ reply'[q] = reply[q]
         /\ pc'[r] = "idle"
         /\ reply'[r] = a \/ reply'[r].kind = "internal"
<1>1. pc \in [Requests -> States] /\ reply \in [Requests -> AnswerType]
  BY DEF TypeOK
<1>2. QED
  BY <1>1 DEF Return, LogAndReturn, Answer

\* Every step keeps it: a failure is answered only where no backend is left.
LEMMA ExhaustedStep == TypeOK /\ CallsInOrder /\ Exhausted /\ [Next]_vars => Exhausted'
<1> SUFFICES ASSUME TypeOK, CallsInOrder, Exhausted, [Next]_vars PROVE Exhausted'
  OBVIOUS
<1> USE DEF Exhausted, Failed, HasNext
\* Steps that answer nothing: another request's calls and answer stay as they are.
<1>1. ASSUME NEW r \in Requests, Block(r) \/ Hold(r) PROVE Exhausted'
  <2>1. /\ pc[r] = "reading" /\ UNCHANGED <<sent, reply>>
        /\ \A q \in Requests \ {r} : job'[q] = job[q] /\ pc'[q] = pc[q]
    BY <1>1 DEF Block, Hold, Admitted, Suspend, TypeOK
  <2>2. QED
    BY <2>1
<1>2. ASSUME NEW r \in Requests, NEW in \in Inputs, Arrive(r, in) PROVE Exhausted'
  <2>1. /\ reply'[r].kind = "none"
        /\ \A q \in Requests \ {r} : /\ job'[q] = job[q] /\ pc'[q] = pc[q]
                                     /\ sent'[q] = sent[q] /\ reply'[q] = reply[q]
    BY <1>2 DEF Arrive, TypeOK, NoReply, Answer
  <2>2. QED
    BY <2>1
\* Answers that are no failure of a backend.
<1>3. ASSUME NEW r \in Requests, NEW a, a.kind \in {"refused", "blocked", "cached", "internal"},
             Return(r, a) \/ LogAndReturn(r, a), UNCHANGED <<job, sent>>
      PROVE  Exhausted'
  BY <1>3, ReturnReply
<1>4. ASSUME NEW r \in Requests, Refuse(r) \/ Blocked(r) \/ Raise(r) PROVE Exhausted'
  BY <1>3, <1>4 DEF Refuse, Blocked, Raise, Answer
<1>5. ASSUME NEW r \in Requests, pc[r] \in {"reading", "alerting", "calling", "connecting"},
             CallNext(r), HasNext(r), UNCHANGED <<job, reply>>,
             pc' \in {pc, [pc EXCEPT ![r] = "calling"], [pc EXCEPT ![r] = "connecting"]}
      PROVE  Exhausted'
  <2>1. job[r] \in JobType
    BY <1>5 DEF TypeOK
  <2>2. \A q \in Requests \ {r} : sent'[q] = sent[q] /\ pc'[q] = pc[q]
    BY <1>5, <2>1, CallNextInOrder DEF TypeOK
  <2>3. pc'[r] \notin {"idle", "streaming"} /\ reply[r].kind = "none"
    BY <1>5 DEF TypeOK
  <2>4. QED
    BY <1>5, <2>2, <2>3
<1>6. ASSUME NEW r \in Requests, Pass(r) \/ Alerted(r) PROVE Exhausted'
  <2>1. pc[r] \in {"reading", "alerting"} /\ Forward(r)
    BY <1>6 DEF Pass, Alerted, Admitted
  <2>2. CASE Hit(job[r])
    BY <1>3, <2>1, <2>2 DEF Forward, CachedAnswer
  <2>3. CASE ~Hit(job[r])
    BY <1>5, <2>1, <2>3, CanCall DEF Forward, Suspend
  <2>4. QED
    BY <2>2, <2>3
\* The failures.
<1>7. ASSUME NEW r \in Requests, pc[r] \in {"calling", "connecting"}, ~HasNext(r), NEW a,
             Return(r, a) \/ LogAndReturn(r, a), UNCHANGED <<job, sent>>
      PROVE  Exhausted'
  <2>1. sent[r] # <<>>
    BY <1>7 DEF CallsInOrder
  <2>2. QED
    BY <1>7, <2>1, ReturnReply
<1>8. ASSUME NEW r \in Requests, Fail(r) PROVE Exhausted'
  BY <1>5, <1>7, <1>8 DEF Fail
<1>9. ASSUME NEW r \in Requests, NEW rep \in Replies, Finish(r, rep) PROVE Exhausted'
  <2>1. CASE ~HasNext(r)
    BY <1>7, <1>9, <2>1 DEF Finish
  <2>2. CASE rep.status < 500
    <3>1. ~(rep.status >= 500)
      <4>1. rep \in ReplyType
        BY ProxyAssumption
      <4>2. rep.status \in 100 .. 599
        BY <4>1 DEF ReplyType
      <4>3. \A n \in 100 .. 599 : n < 500 => ~(n >= 500)
        OBVIOUS
      <4>4. QED
        BY <2>2, <4>2, <4>3
    <3> DEFINE a == Answer("buffered", rep.status, Delivered(policy, rep))
    <3>2. a.kind = "buffered" /\ ~(a.status >= 500)
      BY <3>1 DEF Answer
    <3>3. LogAndReturn(r, a) /\ UNCHANGED <<job, sent>>
      BY <1>9 DEF Finish
    <3> HIDE DEF a
    <3>4. QED
      BY <3>2, <3>3, ReturnReply
  <2>3. QED
    BY <1>9, <2>1, <2>2 DEF Finish
<1>10. ASSUME NEW r \in Requests, NEW rep \in Replies, FallBack(r, rep) PROVE Exhausted'
  BY <1>5, <1>10 DEF FallBack
<1>11. ASSUME NEW r \in Requests, NEW rep \in Replies, Open(r, rep) PROVE Exhausted'
  <2>1. /\ reply'[r].kind = "stream" /\ pc'[r] = "streaming" /\ UNCHANGED <<sent, job>>
        /\ \A q \in Requests \ {r} : pc'[q] = pc[q] /\ reply'[q] = reply[q]
    BY <1>11 DEF Open, TypeOK, Answer
  <2>2. QED
    BY <2>1
<1>12. ASSUME NEW r \in Requests, Close(r) PROVE Exhausted'
  <2>1. pc' = [pc EXCEPT ![r] = "idle"] /\ UNCHANGED <<sent, job, reply>>
    BY <1>12 DEF Close
  <2>2. QED
    BY <2>1 DEF TypeOK
<1>13. CASE Restart
  BY <1>13 DEF Restart, NoReply
<1>14. CASE Expire \/ NewMonth \/ UNCHANGED vars
  BY <1>14 DEF Expire, NewMonth, vars, slot
<1>15. ASSUME NEW modes \in Policies, NEW in \in Inputs, NEW rep \in Replies,
              StoreElsewhere(modes, in, rep)
       PROVE  Exhausted'
  BY <1>15, Elsewhere DEF slot
<1>16. QED
  BY <1>1, <1>2, <1>4, <1>6, <1>8, <1>9, <1>10, <1>11, <1>12, <1>13, <1>14, <1>15
     DEF Next, Handle, Resume

(***************************************************************************)
(* A client is told of a failure only when every backend of the chain has  *)
(* been called, in the configured order.                                   *)
(***************************************************************************)
THEOREM FailureExhaustsChain == Spec => []FailureMeansChainExhausted
<1>1. Init => Exhausted
  BY DEF Init, Exhausted, Failed, NoReply, Answer
<1>2. TypeOK /\ CallsInOrder /\ Exhausted => FailureMeansChainExhausted
  <2> SUFFICES ASSUME TypeOK, CallsInOrder, Exhausted, NEW r \in Requests, Failed(r)
               PROVE  [i \in DOMAIN sent[r] |-> sent[r][i].to] = Chain[Primary(job[r])]
    BY DEF FailureMeansChainExhausted
  <2> DEFINE chain == Chain[Primary(job[r])]
  <2>1. job[r] \in JobType /\ Prefix(sent[r], chain) /\ ~HasNext(r)
    BY DEF CallsInOrder, Exhausted
  <2>2. sent[r] \in Seq(CallType) /\ chain \in Seq(Names)
    BY <2>1, PrimaryType, ChainType DEF TypeOK
  <2>3. /\ Len(sent[r]) \in Nat /\ DOMAIN sent[r] = 1 .. Len(sent[r])
        /\ Len(chain) \in Nat /\ chain \in [1 .. Len(chain) -> Names]
    BY <2>2, LenProperties
  <2>4. Len(sent[r]) = Len(chain)
    BY <2>1, <2>3 DEF Prefix, HasNext
  <2> HIDE DEF chain
  <2>5. \A i \in 1 .. Len(sent[r]) : sent[r][i].to = chain[i]
    BY <2>1 DEF Prefix
  <2>6. [i \in DOMAIN sent[r] |-> sent[r][i].to] = chain
    BY <2>3, <2>4, <2>5
  <2>7. QED
    BY <2>6 DEF chain
<1>3. QED
  BY Calls, ExhaustedStep, <1>1, <1>2, PTL DEF Spec
-----------------------------------------------------------------------------
(***************************************************************************)
(* The budget is checked when a request is admitted and its cost recorded  *)
(* when it is answered, so the bound is not inductive: it needs the money  *)
(* the admitted requests may still cost.                                   *)
(***************************************************************************)

\* The admitted requests that may still be charged to b.
InFlight(b) == {r \in Requests : pc[r] \in {"alerting", "calling"} /\ Primary(job[r]) = b}

Bounded(b) ==
  \/ InFlight(b) = {} /\ spent[b] = 0
  \/ spent[b] + MaxCost * Cardinality(InFlight(b)) < Budget(b) + MaxCost * Cardinality(Requests)

Reserved == \A b \in CappedAlone : Bounded(b)

\* A capped backend has a budget that is a number.
LEMMA CappedType == \A b \in CappedAlone : b \in Names /\ Budget(b) \in Nat
<1>1. TAKE b \in CappedAlone
<1>2. b \in Names /\ Budget(b) # NoBudget /\ RoutesOf(b) # {}
  BY DEF CappedAlone, Budget
<1>3. DOMAIN Routes \subseteq Nat
  BY ConfigAssumption, LenProperties
<1>4. Earliest(RoutesOf(b)) \in RoutesOf(b)
  BY <1>2, <1>3, EarliestIn DEF RoutesOf
<1>5. RouteOf(b) \in RouteType
  BY <1>4, ConfigAssumption DEF RouteOf, RoutesOf
<1>6. QED
  BY <1>2, <1>5 DEF Budget, RouteType

\* There are never more requests in flight than slots.
LEMMA InFlightFinite ==
  \A b : IsFiniteSet(InFlight(b)) /\ Cardinality(InFlight(b)) \in 0 .. Cardinality(Requests)
<1>1. TAKE b
<1>2. InFlight(b) \subseteq Requests
  BY DEF InFlight
<1>3. QED
  BY <1>2, ProxyAssumption, FS_Subset, FS_CardinalityType

\* What little multiplication the bound needs.
LEMMA Times ==
  ASSUME NEW m \in Nat, NEW n \in Nat, m <= n
  PROVE  /\ MaxCost * m \in Nat
         /\ MaxCost * m <= MaxCost * n
         /\ MaxCost * (m + 1) = MaxCost * m + MaxCost
  BY ProxyAssumption, Z3
-----------------------------------------------------------------------------
\* Nothing is charged to b and no request for b is admitted.
LEMMA BoundKept ==
  ASSUME TypeOK, TypeOK', NEW b \in CappedAlone, Bounded(b),
         spent'[b] <= spent[b], InFlight(b)' \subseteq InFlight(b)
  PROVE  Bounded(b)'
<1> DEFINE n == Cardinality(InFlight(b))
           m == Cardinality(InFlight(b)')
           N == Cardinality(Requests)
<1>1. b \in Names /\ Budget(b) \in Nat
  BY CappedType
<1>2. spent[b] \in Nat /\ spent'[b] \in Nat
  BY <1>1 DEF TypeOK
<1>3. n \in Nat /\ m \in Nat /\ N \in Nat /\ m <= n
  BY InFlightFinite, FS_Subset, FS_CardinalityType, ProxyAssumption
<1>4. CASE InFlight(b) = {} /\ spent[b] = 0
  BY <1>2, <1>4 DEF Bounded
<1>5. CASE spent[b] + MaxCost * n < Budget(b) + MaxCost * N
  <2>1. MaxCost * m \in Nat /\ MaxCost * m <= MaxCost * n /\ MaxCost * n \in Nat /\ MaxCost * N \in Nat
    BY <1>3, Times
  <2> HIDE DEF n, m, N
  <2>2. spent'[b] + MaxCost * m < Budget(b) + MaxCost * N
    BY <1>1, <1>2, <1>5, <2>1
  <2>3. QED
    BY <2>2 DEF Bounded, n, m, N
<1>6. QED
  BY <1>4, <1>5 DEF Bounded

\* A request for b is admitted: b is below its budget.
LEMMA BoundAdmitted ==
  ASSUME TypeOK, NEW b \in CappedAlone, ~OverBudget(b), UNCHANGED spent,
         InFlight(b)' \subseteq Requests
  PROVE  Bounded(b)'
<1> DEFINE m == Cardinality(InFlight(b)')
           N == Cardinality(Requests)
<1>1. b \in Names /\ Budget(b) \in Nat
  BY CappedType
<1>2. spent[b] \in Nat /\ spent[b] < Budget(b)
  BY <1>1, ConfigAssumption DEF TypeOK, OverBudget
<1>3. m \in Nat /\ N \in Nat /\ m <= N
  BY FS_Subset, FS_CardinalityType, ProxyAssumption
<1>4. MaxCost * m \in Nat /\ MaxCost * m <= MaxCost * N /\ MaxCost * N \in Nat
  BY <1>3, Times
<1> HIDE DEF m, N
<1>5. spent'[b] + MaxCost * m < Budget(b) + MaxCost * N
  BY <1>1, <1>2, <1>4
<1>6. QED
  BY <1>5 DEF Bounded, m, N

\* An admitted request is answered: it no longer holds back the cost it is charged.
LEMMA BoundCharged ==
  ASSUME TypeOK, NEW b \in CappedAlone, Bounded(b), NEW r \in InFlight(b),
         NEW c \in 0 .. MaxCost, spent'[b] = spent[b] + c, InFlight(b)' = InFlight(b) \ {r}
  PROVE  Bounded(b)'
<1> DEFINE n == Cardinality(InFlight(b))
           m == Cardinality(InFlight(b)')
           N == Cardinality(Requests)
<1>1. Budget(b) \in Nat /\ spent[b] \in Nat
  BY CappedType DEF TypeOK
<1>2. n \in Nat /\ m \in Nat /\ N \in Nat /\ n = m + 1
  <2>1. IsFiniteSet(InFlight(b)) /\ n \in Nat /\ N \in Nat
    BY InFlightFinite, FS_CardinalityType, ProxyAssumption
  <2>2. m = n - 1 /\ IsFiniteSet(InFlight(b)')
    BY <2>1, FS_RemoveElement
  <2>3. m \in Nat
    BY <2>2, FS_CardinalityType
  <2>4. QED
    BY <2>1, <2>2, <2>3
<1>3. spent[b] + MaxCost * n < Budget(b) + MaxCost * N
  BY DEF Bounded
<1> HIDE DEF n, m, N
<1>4. MaxCost \in Nat /\ MaxCost * m \in Nat /\ MaxCost * N \in Nat /\ MaxCost * n = MaxCost * m + MaxCost
  <2>1. MaxCost \in Nat
    BY ProxyAssumption
  <2>2. QED
    BY <1>2, <2>1, Times
<1>5. spent'[b] + MaxCost * m < Budget(b) + MaxCost * N
  BY <1>1, <1>3, <1>4
<1>6. QED
  BY <1>5 DEF Bounded, m, N

\* A backend that is nobody's fallback is charged only for requests routed to it.
LEMMA ChargedIsInFlight ==
  ASSUME TypeOK, CallsInOrder, NEW b \in CappedAlone, NEW r \in Requests,
         pc[r] = "calling", LastCalled(r) = b
  PROVE  r \in InFlight(b)
<1> DEFINE p == Primary(job[r])
<1>1. p \in Names /\ Chain[p] \in Seq(Names)
  BY PrimaryType, ChainType DEF TypeOK
<1>2. Len(sent[r]) \in Nat \ {0} /\ Prefix(sent[r], Chain[p])
  BY LastCalledType DEF CallsInOrder
<1>3. Len(sent[r]) \in DOMAIN Chain[p] /\ Chain[p][Len(sent[r])] = b
  BY <1>1, <1>2, LenProperties DEF Prefix, LastCalled, LastCall
<1>4. p = b
  BY <1>1, <1>3 DEF CappedAlone
<1>5. QED
  BY <1>4 DEF InFlight

\* Every step keeps the reservation of every capped backend.
LEMMA ReservedStep ==
  TypeOK /\ TypeOK' /\ CallsInOrder /\ LedgerWithinSpent /\ Reserved /\ [Next]_vars => Reserved'
<1> SUFFICES ASSUME TypeOK, TypeOK', CallsInOrder, LedgerWithinSpent, Reserved, [Next]_vars,
                    NEW b \in CappedAlone
             PROVE  Bounded(b)'
  BY DEF Reserved
<1> USE DEF InFlight
<1>0. Bounded(b) /\ b \in Names
  BY CappedType DEF Reserved
<1>1. ASSUME spent'[b] <= spent[b], InFlight(b)' \subseteq InFlight(b) PROVE Bounded(b)'
  BY <1>0, <1>1, BoundKept
\* Spending aside, a request only leaves the ones in flight...
<1>2. ASSUME NEW r \in Requests, UNCHANGED <<spent, job>>,
             \/ pc' = pc
             \/ pc' = [pc EXCEPT ![r] = pc'[r]] /\ pc'[r] \notin {"alerting", "calling"}
             \/ pc' = [pc EXCEPT ![r] = pc'[r]] /\ pc[r] \in {"alerting", "calling"}
      PROVE  Bounded(b)'
  <2>1. spent[b] \in Nat
    BY <1>0 DEF TypeOK
  <2>2. InFlight(b)' \subseteq InFlight(b)
    BY <1>2 DEF TypeOK
  <2>3. QED
    BY <1>1, <1>2, <2>1, <2>2
<1>3. ASSUME NEW r \in Requests, Refuse(r) \/ Block(r) \/ Blocked(r) \/ Raise(r) \/ Close(r)
      PROVE  Bounded(b)'
  <2>1. \/ pc' = [pc EXCEPT ![r] = "idle"]
        \/ pc' = [pc EXCEPT ![r] = "blocking"]
    BY <1>3 DEF Refuse, Block, Blocked, Raise, Close, Suspend, Return, LogAndReturn
  <2>2. UNCHANGED <<spent, job>>
    BY <1>3 DEF Refuse, Block, Blocked, Raise, Close, budget
  <2>3. pc' = [pc EXCEPT ![r] = pc'[r]] /\ pc'[r] \notin {"alerting", "calling"}
    BY <2>1 DEF TypeOK
  <2>4. QED
    BY <1>2, <2>2, <2>3
<1>4. ASSUME NEW r \in Requests, NEW in \in Inputs, Arrive(r, in) PROVE Bounded(b)'
  <2>1. /\ pc' = [pc EXCEPT ![r] = "reading"] /\ UNCHANGED spent
        /\ \A q \in Requests \ {r} : job'[q] = job[q]
    BY <1>4 DEF Arrive, TypeOK, budget
  <2>2. spent[b] \in Nat /\ InFlight(b)' \subseteq InFlight(b)
    BY <1>0, <2>1 DEF TypeOK
  <2>3. QED
    BY <1>1, <2>1, <2>2
\* ... or it is admitted, which takes a budget that is not exhausted.
<1>5. ASSUME NEW r \in Requests, Admitted(r), UNCHANGED spent,
             Primary(job'[r]) = Primary(job[r]),
             \A q \in Requests \ {r} : pc'[q] = pc[q] /\ job'[q] = job[q]
      PROVE  Bounded(b)'
  <2>1. CASE Primary(job[r]) = b
    BY <1>5, <2>1, BoundAdmitted DEF Admitted
  <2>2. CASE Primary(job[r]) # b
    <3>1. spent[b] \in Nat /\ InFlight(b)' \subseteq InFlight(b)
      BY <1>0, <1>5, <2>2 DEF TypeOK
    <3>2. QED
      BY <1>1, <1>5, <3>1
  <2>3. QED
    BY <2>1, <2>2
<1>6. ASSUME NEW r \in Requests, Hold(r) PROVE Bounded(b)'
  <2>1. job[r] \in JobType
    BY <1>6 DEF Hold, Admitted, TypeOK
  <2>2. Primary(Scrubbed(policy, job[r])) = Primary(job[r])
    BY <2>1 DEF Scrubbed, Primary, JobType
  <2>3. /\ Admitted(r) /\ UNCHANGED spent /\ job'[r] = Scrubbed(policy, job[r])
        /\ \A q \in Requests \ {r} : pc'[q] = pc[q] /\ job'[q] = job[q]
    BY <1>6 DEF Hold, Suspend, TypeOK, budget
  <2>4. QED
    BY <1>5, <2>2, <2>3
<1>7. ASSUME NEW r \in Requests, Forward(r)
      PROVE  /\ UNCHANGED <<spent, job>>
             /\ pc' = [pc EXCEPT ![r] = pc'[r]]
             /\ \A q \in Requests \ {r} : pc'[q] = pc[q]
  <2>1. UNCHANGED <<spent, job>>
    BY <1>7 DEF Forward, LogAndReturn, Return, Suspend, budget
  <2>2. pc' = [pc EXCEPT ![r] = "idle"] \/ \E s \in {"connecting", "calling"} : pc' = [pc EXCEPT ![r] = s]
    BY <1>7 DEF Forward, LogAndReturn, Return, Suspend
  <2>3. QED
    BY <2>1, <2>2 DEF TypeOK
<1>8. ASSUME NEW r \in Requests, Pass(r) PROVE Bounded(b)'
  BY <1>5, <1>7, <1>8 DEF Pass
<1>9. ASSUME NEW r \in Requests, Alerted(r) PROVE Bounded(b)'
  BY <1>2, <1>7, <1>9 DEF Alerted
<1>10. ASSUME NEW r \in Requests, Fail(r) PROVE Bounded(b)'
  <2>1. UNCHANGED <<spent, job>> /\ (pc' = pc \/ pc' = [pc EXCEPT ![r] = "idle"])
    BY <1>10 DEF Fail, Return, budget
  <2>2. pc' = pc \/ (pc' = [pc EXCEPT ![r] = pc'[r]] /\ pc'[r] \notin {"alerting", "calling"})
    BY <2>1 DEF TypeOK
  <2>3. QED
    BY <1>2, <2>1, <2>2
<1>11. ASSUME NEW r \in Requests, NEW rep \in Replies, FallBack(r, rep) PROVE Bounded(b)'
  BY <1>2, <1>11 DEF FallBack, budget
<1>12. ASSUME NEW r \in Requests, NEW rep \in Replies, Open(r, rep) PROVE Bounded(b)'
  <2>1. UNCHANGED <<spent, job>> /\ pc' = [pc EXCEPT ![r] = pc'[r]] /\ pc'[r] = "streaming"
    BY <1>12 DEF Open, budget, TypeOK
  <2>2. QED
    BY <1>2, <2>1
<1>13. ASSUME NEW r \in Requests, NEW rep \in Replies, Finish(r, rep) PROVE Bounded(b)'
  <2> DEFINE s == LastCalled(r)
             c == Charge(s, rep)
  <2>1. pc[r] = "calling" /\ s \in Names /\ UNCHANGED job
    BY <1>13, LastCalledType DEF Finish
  <2>2. pc' = [pc EXCEPT ![r] = "idle"]
    BY <1>13 DEF Finish, LogAndReturn, Return
  <2>3. InFlight(b)' = InFlight(b) \ {r}
    BY <2>1, <2>2 DEF TypeOK
  <2>4. c \in 0 .. MaxCost
    BY ProxyAssumption DEF Charge, ReplyType
  <2>5. spent' = [spent EXCEPT ![s] = @ + c]
    BY <1>13 DEF Finish, Record
  <2>6. spent[b] \in Nat /\ spent \in [Names -> Nat]
    BY <1>0 DEF TypeOK
  <2> HIDE DEF c
  <2>7. CASE s = b
    <3>1. r \in InFlight(b)
      BY <2>1, <2>7, ChargedIsInFlight
    <3>2. spent'[b] = spent[b] + c
      BY <1>0, <2>5, <2>6, <2>7
    <3>3. QED
      BY <1>0, <2>3, <2>4, <3>1, <3>2, BoundCharged
  <2>8. CASE s # b
    <3>1. spent'[b] = spent[b]
      BY <1>0, <2>5, <2>6, <2>8
    <3>2. QED
      BY <1>1, <2>3, <2>6, <3>1
  <2>9. QED
    BY <2>7, <2>8
<1>14. CASE Restart
  <2>1. spent'[b] <= spent[b]
    BY <1>0, <1>14 DEF Restart, LedgerWithinSpent
  <2>2. InFlight(b)' = {}
    BY <1>14 DEF Restart
  <2>3. QED
    BY <1>1, <2>1, <2>2
<1>15. CASE NewMonth
  <2>1. spent[b] \in Nat /\ spent'[b] = 0 /\ InFlight(b)' = InFlight(b)
    BY <1>0, <1>15 DEF NewMonth, slot, TypeOK
  <2>2. QED
    BY <1>1, <2>1
<1>16. CASE Expire \/ UNCHANGED vars
  <2>1. spent[b] \in Nat /\ spent'[b] = spent[b] /\ InFlight(b)' = InFlight(b)
    BY <1>0, <1>16 DEF Expire, vars, slot, budget, TypeOK
  <2>2. QED
    BY <1>1, <2>1
<1>17. ASSUME NEW modes \in Policies, NEW in \in Inputs, NEW rep \in Replies,
              StoreElsewhere(modes, in, rep)
       PROVE  Bounded(b)'
  <2>1. spent[b] \in Nat /\ spent'[b] = spent[b] /\ InFlight(b)' = InFlight(b)
    BY <1>0, <1>17, Elsewhere DEF slot, budget, TypeOK
  <2>2. QED
    BY <1>1, <2>1
<1>18. QED
  BY <1>3, <1>4, <1>6, <1>8, <1>9, <1>10, <1>11, <1>12, <1>13, <1>14, <1>15, <1>16, <1>17
     DEF Next, Handle, Resume
-----------------------------------------------------------------------------
\* Every step writes to the file at most what it adds in memory.
LEMMA LedgerStep ==
  TypeOK /\ CallsInOrder /\ LedgerWithinSpent /\ [Next]_vars => LedgerWithinSpent'
<1> SUFFICES ASSUME TypeOK, CallsInOrder, LedgerWithinSpent, [Next]_vars, NEW b \in Names
             PROVE  ledger'[b] <= spent'[b]
  BY DEF LedgerWithinSpent
<1>1. spent[b] \in Nat /\ ledger[b] \in Nat /\ ledger[b] <= spent[b]
  BY DEF TypeOK, LedgerWithinSpent
<1>2. CASE UNCHANGED budget
  BY <1>1, <1>2 DEF budget
<1>3. ASSUME NEW r \in Requests, NEW rep \in Replies, Finish(r, rep)
      PROVE  ledger'[b] <= spent'[b]
  <2> DEFINE s == LastCalled(r)
             c == Charge(s, rep)
  <2>1. s \in Names
    BY <1>3, LastCalledType DEF Finish
  <2>2. c \in Nat
    BY ProxyAssumption DEF Charge, ReplyType
  <2>3. spent \in [Names -> Nat] /\ ledger \in [Names -> Nat]
    BY DEF TypeOK
  <2>4. /\ spent' = [spent EXCEPT ![s] = @ + c]
        /\ ledger' = [ledger EXCEPT ![s] = @ + c] \/ ledger' = ledger
    BY <1>3 DEF Finish, Record
  <2> HIDE DEF s, c
  <2>5. spent'[b] = IF b = s THEN spent[b] + c ELSE spent[b]
    BY <2>1, <2>3, <2>4
  <2>6. ledger'[b] = ledger[b] \/ (b = s /\ ledger'[b] = ledger[b] + c)
    BY <2>1, <2>3, <2>4
  <2>7. QED
    BY <1>1, <2>2, <2>5, <2>6
<1>4. CASE Restart \/ NewMonth
  BY <1>1, <1>4 DEF Restart, NewMonth
<1>5. ASSUME NEW r \in Requests, Handle(r) \/ Blocked(r) \/ Alerted(r) \/ Fail(r) \/ Raise(r) \/ Close(r)
      PROVE  UNCHANGED budget
  BY <1>5 DEF Handle, Refuse, Block, Hold, Pass, Forward, Blocked, Alerted, Fail, Raise, Close
<1>6. ASSUME NEW r \in Requests,
             \/ \E in \in Inputs : Arrive(r, in)
             \/ \E rep \in Replies : FallBack(r, rep) \/ Open(r, rep)
      PROVE  UNCHANGED budget
  BY <1>6 DEF Arrive, FallBack, Open
<1>7. CASE Expire \/ UNCHANGED vars
  BY <1>7, <1>2 DEF Expire, vars
<1>8. ASSUME NEW modes \in Policies, NEW in \in Inputs, NEW rep \in Replies,
             StoreElsewhere(modes, in, rep)
      PROVE  UNCHANGED budget
  BY <1>8, Elsewhere
<1>9. QED
  BY <1>2, <1>3, <1>4, <1>5, <1>6, <1>7, <1>8 DEF Next, Resume

\* Nothing has been spent when the worker starts for the first time.
LEMMA InitReserved == Init => LedgerWithinSpent /\ Reserved
  BY CappedType DEF Init, LedgerWithinSpent, Reserved, Bounded, InFlight

(***************************************************************************)
(* What a restart finds in the file is never more than what was spent.     *)
(***************************************************************************)
THEOREM LedgerSafe == Spec => []LedgerWithinSpent
  BY Calls, InitReserved, LedgerStep, PTL DEF Spec

(***************************************************************************)
(* The overshoot of a budget: less than one response per slot, however the *)
(* awaits of the admitted requests are interleaved with restarts, months   *)
(* and each other.                                                         *)
(***************************************************************************)
THEOREM OvershootBounded == Spec => []BudgetOvershootBounded
<1>1. TypeOK /\ Reserved => BudgetOvershootBounded
  <2> SUFFICES ASSUME TypeOK, NEW b \in CappedAlone, Bounded(b), spent[b] # 0
               PROVE  spent[b] < Budget(b) + MaxCost * Cardinality(Requests)
    BY DEF Reserved, BudgetOvershootBounded
  <2> DEFINE n == Cardinality(InFlight(b))
             N == Cardinality(Requests)
  <2>1. Budget(b) \in Nat /\ spent[b] \in Nat
    BY CappedType DEF TypeOK
  <2>2. n \in Nat /\ N \in Nat
    BY InFlightFinite, FS_CardinalityType, ProxyAssumption
  <2>3. MaxCost * n \in Nat /\ MaxCost * N \in Nat
    BY <2>2, Times
  <2>4. spent[b] + MaxCost * n < Budget(b) + MaxCost * N
    BY DEF Bounded
  <2> HIDE DEF n, N
  <2>5. spent[b] < Budget(b) + MaxCost * N
    BY <2>1, <2>3, <2>4
  <2>6. QED
    BY <2>5 DEF N
<1>2. Spec => []Reserved
  BY Calls, LedgerSafe, InitReserved, ReservedStep, PTL DEF Spec
<1>3. QED
  BY <1>1, <1>2, Typing, PTL
-----------------------------------------------------------------------------

(***************************************************************************)
(* A prompt that the enforcement modes of this worker let through.         *)
(***************************************************************************)
Clean(p) ==
  /\ policy.pii \in {"redact", "block"} => p \notin PIIPrompts
  /\ policy.injection = "block" => p \notin InjectionPrompts

(***************************************************************************)
(* Both copies of the messages agree, what was sent is what the handler    *)
(* holds, and from the scan on it is clean: together with CallsInOrder,    *)
(* the reason why no detected prompt is forwarded and why an entry of the  *)
(* cache belongs to its key.                                               *)
(***************************************************************************)
Screened(r) ==
  /\ pc[r] # "idle" => job[r].body = job[r].prompt
  /\ pc[r] = "alerting" \/ sent[r] # <<>> => Clean(job[r].prompt)
  /\ \A i \in DOMAIN sent[r] : sent[r][i].saw = job[r].prompt

AllScreened == \A r \in Requests : Screened(r)
-----------------------------------------------------------------------------
\* A step of one slot leaves the other slots as they are.
LEMMA OthersKept ==
  ASSUME TypeOK, CallsInOrder, NEW r \in Requests,
         \/ \E in \in Inputs : Arrive(r, in)
         \/ Handle(r) \/ Resume(r) \/ Close(r)
  PROVE  /\ policy' = policy
         /\ \A q \in Requests \ {r} :
               /\ pc'[q] = pc[q] /\ job'[q] = job[q] /\ sent'[q] = sent[q]
               /\ reply'[q] = reply[q] /\ logged'[q] = logged[q]
<1> DEFINE Others ==
             \A q \in Requests \ {r} :
               /\ pc'[q] = pc[q] /\ job'[q] = job[q] /\ sent'[q] = sent[q]
               /\ reply'[q] = reply[q] /\ logged'[q] = logged[q]
<1> USE DEF TypeOK
<1>1. CASE \E in \in Inputs : Arrive(r, in)
  BY <1>1 DEF Arrive
<1>2. ASSUME NEW a, Return(r, a) \/ LogAndReturn(r, a), UNCHANGED <<policy, job, sent>>
      PROVE  policy' = policy /\ Others
  BY <1>2 DEF Return, LogAndReturn
<1>3. CASE Refuse(r) \/ Blocked(r) \/ Raise(r)
  BY <1>2, <1>3 DEF Refuse, Blocked, Raise
<1>4. ASSUME NEW rep \in Replies, Finish(r, rep)
      PROVE  policy' = policy /\ Others
  BY <1>2, <1>4 DEF Finish
<1>5. CASE Block(r) \/ Hold(r)
  BY <1>5 DEF Block, Hold, Suspend
<1>6. CASE Close(r)
  BY <1>6 DEF Close
<1>7. ASSUME NEW rep \in Replies, Open(r, rep)
      PROVE  policy' = policy /\ Others
  BY <1>7 DEF Open
<1>8. ASSUME CallNext(r)
      PROVE  \A q \in Requests \ {r} : sent'[q] = sent[q]
  BY <1>8 DEF CallNext
<1>9. CASE Fail(r)
  BY <1>2, <1>8, <1>9 DEF Fail
<1>10. ASSUME NEW rep \in Replies, FallBack(r, rep)
       PROVE  policy' = policy /\ Others
  BY <1>8, <1>10 DEF FallBack
<1>11. CASE Forward(r)
  <2>1. CASE Hit(job[r])
    BY <1>2, <1>11, <2>1 DEF Forward
  <2>2. CASE ~Hit(job[r])
    BY <1>8, <1>11, <2>2 DEF Forward, Suspend
  <2>3. QED
    BY <2>1, <2>2
<1>12. QED
  BY <1>1, <1>3, <1>4, <1>5, <1>6, <1>7, <1>9, <1>10, <1>11
     DEF Handle, Resume, Pass, Alerted

\* What the scan lets pass, as it came or redacted, is clean.
LEMMA HoldScreens ==
  ASSUME TypeOK, NEW j \in JobType, j.body = j.prompt, ~MustBlock(policy, j)
  PROVE  /\ Scrubbed(policy, j).body = Scrubbed(policy, j).prompt
         /\ Clean(Scrubbed(policy, j).prompt)
<1>1. policy.pii \in {"log", "redact", "block"}
  BY ModesType DEF PIIModes
<1>2. CASE j.prompt \in PIIPrompts /\ policy.pii = "redact"
  <2>1. j.prompt \in Prompts
    BY <1>2, ProxyAssumption
  <2>2. /\ Scrubbed(policy, j).prompt = Redacted[j.prompt]
        /\ Scrubbed(policy, j).body = Redacted[j.prompt]
    BY <1>2 DEF Scrubbed, JobType
  <2>3. QED
    BY <1>2, <2>1, <2>2, RedactionAssumption DEF MustBlock, Clean
<1>3. CASE ~(j.prompt \in PIIPrompts /\ policy.pii = "redact")
  BY <1>1, <1>3 DEF Scrubbed, MustBlock, Clean
<1>4. QED
  BY <1>2, <1>3

\* A call of a clean prompt shows the backend that prompt.
LEMMA CallScreened ==
  ASSUME TypeOK, AllScreened, NEW r \in Requests, pc[r] # "idle",
         HasNext(r), CallNext(r), Clean(job[r].prompt), UNCHANGED <<policy, job>>
  PROVE  Screened(r)'
<1>1. job[r] \in JobType /\ sent[r] \in Seq(CallType) /\ Len(sent[r]) \in Nat
  BY LenProperties DEF TypeOK
<1>2. PICK c \in CallType : /\ sent' = [sent EXCEPT ![r] = Append(sent[r], c)]
                            /\ c.saw \in {job[r].prompt, job[r].body}
  BY <1>1, CallNextProperties
<1>3. sent'[r] = Append(sent[r], c) /\ c.saw = job[r].prompt
  BY <1>2 DEF TypeOK, AllScreened, Screened
<1>4. \A i \in DOMAIN sent'[r] : sent'[r][i] = c \/ (i \in DOMAIN sent[r] /\ sent'[r][i] = sent[r][i])
  BY <1>1, <1>3, AppendProperties
<1>5. QED
  BY <1>3, <1>4 DEF AllScreened, Screened, Clean

\* Every step keeps it.
LEMMA ScreenedStep == TypeOK /\ CallsInOrder /\ AllScreened /\ [Next]_vars => AllScreened'
<1> SUFFICES ASSUME TypeOK, CallsInOrder, AllScreened, [Next]_vars PROVE AllScreened'
  OBVIOUS
<1> USE DEF AllScreened
<1>1. ASSUME NEW r \in Requests,
             \/ \E in \in Inputs : Arrive(r, in)
             \/ Handle(r) \/ Resume(r) \/ Close(r),
             Screened(r)'
      PROVE  AllScreened'
  BY <1>1, OthersKept DEF Screened, Clean
<1>2. ASSUME NEW r \in Requests, NEW in \in Inputs, Arrive(r, in) PROVE Screened(r)'
  <2>1. job'[r].body = job'[r].prompt /\ pc'[r] = "reading" /\ sent'[r] = <<>>
    BY <1>2 DEF Arrive, JobOf, TypeOK
  <2>2. QED
    BY <2>1 DEF Screened
\* A request that makes no call keeps what it holds.
<1>3. ASSUME NEW r \in Requests, pc[r] # "idle", pc'[r] # "alerting",
             UNCHANGED <<policy, job, sent>>
      PROVE  Screened(r)'
  BY <1>3 DEF Screened, Clean
<1>4. ASSUME NEW r \in Requests, NEW a, Return(r, a) \/ LogAndReturn(r, a)
      PROVE  pc'[r] = "idle"
  BY <1>4 DEF Return, LogAndReturn, TypeOK
<1>5. ASSUME NEW r \in Requests, Refuse(r) \/ Block(r) \/ Blocked(r) \/ Raise(r) \/ Close(r)
      PROVE  Screened(r)'
  <2>1. pc[r] # "idle" /\ UNCHANGED <<policy, job, sent>>
    BY <1>5 DEF Refuse, Block, Admitted, Blocked, Raise, Close
  <2>2. pc'[r] \in {"idle", "blocking"}
    BY <1>4, <1>5 DEF Refuse, Block, Suspend, Blocked, Raise, Close, TypeOK
  <2>3. QED
    BY <1>3, <2>1, <2>2
<1>6. ASSUME NEW r \in Requests, Hold(r) PROVE Screened(r)'
  <2>1. /\ job[r] \in JobType /\ job[r].body = job[r].prompt /\ sent[r] = <<>>
        /\ ~MustBlock(policy, job[r])
    BY <1>6 DEF Hold, Admitted, TypeOK, CallsInOrder, Screened
  <2>2. job'[r] = Scrubbed(policy, job[r]) /\ UNCHANGED <<policy, sent>>
    BY <1>6 DEF Hold, TypeOK
  <2>3. QED
    BY <2>1, <2>2, HoldScreens DEF Screened, Clean
<1>7. ASSUME NEW r \in Requests, pc[r] \in {"reading", "alerting"}, Forward(r), Clean(job[r].prompt)
      PROVE  Screened(r)'
  <2>1. CASE Hit(job[r])
    BY <1>3, <1>4, <1>7, <2>1 DEF Forward
  <2>2. CASE ~Hit(job[r])
    BY <1>7, <2>2, CanCall, CallScreened DEF Forward
  <2>3. QED
    BY <2>1, <2>2
<1>8. ASSUME NEW r \in Requests, Pass(r) \/ Alerted(r) PROVE Screened(r)'
  <2>1. CASE Pass(r)
    BY <1>7, <2>1 DEF Pass, Admitted, Detected, Clean
  <2>2. CASE Alerted(r)
    BY <1>7, <2>2 DEF Alerted, Screened
  <2>3. QED
    BY <1>8, <2>1, <2>2
\* A call after the first is of the same prompt.
<1>9. ASSUME NEW r \in Requests, pc[r] \in {"calling", "connecting"}, HasNext(r), CallNext(r),
             UNCHANGED <<policy, job>>
      PROVE  Screened(r)'
  BY <1>9, CallScreened DEF CallsInOrder, Screened
<1>10. ASSUME NEW r \in Requests, Fail(r) PROVE Screened(r)'
  <2>1. CASE HasNext(r) /\ CallNext(r)
    BY <1>9, <1>10, <2>1 DEF Fail
  <2>2. CASE Return(r, Answer("gateway", 504, {})) /\ UNCHANGED sent
    BY <1>3, <1>4, <1>10, <2>2 DEF Fail
  <2>3. QED
    BY <1>10, <2>1, <2>2 DEF Fail
<1>11. ASSUME NEW r \in Requests, NEW rep \in Replies, Finish(r, rep) PROVE Screened(r)'
  BY <1>3, <1>4, <1>11 DEF Finish
<1>12. ASSUME NEW r \in Requests, NEW rep \in Replies, FallBack(r, rep) PROVE Screened(r)'
  BY <1>9, <1>12 DEF FallBack
<1>13. ASSUME NEW r \in Requests, NEW rep \in Replies, Open(r, rep) PROVE Screened(r)'
  BY <1>3, <1>13 DEF Open, TypeOK
<1>14. ASSUME NEW r \in Requests,
              \/ \E in \in Inputs : Arrive(r, in)
              \/ Handle(r) \/ Resume(r) \/ Close(r)
       PROVE  AllScreened'
  <2>1. Screened(r)'
    BY <1>2, <1>5, <1>6, <1>8, <1>10, <1>11, <1>12, <1>13, <1>14 DEF Handle, Resume
  <2>2. QED
    BY <1>1, <1>14, <2>1
<1>15. CASE Restart
  BY <1>15 DEF Restart, Screened
<1>16. CASE Expire \/ NewMonth \/ UNCHANGED vars
  BY <1>16 DEF Expire, NewMonth, vars, slot, Screened, Clean
<1>17. ASSUME NEW modes \in Policies, NEW in \in Inputs, NEW rep \in Replies,
              StoreElsewhere(modes, in, rep)
       PROVE  AllScreened'
  BY <1>17, Elsewhere DEF slot, Screened, Clean
<1>18. QED
  BY <1>14, <1>15, <1>16, <1>17 DEF Next

\* A worker starts with nothing to screen.
LEMMA Screening == Spec => []AllScreened
<1>1. Init => AllScreened
  BY DEF Init, AllScreened, Screened
<1>2. QED
  BY <1>1, Calls, ScreenedStep, PTL DEF Spec

(***************************************************************************)
(* No backend of any chain, translated or not, ever sees a prompt in which *)
(* the scanner found what the mode of this worker blocks or redacts.       *)
(***************************************************************************)
THEOREM DetectedNeverForwarded == Spec => []NoDetectedPromptForwarded
<1>1. TypeOK /\ AllScreened => NoDetectedPromptForwarded
  <2> SUFFICES ASSUME TypeOK, AllScreened, NEW r \in Requests, NEW i \in DOMAIN sent[r]
               PROVE  Clean(sent[r][i].saw)
    BY DEF NoDetectedPromptForwarded, Clean
  <2>1. sent[r] # <<>>
    BY EmptySeq, LenProperties DEF TypeOK
  <2>2. QED
    BY <2>1 DEF AllScreened, Screened
<1>2. QED
  BY <1>1, Typing, Screening, PTL
-----------------------------------------------------------------------------
(***************************************************************************)
(* What the cache holds is sound, and redacted if the worker that stored   *)
(* it redacts.  A cache in memory has no other worker's entries: the modes *)
(* change only with a restart, which empties it.                           *)
(***************************************************************************)
Sound(k, e) ==
  /\ e.status = 200
  /\ e.saw = k[2]
  /\ \E i \in DOMAIN Chain[Resolve[k[1]]] : e.by = Chain[Resolve[k[1]]][i]
  /\ e.under = "redact" => "first" \notin e.pii
  /\ ~CacheShared => e.under = policy.pii

CacheRedacted == \A k \in CacheKeys : cache[k] # NoEntry => Sound(k, cache[k])

\* A response that is stored belongs to the key it is stored under, whoever stores it.
LEMMA EntrySound ==
  ASSUME NEW modes \in PolicyType, NEW j, NEW c, NEW rep \in Replies, rep.status = 200,
         c.saw = j.prompt,
         \E i \in DOMAIN Chain[Primary(j)] : c.to = Chain[Primary(j)][i],
         CacheShared \/ modes = policy
  PROVE  Sound(CacheKey(j), Entry(modes, c, rep))
<1> DEFINE e == Entry(modes, c, rep)
<1>1. e.status = 200 /\ e.saw = CacheKey(j)[2]
  BY DEF Entry, CacheKey
<1>2. \E i \in DOMAIN Chain[Resolve[CacheKey(j)[1]]] : e.by = Chain[Resolve[CacheKey(j)[1]]][i]
  BY DEF Entry, CacheKey, Primary
<1>3. e.under = "redact" => "first" \notin e.pii
  BY DEF Entry, Delivered
<1>4. ~CacheShared => e.under = policy.pii
  BY DEF Entry
<1>5. QED
  BY <1>1, <1>2, <1>3, <1>4 DEF Sound

\* So the cache stays sound, whichever worker stores.
LEMMA StoreSound ==
  ASSUME TypeOK, CacheRedacted, policy' = policy,
         NEW modes \in PolicyType, NEW j \in JobType, NEW c \in CallType, NEW rep \in Replies,
         Store(modes, j, c, rep),
         c.saw = j.prompt,
         \E i \in DOMAIN Chain[Primary(j)] : c.to = Chain[Primary(j)][i],
         CacheShared \/ modes = policy
  PROVE  CacheRedacted'
<1>1. CASE cache' = cache
  BY <1>1 DEF CacheRedacted, Sound
<1>2. CASE /\ Storable(j, rep)
           /\ \A x \in CacheKeys :
                 \/ cache'[x] = NoEntry
                 \/ cache'[x] = IF x = CacheKey(j) THEN Entry(modes, c, rep) ELSE cache[x]
  <2> DEFINE k == CacheKey(j)
             e == Entry(modes, c, rep)
  <2>1. Sound(k, e)
    BY <1>2, EntrySound DEF Storable
  <2> HIDE DEF k, e
  <2>2. \A x \in CacheKeys : cache'[x] = NoEntry \/ cache'[x] = IF x = k THEN e ELSE cache[x]
    BY <1>2 DEF k, e
  <2>3. QED
    BY <2>1, <2>2 DEF CacheRedacted, Sound
<1>3. QED
  BY <1>1, <1>2, StoreType

\* The last call of a handler was made for its prompt, to a backend of its chain.
LEMMA LastCallSound ==
  ASSUME TypeOK, CallsInOrder, AllScreened, NEW r \in Requests, pc[r] = "calling"
  PROVE  /\ LastCall(r).saw = job[r].prompt
         /\ \E i \in DOMAIN Chain[Primary(job[r])] : LastCall(r).to = Chain[Primary(job[r])][i]
<1> DEFINE n == Len(sent[r])
           chain == Chain[Primary(job[r])]
<1>1. job[r] \in JobType /\ n \in Nat \ {0} /\ sent[r] \in Seq(CallType)
  BY LastCalledType DEF TypeOK
<1>2. Prefix(sent[r], chain) /\ chain \in Seq(Names)
  BY <1>1, PrimaryType, ChainType DEF CallsInOrder
<1>3. n \in DOMAIN sent[r] /\ n \in DOMAIN chain /\ sent[r][n].to = chain[n]
  BY <1>1, <1>2, LenProperties DEF Prefix
<1>4. sent[r][n].saw = job[r].prompt
  BY <1>3 DEF AllScreened, Screened
<1>5. QED
  BY <1>3, <1>4 DEF LastCall

\* Every step keeps the cache sound.
LEMMA CacheStep ==
  TypeOK /\ CallsInOrder /\ AllScreened /\ CacheRedacted /\ [Next]_vars => CacheRedacted'
<1> SUFFICES ASSUME TypeOK, CallsInOrder, AllScreened, CacheRedacted, [Next]_vars
             PROVE  CacheRedacted'
  OBVIOUS
<1>1. cache \in [CacheKeys -> CacheEntries \cup {NoEntry}]
  BY DEF TypeOK
<1>2. CASE policy' = policy /\ cache' = cache
  BY <1>2 DEF CacheRedacted, Sound
<1>3. ASSUME NEW r \in Requests,
             \/ \E in \in Inputs : Arrive(r, in)
             \/ Handle(r) \/ Blocked(r) \/ Alerted(r) \/ Fail(r) \/ Raise(r) \/ Close(r)
             \/ \E rep \in Replies : FallBack(r, rep) \/ Open(r, rep)
      PROVE  policy' = policy /\ cache' = cache
  BY <1>3 DEF Arrive, Handle, Refuse, Block, Hold, Pass, Forward, Blocked, Alerted, Fail, Raise,
              Close, FallBack, Open
<1>4. ASSUME NEW r \in Requests, NEW rep \in Replies, Finish(r, rep) PROVE CacheRedacted'
  <2>1. pc[r] = "calling" /\ job[r] \in JobType /\ policy' = policy
    BY <1>4 DEF Finish, TypeOK
  <2>2. CASE cache' = cache
    BY <1>2, <2>1, <2>2
  <2>3. CASE Store(policy, job[r], LastCall(r), rep)
    <3>1. policy \in PolicyType /\ LastCall(r) \in CallType
      BY <2>1, ModesType, LastCalledType
    <3>2. /\ LastCall(r).saw = job[r].prompt
          /\ \E i \in DOMAIN Chain[Primary(job[r])] : LastCall(r).to = Chain[Primary(job[r])][i]
      BY <2>1, LastCallSound
    <3>3. QED
      BY <2>1, <2>3, <3>1, <3>2, StoreSound
  <2>4. QED
    BY <1>4, <2>2, <2>3 DEF Finish
<1>5. CASE Expire
  <2>1. policy' = policy /\ Cache!Drop
    BY <1>5 DEF Expire
  <2>2. \A x \in CacheKeys : cache'[x] = NoEntry \/ cache'[x] = cache[x]
    BY <1>1, <2>1, DropType
  <2>3. QED
    BY <2>1, <2>2 DEF CacheRedacted, Sound
<1>6. CASE Restart
  BY <1>6 DEF Restart, CacheAtStart, CacheRedacted, Sound
<1>7. CASE NewMonth \/ UNCHANGED vars
  BY <1>2, <1>7 DEF NewMonth, vars
<1>8. ASSUME NEW modes \in Policies, NEW in \in Inputs, NEW rep \in Replies,
             StoreElsewhere(modes, in, rep)
      PROVE  CacheRedacted'
  <2>1. modes \in PolicyType
    BY ProxyAssumption
  <2>2. CacheShared /\ policy' = policy
    BY <1>8, Elsewhere
  <2>3. PICK j \in JobType, c \in CallType :
           /\ Store(modes, j, c, rep)
           /\ c.saw = j.prompt
           /\ \E i \in DOMAIN Chain[Primary(j)] : c.to = Chain[Primary(j)][i]
    BY <1>8, Elsewhere
  <2>4. QED
    BY <2>1, <2>2, <2>3, StoreSound
<1>9. QED
  BY <1>2, <1>3, <1>4, <1>5, <1>6, <1>7, <1>8 DEF Next, Resume

\* The cache is empty when a worker starts.
LEMMA Caching == Spec => []CacheRedacted
<1>1. Init => CacheRedacted
  BY DEF Init, CacheRedacted
<1>2. QED
  BY <1>1, Calls, Screening, CacheStep, PTL DEF Spec

(***************************************************************************)
(* An entry of the cache is a success that a backend of the model's chain  *)
(* gave for the very prompt of its key.                                    *)
(***************************************************************************)
THEOREM CacheAlwaysSound == Spec => []CacheSound
<1>1. CacheRedacted => CacheSound
  BY DEF CacheRedacted, CacheSound, Sound
<1>2. QED
  BY <1>1, Caching, PTL
-----------------------------------------------------------------------------
(***************************************************************************)
(* What a client has been answered, how redacted, and with which entry in  *)
(* the log, at each await of its handler.  What comes from a backend has   *)
(* been redacted by this worker; what comes from the cache, by the one     *)
(* that stored it, which is this one or its like if the cache is its own.  *)
(***************************************************************************)
CleanAnswer(a) ==
  /\ a.kind = "buffered" /\ policy.pii = "redact" => "first" \notin a.pii
  /\ a.kind = "cached" /\ a.under = "redact" => "first" \notin a.pii
  /\ a.kind = "cached" /\ ~CacheShared => a.under = policy.pii

LoggedAnswers == {"blocked", "cached", "buffered"}

Answered(r) ==
  /\ pc[r] \notin {"idle", "streaming"} => reply[r].kind = "none"
  /\ pc[r] = "streaming" => reply[r].kind = "stream"
  /\ CleanAnswer(reply[r])
  /\ reply[r].kind \in LoggedAnswers => logged[r] = 1
  /\ reply[r].kind = "stream" /\ pc[r] = "idle" => logged[r] \in {0, 1}
  /\ reply[r].kind \notin LoggedAnswers /\ ~(reply[r].kind = "stream" /\ pc[r] = "idle")
        => logged[r] = 0

AllAnswered == \A r \in Requests : Answered(r)

\* A handler that has not answered yet has neither a reply nor a log entry.
LEMMA Unanswered ==
  ASSUME AllAnswered, NEW r \in Requests, pc[r] \notin {"idle", "streaming"}
  PROVE  reply[r].kind = "none" /\ logged[r] = 0
  BY DEF AllAnswered, Answered, LoggedAnswers

\* An answer that is never logged...
LEMMA ReturnAnswered ==
  ASSUME TypeOK, AllAnswered, NEW r \in Requests, pc[r] \notin {"idle", "streaming"}, NEW a,
         a.kind \in {"refused", "gateway", "internal"}, Return(r, a)
  PROVE  Answered(r)'
<1>1. pc'[r] = "idle" /\ reply'[r] = a /\ logged'[r] = 0
  BY Unanswered DEF Return, TypeOK
<1>2. QED
  BY <1>1 DEF Answered, LoggedAnswers, CleanAnswer

\* ... and one that is, unless the log cannot be written.
LEMMA LogAnswered ==
  ASSUME TypeOK, AllAnswered, NEW r \in Requests, pc[r] \notin {"idle", "streaming"}, NEW a,
         a.kind \in LoggedAnswers, UNCHANGED policy, CleanAnswer(a),
         LogAndReturn(r, a)
  PROVE  Answered(r)'
<1>1. CASE Return(r, Answer("internal", 500, {}))
  BY <1>1, ReturnAnswered DEF Answer
<1>2. CASE /\ pc' = [pc EXCEPT ![r] = "idle"]
           /\ reply' = [reply EXCEPT ![r] = a]
           /\ logged' = [logged EXCEPT ![r] = @ + 1]
  <2>1. pc'[r] = "idle" /\ reply'[r] = a /\ logged'[r] = 1
    BY <1>2, Unanswered DEF TypeOK
  <2>2. QED
    BY <2>1 DEF Answered, LoggedAnswers, CleanAnswer
<1>3. QED
  BY <1>1, <1>2 DEF LogAndReturn

\* Every step keeps it.
LEMMA AnsweredStep ==
  TypeOK /\ CallsInOrder /\ CacheRedacted /\ AllAnswered /\ [Next]_vars => AllAnswered'
<1> SUFFICES ASSUME TypeOK, CallsInOrder, CacheRedacted, AllAnswered, [Next]_vars
             PROVE  AllAnswered'
  OBVIOUS
<1>1. ASSUME NEW r \in Requests,
             \/ \E in \in Inputs : Arrive(r, in)
             \/ Handle(r) \/ Resume(r) \/ Close(r),
             Answered(r)'
      PROVE  AllAnswered'
  BY <1>1, OthersKept DEF AllAnswered, Answered, LoggedAnswers, CleanAnswer
<1>2. ASSUME NEW r \in Requests, NEW in \in Inputs, Arrive(r, in) PROVE Answered(r)'
  <2>1. pc'[r] = "reading" /\ reply'[r].kind = "none" /\ logged'[r] = 0
    BY <1>2 DEF Arrive, NoReply, TypeOK
  <2>2. QED
    BY <2>1 DEF Answered, LoggedAnswers, CleanAnswer
\* A request that goes on has still no answer.
<1>3. ASSUME NEW r \in Requests, pc[r] \notin {"idle", "streaming"}, UNCHANGED <<reply, logged>>,
             pc'[r] \in {"blocking", "alerting", "calling", "connecting"}
      PROVE  Answered(r)'
  BY <1>3, Unanswered DEF Answered, LoggedAnswers, CleanAnswer
<1>4. ASSUME NEW r \in Requests, Refuse(r) \/ Raise(r) PROVE Answered(r)'
  BY <1>4, ReturnAnswered DEF Refuse, Raise, Answer
<1>5. ASSUME NEW r \in Requests, Block(r) \/ Hold(r) PROVE Answered(r)'
  <2>1. pc[r] = "reading" /\ UNCHANGED <<reply, logged>> /\ pc'[r] \in {"blocking", "alerting"}
    BY <1>5 DEF Block, Hold, Admitted, Suspend, TypeOK
  <2>2. QED
    BY <1>3, <2>1
<1>6. ASSUME NEW r \in Requests, Blocked(r) PROVE Answered(r)'
  <2> DEFINE a == Answer("blocked", 403, {})
  <2>1. a.kind = "blocked" /\ CleanAnswer(a)
    BY DEF Answer, CleanAnswer
  <2>2. pc[r] = "blocking" /\ LogAndReturn(r, a) /\ UNCHANGED policy
    BY <1>6 DEF Blocked
  <2> HIDE DEF a
  <2>3. QED
    BY <2>1, <2>2, LogAnswered DEF LoggedAnswers
<1>7. ASSUME NEW r \in Requests, pc[r] \in {"reading", "alerting"}, Forward(r) PROVE Answered(r)'
  <2>1. CASE Hit(job[r])
    <3> DEFINE k == CacheKey(job[r])
               a == CachedAnswer(cache[k])
    <3>1. job[r] \in JobType
      BY <1>7 DEF TypeOK
    <3>2. k \in CacheKeys /\ cache[k] # NoEntry
      BY <2>1, <3>1 DEF Hit, Cacheable, CacheKey, CacheKeys, JobType, ModelFields, PromptValues
    <3>3. Sound(k, cache[k])
      BY <3>2 DEF CacheRedacted
    <3> HIDE DEF k
    <3>4. a.kind = "cached" /\ CleanAnswer(a)
      BY <3>3 DEF CachedAnswer, CleanAnswer, Sound
    <3>5. LogAndReturn(r, a) /\ UNCHANGED policy
      BY <1>7, <2>1 DEF Forward, k
    <3> HIDE DEF a
    <3>6. QED
      BY <1>7, <3>4, <3>5, LogAnswered DEF LoggedAnswers
  <2>2. CASE ~Hit(job[r])
    <3>1. UNCHANGED <<reply, logged>> /\ pc'[r] \in {"calling", "connecting"}
      BY <2>2, <1>7 DEF Forward, Suspend, TypeOK
    <3>2. QED
      BY <1>3, <1>7, <3>1
  <2>3. QED
    BY <2>1, <2>2
<1>8. ASSUME NEW r \in Requests, Pass(r) \/ Alerted(r) PROVE Answered(r)'
  BY <1>7, <1>8 DEF Pass, Alerted, Admitted
<1>9. ASSUME NEW r \in Requests, Fail(r) PROVE Answered(r)'
  <2>1. CASE UNCHANGED <<pc, reply, logged>>
    BY <1>3, <1>9, <2>1 DEF Fail
  <2>2. CASE Return(r, Answer("gateway", 504, {}))
    BY <1>9, <2>2, ReturnAnswered DEF Fail, Answer
  <2>3. QED
    BY <1>9, <2>1, <2>2 DEF Fail
<1>10. ASSUME NEW r \in Requests, NEW rep \in Replies, Finish(r, rep) PROVE Answered(r)'
  <2> DEFINE a == Answer("buffered", rep.status, Delivered(policy, rep))
  <2>1. a.kind = "buffered" /\ CleanAnswer(a)
    BY DEF Answer, Delivered, CleanAnswer
  <2>2. pc[r] = "calling" /\ LogAndReturn(r, a) /\ UNCHANGED policy
    BY <1>10 DEF Finish
  <2> HIDE DEF a
  <2>3. QED
    BY <2>1, <2>2, LogAnswered DEF LoggedAnswers
<1>11. ASSUME NEW r \in Requests, NEW rep \in Replies, FallBack(r, rep) PROVE Answered(r)'
  BY <1>3, <1>11 DEF FallBack
<1>12. ASSUME NEW r \in Requests, NEW rep \in Replies, Open(r, rep) PROVE Answered(r)'
  <2>1. pc'[r] = "streaming" /\ reply'[r].kind = "stream" /\ logged'[r] = 0
    BY <1>12, Unanswered DEF Open, Answer, TypeOK
  <2>2. QED
    BY <2>1 DEF Answered, LoggedAnswers, CleanAnswer
<1>13. ASSUME NEW r \in Requests, Close(r) PROVE Answered(r)'
  <2>1. reply[r].kind = "stream" /\ logged[r] = 0
    BY <1>13 DEF Close, AllAnswered, Answered, LoggedAnswers
  <2>2. pc'[r] = "idle" /\ reply'[r] = reply[r] /\ logged'[r] \in {0, 1}
    BY <1>13, <2>1 DEF Close, TypeOK
  <2>3. QED
    BY <2>1, <2>2 DEF Answered, LoggedAnswers, CleanAnswer
<1>14. ASSUME NEW r \in Requests,
              \/ \E in \in Inputs : Arrive(r, in)
              \/ Handle(r) \/ Resume(r) \/ Close(r)
       PROVE  AllAnswered'
  <2>1. Answered(r)'
    BY <1>2, <1>4, <1>5, <1>6, <1>8, <1>9, <1>10, <1>11, <1>12, <1>13, <1>14 DEF Handle, Resume
  <2>2. QED
    BY <1>1, <1>14, <2>1
<1>15. CASE Restart
  BY <1>15 DEF Restart, AllAnswered, Answered, LoggedAnswers, NoReply, CleanAnswer
<1>16. CASE Expire \/ NewMonth \/ UNCHANGED vars
  BY <1>16 DEF Expire, NewMonth, vars, slot, AllAnswered, Answered, LoggedAnswers, CleanAnswer
<1>17. ASSUME NEW modes \in Policies, NEW in \in Inputs, NEW rep \in Replies,
              StoreElsewhere(modes, in, rep)
       PROVE  AllAnswered'
  <2>1. policy' = policy /\ pc' = pc /\ reply' = reply /\ logged' = logged
    BY <1>17, Elsewhere DEF slot
  <2>2. QED
    BY <2>1 DEF AllAnswered, Answered, LoggedAnswers, CleanAnswer
<1>18. QED
  BY <1>14, <1>15, <1>16, <1>17 DEF Next

\* A free slot has no answer and no entry.
LEMMA Answering == Spec => []AllAnswered
<1>1. Init => AllAnswered
  BY DEF Init, AllAnswered, Answered, LoggedAnswers, NoReply, CleanAnswer
<1>2. QED
  BY <1>1, Calls, Caching, AnsweredStep, PTL DEF Spec

(***************************************************************************)
(* In redact mode no answer has PII in its first choice, if it comes from  *)
(* a backend, from a cache in memory, or from a shared cache where a       *)
(* worker in redact mode had stored it.  The exception is what another     *)
(* mode stored in a shared cache: a hit is not scanned again.              *)
(***************************************************************************)
THEOREM AnswersAlwaysRedacted == Spec => []AnswersRedacted
<1>1. AllAnswered => AnswersRedacted
  BY DEF AllAnswered, Answered, AnswersRedacted, CleanAnswer
<1>2. QED
  BY <1>1, Answering, PTL

(***************************************************************************)
(* However many backends were tried, a request that was blocked, or        *)
(* answered by a backend or the cache, has one log entry, a stream at most *)
(* one.  A request in its handler has none, and neither has one that was   *)
(* refused or failed.                                                      *)
(***************************************************************************)
THEOREM AlwaysLoggedOnce == Spec => []LoggedOnce
<1>1. AllAnswered => LoggedOnce
  BY DEF AllAnswered, Answered, LoggedAnswers, LoggedOnce
<1>2. QED
  BY <1>1, Answering, PTL
-----------------------------------------------------------------------------
(***************************************************************************)
(* Money is spent only in the step that answers a request, on the backend  *)
(* that was called last, no more than the response costs, and with a log   *)
(* entry or a 500.  A restart spends nothing: the file has at most what    *)
(* memory had.                                                             *)
(***************************************************************************)
Charged ==
  \A b \in Names : spent'[b] > spent[b] =>
      \E r \in Requests :
          /\ pc[r] = "calling" /\ pc'[r] = "idle"
          /\ LastCalled(r) = b
          /\ spent'[b] - spent[b] <= MaxCost
          /\ logged'[r] = 1 \/ reply'[r].kind = "internal"

LEMMA ChargedStep ==
  TypeOK /\ CallsInOrder /\ LedgerWithinSpent /\ AllAnswered /\ [Next]_vars => Charged
<1> SUFFICES ASSUME TypeOK, CallsInOrder, LedgerWithinSpent, AllAnswered, [Next]_vars,
                    NEW b \in Names, spent'[b] > spent[b]
             PROVE  \E r \in Requests :
                        /\ pc[r] = "calling" /\ pc'[r] = "idle"
                        /\ LastCalled(r) = b
                        /\ spent'[b] - spent[b] <= MaxCost
                        /\ logged'[r] = 1 \/ reply'[r].kind = "internal"
  BY DEF Charged
<1>1. spent[b] \in Nat /\ ledger[b] \in Nat /\ ledger[b] <= spent[b]
  BY DEF TypeOK, LedgerWithinSpent
<1>2. spent' # spent
  BY <1>1
<1>3. ~Restart /\ ~NewMonth
  BY <1>1 DEF Restart, NewMonth
<1>4. PICK r \in Requests, rep \in Replies : Finish(r, rep)
  <2>1. \A modes \in Policies, in \in Inputs, rep \in Replies : ~StoreElsewhere(modes, in, rep)
    BY <1>2, Elsewhere DEF budget
  <2>2. QED
    BY <1>2, <1>3, <2>1 DEF Next, Handle, Resume, Arrive, Refuse, Block, Hold, Pass, Forward,
                           Blocked, Alerted, Fail, Raise, Close, FallBack, Open, Expire, vars, budget
<1> DEFINE s == LastCalled(r)
           c == Charge(s, rep)
<1>5. pc[r] = "calling" /\ s \in Names
  BY <1>4, LastCalledType DEF Finish
<1>6. pc'[r] = "idle"
  BY <1>4 DEF Finish, LogAndReturn, Return, TypeOK
<1>7. c \in 0 .. MaxCost /\ MaxCost \in Nat
  BY ProxyAssumption DEF Charge, ReplyType
<1>8. spent' = [spent EXCEPT ![s] = @ + c] /\ spent \in [Names -> Nat]
  BY <1>4 DEF Finish, Record, TypeOK
<1> HIDE DEF c
<1>9. s = b /\ spent'[b] = spent[b] + c
  BY <1>1, <1>5, <1>8
<1>10. spent'[b] - spent[b] <= MaxCost
  BY <1>1, <1>7, <1>9
<1>11. logged'[r] = 1 \/ reply'[r].kind = "internal"
  <2>1. logged[r] = 0
    BY <1>5, Unanswered
  <2>2. QED
    BY <1>4, <2>1 DEF Finish, LogAndReturn, Return, Answer, TypeOK
<1>12. QED
  BY <1>5, <1>6, <1>9, <1>10, <1>11

(***************************************************************************)
(* Every charge is made in the step of Finish that answers a request, to   *)
(* the backend called last, is of one answer at most, and is in the        *)
(* request log unless the client gets a 500.                               *)
(***************************************************************************)
THEOREM ChargedWithAnswer == Spec => ChargedOncePerAnswer
<1>1. TypeOK /\ CallsInOrder /\ LedgerWithinSpent /\ AllAnswered /\ [Next]_vars => [Charged]_vars
  BY ChargedStep
<1>2. Spec => [][Charged]_vars
  BY <1>1, Calls, LedgerSafe, Answering, PTL DEF Spec
<1>3. QED
  BY <1>2, PTL DEF ChargedOncePerAnswer, Charged
=============================================================================
