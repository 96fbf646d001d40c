------------------------------- MODULE Proxy -------------------------------
(***************************************************************************)
(* proxy/main.py: the handler of one worker, from the request body to the  *)
(* answer, with the shared state it works on: the response cache, the      *)
(* spend tracker and its file.  With Redis the cache is also that of other *)
(* workers, which may have been started with other modes; what they do to  *)
(* it is an action of its own.                                             *)
(*                                                                         *)
(* The worker is a single event loop, so a handler runs without            *)
(* interruption between two awaits.  An action is one such stretch: it     *)
(* ends where the handler awaits an alert webhook, a backend, or the next  *)
(* chunk of a stream, or where it returns.  "pc" says which await a        *)
(* request is in.  A member of Requests is a slot for one request at a     *)
(* time, so their number bounds the concurrency.                           *)
(***************************************************************************)
EXTENDS Backends

CONSTANTS
    Requests,           \* slots for concurrent requests
    Tenants,
    MayUse,             \* tenants.json: per tenant, the allowed backends and models
    Prompts,            \* contents of the "messages" field
    NoPrompt,           \* a body without messages
    PIIPrompts,         \* the prompts in which the scanner finds PII
    InjectionPrompts,   \* the prompts in which it finds an injection
    Redacted,           \* redact_messages
    Translated,         \* TRANSLATABLE_BACKENDS
    Inputs,             \* the requests clients may send
    Replies,            \* the responses backends may give
    MaxCost,            \* the highest cost of one response
    Policies,           \* values of SECURITY_PII_MODE and SECURITY_INJECTION_MODE
    CacheShared,        \* REDIS_URL is set, and Redis answered when the worker started
    ClientKey,          \* the authorization header the client sent
    NoJob, NoEntry,
    MaxArrivals, MaxRestarts, MaxMonths     \* bounds of the model

PromptValues == Prompts \cup {NoPrompt}

InputType ==
    [tenant : Tenants, model : ModelFields, prompt : PromptValues,
     stream : BOOLEAN, sampled : BOOLEAN]

\* "pii": where the response holds PII, in the text of its first choice or elsewhere.
Places == {"first", "elsewhere"}
ReplyType ==
    [status : 100 .. 599, json : BOOLEAN, cost : 0 .. MaxCost, pii : SUBSET Places]

PIIModes == {"log", "redact", "block"}
PolicyType == [pii : PIIModes, injection : {"log", "block"}]

(***************************************************************************)
(* A cached response: "by" and "saw" record the backend that gave it and   *)
(* the prompt it was given, "under" the mode of the worker that stored it. *)
(***************************************************************************)
CacheKeys == (Models \cup {NullModel}) \X Prompts
CacheEntries ==
    [status : 100 .. 599, pii : SUBSET Places, by : Names, saw : PromptValues, under : PIIModes]

ASSUME ProxyAssumption ==
    /\ IsFiniteSet(Requests) /\ Requests # {}
    /\ MayUse \in [Tenants -> [backends : SUBSET Names, models : SUBSET Models]]
    /\ NoPrompt \notin Prompts
    /\ PIIPrompts \subseteq Prompts /\ InjectionPrompts \subseteq Prompts
    /\ Redacted \in [Prompts -> Prompts]
    /\ Translated \subseteq Names
    /\ Inputs \subseteq InputType
    /\ MaxCost \in Nat
    /\ Replies \subseteq ReplyType
    /\ \A rep \in Replies : "first" \in rep.pii => rep.json
    /\ Policies \subseteq PolicyType
    /\ CacheShared \in BOOLEAN
    /\ MaxArrivals \in Nat /\ MaxRestarts \in Nat /\ MaxMonths \in Nat

\* The scanner recognises nothing in what it has itself redacted.
ASSUME RedactionAssumption ==
    \A p \in Prompts :
        /\ Redacted[p] \notin PIIPrompts
        /\ Redacted[p] \in InjectionPrompts => p \in InjectionPrompts

ASSUME SentinelAssumption ==
    /\ ClientKey \notin Names
    /\ NoEntry \notin CacheEntries

(***************************************************************************)
(* What a handler holds of its request: "prompt" is the messages field of  *)
(* the parsed body, "body" the same field in the bytes it will forward.    *)
(***************************************************************************)
JobType ==
    [tenant : Tenants, model : ModelFields, prompt : PromptValues,
     body : PromptValues, stream : BOOLEAN, sampled : BOOLEAN]

VARIABLES
    policy,     \* the enforcement modes this worker was started with
    pc,         \* the await each request is suspended in
    job,        \* what its handler holds
    sent,       \* the calls it has made, each with the prompt and key the backend saw
    reply,      \* what the client got
    logged,     \* how many request log entries it has
    cache,      \* the response cache
    spent,      \* _monthly of the current month, in memory
    ledger,     \* this month's entries of spend.jsonl
    arrivals, restarts, months

slot == <<pc, job, sent, reply, logged>>
budget == <<spent, ledger>>
bounds == <<arrivals, restarts, months>>
vars == <<policy, slot, cache, budget, bounds>>

Cache == INSTANCE ResponseCache
             WITH Keys <- CacheKeys, Entries <- CacheEntries, store <- cache, answer <- NoEntry

\* "under": the mode of the worker that scanned the answer, another one's if it is cached.
Kinds == {"none", "refused", "blocked", "cached", "buffered", "stream", "gateway", "internal"}
AnswerType == [kind : Kinds, status : 100 .. 599, pii : SUBSET Places, under : PIIModes]
NoReply == [kind |-> "none", status |-> 100, pii |-> {}, under |-> "log"]

Answer(kind, status, pii) ==
    [kind |-> kind, status |-> status, pii |-> pii, under |-> policy.pii]
CachedAnswer(entry) ==
    [kind |-> "cached", status |-> entry.status, pii |-> entry.pii, under |-> entry.under]

States == {"idle", "reading", "blocking", "alerting", "calling", "connecting", "streaming"}
CallType == [to : Names, saw : PromptValues, key : Names \cup {ClientKey}]

TypeOK ==
    /\ policy \in Policies
    /\ pc \in [Requests -> States]
    /\ job \in [Requests -> JobType \cup {NoJob}]
    /\ \A r \in Requests : pc[r] # "idle" => job[r] \in JobType
    /\ sent \in [Requests -> Seq(CallType)]
    /\ reply \in [Requests -> AnswerType]
    /\ logged \in [Requests -> Nat]
    /\ cache \in [CacheKeys -> CacheEntries \cup {NoEntry}]
    /\ spent \in [Names -> Nat]
    /\ ledger \in [Names -> Nat]
    /\ arrivals \in 0 .. MaxArrivals
    /\ restarts \in 0 .. MaxRestarts
    /\ months \in 0 .. MaxMonths
-----------------------------------------------------------------------------
Init ==
    /\ policy \in Policies
    /\ pc = [r \in Requests |-> "idle"]
    /\ job = [r \in Requests |-> NoJob]
    /\ sent = [r \in Requests |-> <<>>]
    /\ reply = [r \in Requests |-> NoReply]
    /\ logged = [r \in Requests |-> 0]
    /\ cache = [k \in CacheKeys |-> NoEntry]
    /\ spent = [b \in Names |-> 0]
    /\ ledger = [b \in Names |-> 0]
    /\ arrivals = 0 /\ restarts = 0 /\ months = 0

(***************************************************************************)
(* The ways a stretch ends: at the next await, or with the answer.         *)
(***************************************************************************)
Suspend(r, state) ==
    /\ pc' = [pc EXCEPT ![r] = state]
    /\ UNCHANGED <<reply, logged>>

Return(r, answer) ==
    /\ pc' = [pc EXCEPT ![r] = "idle"]
    /\ reply' = [reply EXCEPT ![r] = answer]
    /\ UNCHANGED logged

\* log_request is the last call before a return, and raises when its file cannot be opened.
LogAndReturn(r, answer) ==
    \/ /\ pc' = [pc EXCEPT ![r] = "idle"]
       /\ reply' = [reply EXCEPT ![r] = answer]
       /\ logged' = [logged EXCEPT ![r] = @ + 1]
    \/ Return(r, Answer("internal", 500, {}))
-----------------------------------------------------------------------------
(***************************************************************************)
(* A request arrives in a free slot; its handler first awaits the body.    *)
(***************************************************************************)
JobOf(in) ==
    [tenant |-> in.tenant, model |-> in.model, prompt |-> in.prompt,
     body |-> in.prompt, stream |-> in.stream, sampled |-> in.sampled]

Arrive(r, in) ==
    /\ pc[r] = "idle" /\ arrivals < MaxArrivals
    /\ pc' = [pc EXCEPT ![r] = "reading"]
    /\ job' = [job EXCEPT ![r] = JobOf(in)]
    /\ sent' = [sent EXCEPT ![r] = <<>>]
    /\ reply' = [reply EXCEPT ![r] = NoReply]
    /\ logged' = [logged EXCEPT ![r] = 0]
    /\ arrivals' = arrivals + 1
    /\ UNCHANGED <<policy, cache, budget, restarts, months>>

Primary(j) == Resolve[j.model]

\* check_backend_allowed and check_model_allowed
Allowed(j) ==
    /\ Primary(j) \in MayUse[j.tenant].backends
    /\ j.model \in Models => j.model \in MayUse[j.tenant].models

\* Mutated form of OverBudget: the budget may be reached, not only approached.
OverBudgetStrictly(b) == Budget(b) # NoBudget /\ spent[b] > Budget(b)

\* check_budget
OverBudget(b) == Budget(b) # NoBudget /\ spent[b] >= Budget(b)

\* What follows from the modes is said of any worker's: "modes" is its policy.
MustBlock(modes, j) ==
    \/ j.prompt \in InjectionPrompts /\ modes.injection = "block"
    \/ j.prompt \in PIIPrompts /\ modes.pii = "block"

Detected(j) == j.prompt \in InjectionPrompts \cup PIIPrompts

\* Mutated form of Scrubbed: the bytes to forward are not encoded again.
ScrubbedParsedOnly(modes, j) ==
    IF j.prompt \in PIIPrompts /\ modes.pii = "redact"
    THEN [j EXCEPT !.prompt = Redacted[j.prompt]]
    ELSE j

\* Redact mode replaces the messages of the parsed body and encodes it again.
Scrubbed(modes, j) ==
    IF j.prompt \in PIIPrompts /\ modes.pii = "redact"
    THEN [j EXCEPT !.prompt = Redacted[j.prompt], !.body = Redacted[j.prompt]]
    ELSE j

\* A tenant or budget check fails: 403 or 402, without a log entry.
Refuse(r) ==
    /\ pc[r] = "reading"
    /\ ~Allowed(job[r]) \/ OverBudget(Primary(job[r]))
    /\ Return(r, Answer("refused", IF Allowed(job[r]) THEN 402 ELSE 403, {}))
    /\ UNCHANGED <<policy, job, sent, cache, budget, bounds>>

Admitted(r) ==
    pc[r] = "reading" /\ Allowed(job[r]) /\ ~OverBudget(Primary(job[r]))

\* The scanner found what the mode blocks: the alert is awaited before the 403.
Block(r) ==
    /\ Admitted(r) /\ MustBlock(policy, job[r])
    /\ Suspend(r, "blocking")
    /\ UNCHANGED <<policy, job, sent, cache, budget, bounds>>

Blocked(r) ==
    /\ pc[r] = "blocking"
    /\ LogAndReturn(r, Answer("blocked", 403, {}))
    /\ UNCHANGED <<policy, job, sent, cache, budget, bounds>>

\* The scanner found what the mode lets through: the alerts are awaited first.
Hold(r) ==
    /\ Admitted(r) /\ ~MustBlock(policy, job[r]) /\ Detected(job[r])
    /\ job' = [job EXCEPT ![r] = Scrubbed(policy, @)]
    /\ Suspend(r, "alerting")
    /\ UNCHANGED <<policy, sent, cache, budget, bounds>>
-----------------------------------------------------------------------------
(***************************************************************************)
(* Forwarding: the loop over backends_to_try.  A translated request is     *)
(* built from the parsed body, any other backend gets the bytes.  The key  *)
(* was injected into the headers once, for the primary backend.            *)
(***************************************************************************)
InjectedKey(j) == IF HasKey(Primary(j)) THEN Primary(j) ELSE ClientKey

CallTo(b, j) ==
    [to |-> b, saw |-> IF b \in Translated THEN j.prompt ELSE j.body, key |-> InjectedKey(j)]

\* Mutated form of HasNext: the loop stops one backend early.
HasNextButLast(r) == Len(sent[r]) < Len(Chain[Primary(job[r])]) - 1

HasNext(r) == Len(sent[r]) < Len(Chain[Primary(job[r])])
CallNext(r) ==
    LET next == Chain[Primary(job[r])][Len(sent[r]) + 1] IN
    sent' = [sent EXCEPT ![r] = Append(@, CallTo(next, job[r]))]

LastCall(r) == sent[r][Len(sent[r])]
LastCalled(r) == LastCall(r).to

\* is_cacheable: a field "model" that is null will do.
Cacheable(j) == ~j.stream /\ ~j.sampled /\ j.prompt # NoPrompt /\ j.model # NoModel
CacheKey(j) == <<j.model, j.prompt>>
Hit(j) == Cacheable(j) /\ cache[CacheKey(j)] # NoEntry

\* From the key injection to the return of a cached response, or to the first backend.
Forward(r) ==
    /\ \/ /\ Hit(job[r])
          /\ LogAndReturn(r, CachedAnswer(cache[CacheKey(job[r])]))
          /\ UNCHANGED sent
       \/ /\ ~Hit(job[r])
          /\ Suspend(r, IF job[r].stream THEN "connecting" ELSE "calling")
          /\ CallNext(r)
    /\ UNCHANGED <<policy, job, cache, budget, bounds>>

Pass(r) == Admitted(r) /\ ~Detected(job[r]) /\ Forward(r)
Alerted(r) == pc[r] = "alerting" /\ Forward(r)

\* Mutated form of Fail: the last backend is followed by the first.
FailCyclic(r) ==
    /\ pc[r] \in {"calling", "connecting"}
    /\ sent' = [sent EXCEPT ![r] = IF HasNext(r) THEN Append(@, CallTo(Chain[Primary(job[r])][Len(@) + 1], job[r]))
                                                ELSE <<CallTo(Primary(job[r]), job[r])>>]
    /\ UNCHANGED <<policy, pc, job, reply, logged, cache, budget, bounds>>

\* A timeout or a refused connection: the next backend, or 502 or 504 without a log entry.
Fail(r) ==
    /\ pc[r] \in {"calling", "connecting"}
    /\ \/ HasNext(r) /\ CallNext(r) /\ UNCHANGED <<pc, reply, logged>>
       \/ ~HasNext(r) /\ Return(r, Answer("gateway", 504, {})) /\ UNCHANGED sent
    /\ UNCHANGED <<policy, job, cache, budget, bounds>>

\* An exception caught nowhere: of messages that are no list of objects, of an
\* unreadable backends.json, of any other failure of a call or of its response.
Raise(r) ==
    /\ pc[r] \in {"reading", "alerting", "calling", "connecting"}
    /\ Return(r, Answer("internal", 500, {}))
    /\ UNCHANGED <<policy, job, sent, cache, budget, bounds>>
-----------------------------------------------------------------------------
\* A response without JSON has no usage; one of a backend without prices costs nothing.
Charge(b, rep) == IF rep.json /\ Priced(b) THEN rep.cost ELSE 0

\* Only the first choice with text is scanned and redacted.
Delivered(modes, rep) == IF modes.pii = "redact" THEN rep.pii \ {"first"} ELSE rep.pii

\* calculate_and_record: memory first, then the file, whose errors are ignored.
Record(b, cost) ==
    /\ spent' = [spent EXCEPT ![b] = @ + cost]
    /\ \/ ledger' = [ledger EXCEPT ![b] = @ + cost]
       \/ UNCHANGED ledger

\* Mutated form of Storable: any response is kept.
StorableAnyStatus(j, rep) == Cacheable(j) /\ rep.json

\* Only a success is cached.
Storable(j, rep) == Cacheable(j) /\ rep.status = 200 /\ rep.json

\* Mutated form of Entry: the response is kept as it came, before its redaction.
EntryUnredacted(modes, call, rep) ==
    [status |-> rep.status, pii |-> rep.pii, by |-> call.to, saw |-> call.saw, under |-> modes.pii]

Entry(modes, call, rep) ==
    [status |-> rep.status, pii |-> Delivered(modes, rep), by |-> call.to, saw |-> call.saw,
     under |-> modes.pii]

\* The response is kept under the messages as they were forwarded.
Store(modes, j, call, rep) ==
    IF Storable(j, rep)
    THEN Cache!Keep(CacheKey(j), Entry(modes, call, rep))
    ELSE UNCHANGED cache

\* A response that is not worth a fallback, or of the last backend.  A cache that
\* raises, as Redis may, has nothing new, and its client gets a 500.
Finish(r, rep) ==
    /\ pc[r] = "calling"
    /\ rep.status < 500 \/ ~HasNext(r)
    /\ Record(LastCalled(r), Charge(LastCalled(r), rep))
    /\ LogAndReturn(r, Answer("buffered", rep.status, Delivered(policy, rep)))
    /\ \/ Store(policy, job[r], LastCall(r), rep)
       \/ CacheShared /\ reply'[r].kind = "internal" /\ UNCHANGED cache
    /\ UNCHANGED <<policy, job, sent, bounds>>

\* Mutated form of FallBack: the failed call is logged as well.
FallBackLogged(r, rep) ==
    /\ pc[r] = "calling"
    /\ rep.status >= 500 /\ HasNext(r)
    /\ CallNext(r)
    /\ logged' = [logged EXCEPT ![r] = @ + 1]
    /\ UNCHANGED <<policy, pc, job, reply, cache, budget, bounds>>

\* Mutated form of FallBack: the failed call is charged as well.
FallBackCharged(r, rep) ==
    /\ pc[r] = "calling"
    /\ rep.status >= 500 /\ HasNext(r)
    /\ CallNext(r)
    /\ Record(LastCalled(r), Charge(LastCalled(r), rep))
    /\ UNCHANGED <<policy, pc, job, reply, logged, cache, bounds>>

\* A 5xx that is not of the last backend is dropped, and the next one is called.
FallBack(r, rep) ==
    /\ pc[r] = "calling"
    /\ rep.status >= 500 /\ HasNext(r)
    /\ CallNext(r)
    /\ UNCHANGED <<policy, pc, job, reply, logged, cache, budget, bounds>>

\* A stream is passed on from its first byte, whatever its status.
Open(r, rep) ==
    /\ pc[r] = "connecting"
    /\ pc' = [pc EXCEPT ![r] = "streaming"]
    /\ reply' = [reply EXCEPT ![r] = Answer("stream", rep.status, rep.pii)]
    /\ UNCHANGED <<policy, job, sent, logged, cache, budget, bounds>>

\* The stream ends, or the client leaves; the entry is lost if the log cannot be written.
Close(r) ==
    /\ pc[r] = "streaming"
    /\ pc' = [pc EXCEPT ![r] = "idle"]
    /\ \/ logged' = [logged EXCEPT ![r] = @ + 1]
       \/ UNCHANGED logged
    /\ UNCHANGED <<policy, job, sent, reply, cache, budget, bounds>>
-----------------------------------------------------------------------------
\* Cached responses expire.
Expire ==
    /\ Cache!Drop
    /\ UNCHANGED <<policy, slot, budget, bounds>>

(***************************************************************************)
(* A worker on another host stores the answer to a request of its own in   *)
(* the cache they share.  It has the same backends.json, but may run under *)
(* other modes, with other tenants, and has a spend file of its own.       *)
(***************************************************************************)
StoreElsewhere(modes, in, rep) ==
    /\ CacheShared
    /\ arrivals < MaxArrivals /\ arrivals' = arrivals + 1
    /\ ~MustBlock(modes, JobOf(in)) /\ Storable(JobOf(in), rep)
    /\ LET j == Scrubbed(modes, JobOf(in)) IN
       \E i \in DOMAIN Chain[Primary(j)] : Store(modes, j, CallTo(Chain[Primary(j)][i], j), rep)
    /\ UNCHANGED <<policy, slot, budget, restarts, months>>

\* What is left of the cache when a worker starts.
CacheAtStart == IF CacheShared THEN cache ELSE [k \in CacheKeys |-> NoEntry]

\* Mutated form of Restart: the tracker starts from zero.
RestartUnloaded ==
    /\ restarts < MaxRestarts
    /\ restarts' = restarts + 1
    /\ policy' \in Policies
    /\ pc' = [r \in Requests |-> "idle"]
    /\ job' = [r \in Requests |-> NoJob]
    /\ sent' = [r \in Requests |-> <<>>]
    /\ reply' = [r \in Requests |-> NoReply]
    /\ logged' = [r \in Requests |-> 0]
    /\ cache' = CacheAtStart
    /\ spent' = [b \in Names |-> 0]
    /\ UNCHANGED <<ledger, arrivals, months>>

\* Mutated form of Restart: the handlers go on, without what they held.
RestartSuspended ==
    /\ restarts < MaxRestarts
    /\ restarts' = restarts + 1
    /\ job' = [r \in Requests |-> NoJob]
    /\ spent' = ledger
    /\ UNCHANGED <<policy, pc, sent, reply, logged, cache, ledger, arrivals, months>>

\* The worker dies and is started again, under other modes perhaps: only the file
\* survives, and a cache in Redis.
Restart ==
    /\ restarts < MaxRestarts
    /\ restarts' = restarts + 1
    /\ policy' \in Policies
    /\ pc' = [r \in Requests |-> "idle"]
    /\ job' = [r \in Requests |-> NoJob]
    /\ sent' = [r \in Requests |-> <<>>]
    /\ reply' = [r \in Requests |-> NoReply]
    /\ logged' = [r \in Requests |-> 0]
    /\ cache' = CacheAtStart
    /\ spent' = ledger
    /\ UNCHANGED <<ledger, arrivals, months>>

\* Both figures are looked up under the current month.
NewMonth ==
    /\ months < MaxMonths
    /\ months' = months + 1
    /\ spent' = [b \in Names |-> 0]
    /\ ledger' = [b \in Names |-> 0]
    /\ UNCHANGED <<policy, slot, cache, arrivals, restarts>>

\* What a handler does by itself once it runs.
Handle(r) == Refuse(r) \/ Block(r) \/ Hold(r) \/ Pass(r)

\* What happens when the await of a request ends.
Resume(r) ==
    \/ Blocked(r) \/ Alerted(r) \/ Fail(r) \/ Raise(r)
    \/ \E rep \in Replies : Finish(r, rep) \/ FallBack(r, rep) \/ Open(r, rep)

Next ==
    \/ \E r \in Requests, in \in Inputs : Arrive(r, in)
    \/ \E r \in Requests : Handle(r) \/ Resume(r) \/ Close(r)
    \/ \E modes \in Policies, in \in Inputs, rep \in Replies : StoreElsewhere(modes, in, rep)
    \/ Expire \/ Restart \/ NewMonth

Spec == Init /\ [][Next]_vars

(***************************************************************************)
(* The event loop runs every handler that is ready, the webhook call has a *)
(* timeout, and so has every call to a backend.  A stream has no last      *)
(* chunk by which it must end: nothing is assumed of Close.                *)
(***************************************************************************)
FairSpec == Spec /\ \A r \in Requests : WF_vars(Handle(r)) /\ WF_vars(Resume(r))
-----------------------------------------------------------------------------
(***************************************************************************)
(* A backend to which only its own requests are sent overshoots its budget *)
(* by less than one response per slot, although the budget is checked      *)
(* before the alerts, the retries and the call, and the cost is recorded   *)
(* only after them.                                                        *)
(***************************************************************************)
BudgetOvershootBounded ==
    \A b \in CappedAlone :
        spent[b] = 0 \/ spent[b] < Budget(b) + MaxCost * Cardinality(Requests)

(***************************************************************************)
(* A buffered client is told of a failure (a 5xx of a backend, or the      *)
(* proxy's own 502 and 504) only when the whole fallback chain has been    *)
(* called: its calls are the chain, entry by entry.                        *)
(***************************************************************************)
Failed(r) ==
    \/ reply[r].kind = "gateway"
    \/ reply[r].kind = "buffered" /\ reply[r].status >= 500

FailureMeansChainExhausted ==
    \A r \in Requests :
        Failed(r) => [i \in DOMAIN sent[r] |-> sent[r][i].to] = Chain[Primary(job[r])]

(***************************************************************************)
(* No backend, primary or fallback, translated or not, ever sees a prompt  *)
(* in which the scanner found what the mode blocks or redacts: both copies *)
(* of the messages were replaced before the handler awaited the alert.     *)
(***************************************************************************)
NoDetectedPromptForwarded ==
    \A r \in Requests : \A i \in DOMAIN sent[r] :
        /\ policy.pii \in {"redact", "block"} => sent[r][i].saw \notin PIIPrompts
        /\ policy.injection = "block" => sent[r][i].saw \notin InjectionPrompts

(***************************************************************************)
(* What the cache holds for a model and a prompt is a success that a       *)
(* backend of that model's chain gave for that very prompt, although the   *)
(* key is computed before the backend is chosen and the entry is stored    *)
(* after the awaits.                                                       *)
(***************************************************************************)
CacheSound ==
    \A k \in CacheKeys : cache[k] # NoEntry =>
        /\ cache[k].status = 200
        /\ cache[k].saw = k[2]
        /\ \E i \in DOMAIN Chain[Resolve[k[1]]] : cache[k].by = Chain[Resolve[k[1]]][i]

(***************************************************************************)
(* In redact mode a client gets no PII in the first choice of an answer,   *)
(* whether it comes from a backend or from the cache, with one exception:  *)
(* a cache in Redis is not scanned again, so an answer that was stored in  *)
(* another mode, before a restart or by another worker, is delivered as it *)
(* was stored (see AnswersScrubbed, below).                                *)
(***************************************************************************)
AnswersRedacted ==
    \A r \in Requests :
        policy.pii = "redact" /\ reply[r].kind \in {"cached", "buffered"} /\ "first" \in reply[r].pii
            => CacheShared /\ reply[r].kind = "cached" /\ reply[r].under # "redact"

(***************************************************************************)
(* The request log has exactly one entry for a request that was blocked or *)
(* answered from the cache or by a backend, however many backends were     *)
(* tried; at most one for a stream, none for one still in its handler.     *)
(* Against what README.md:56 says there is none for a request refused with *)
(* 402 or 403, or failed with 502, 504 or 500 (see EveryRequestLogged).    *)
(***************************************************************************)
LoggedOnce ==
    \A r \in Requests :
        logged[r] \in CASE reply[r].kind \in {"blocked", "cached", "buffered"} -> {1}
                        [] reply[r].kind = "stream" /\ pc[r] = "idle" -> {0, 1}
                        [] OTHER -> {0}

(***************************************************************************)
(* What survives a restart is never more than what was spent: the file may *)
(* miss charges, but never counts one twice or one that memory forgot.     *)
(***************************************************************************)
LedgerWithinSpent == \A b \in Names : ledger[b] <= spent[b]

(***************************************************************************)
(* Money is spent only with an answer: each charge goes to the backend     *)
(* that was called last, in the step in which that request is answered,    *)
(* and is in the request log unless its client gets a 500.                 *)
(***************************************************************************)
ChargedOncePerAnswer ==
    [][\A b \in Names : spent'[b] > spent[b] =>
          \E r \in Requests :
              /\ pc[r] = "calling" /\ pc'[r] = "idle"
              /\ LastCalled(r) = b
              /\ spent'[b] - spent[b] <= MaxCost
              /\ logged'[r] = 1 \/ reply'[r].kind = "internal"]_vars

(***************************************************************************)
(* Every request is answered, or its stream is opened: however timeouts,   *)
(* errors and alerts are interleaved, the loop over the backends ends.     *)
(***************************************************************************)
EveryRequestAnswered ==
    \A r \in Requests : pc[r] \notin {"idle", "streaming"} ~> pc[r] \in {"idle", "streaming"}
-----------------------------------------------------------------------------
(***************************************************************************)
(* What the documents say and the code does not do.                        *)
(***************************************************************************)

(***************************************************************************)
(* A call of a fallback.                                                   *)
(***************************************************************************)
CallsFallback(r) == Len(sent'[r]) > Len(sent[r]) /\ Len(sent[r]) > 0
NewCall(r) == sent'[r][Len(sent'[r])]

\* README.md:115, "Monthly spend cap -- returns 402 when exceeded".
CapRespected(r) == ~OverBudget(NewCall(r).to)

\* keymanager.py:3, "The proxy injects the correct backend-specific API key".
KeyInjected(r) == HasKey(NewCall(r).to) => NewCall(r).key = NewCall(r).to

\* tenants.py:22, "Each tenant gets their own rate limit, budget, and backend restrictions".
TenantRestricted(r) == NewCall(r).to \in MayUse[job[r].tenant].backends

\* README.md:56, "Every request logged with backend, model, latency, token usage": not
\* to ask too much, every request but a stream and one that raised, as a full disk may make it.
EveryRequestLogged ==
    \A r \in Requests : reply[r].kind \notin {"none", "stream", "internal"} => logged[r] > 0

\* ARCHITECTURE.md:157, "If redact mode: scrub PII from response before returning to client".
AnswersScrubbed ==
    policy.pii = "redact" =>
        \A r \in Requests : reply[r].kind \in {"cached", "buffered"} => "first" \notin reply[r].pii

(***************************************************************************)
(* When a fallback is called, at least one of these five is true: of the   *)
(* call, or of what was answered before.  The checks are made of the       *)
(* primary backend only, refusals return past the log, and a hit past the  *)
(* scan; one behaviour breaks all five.                                    *)
(***************************************************************************)
DocumentsHold ==
    [][\A r \in Requests : CallsFallback(r) =>
          \/ CapRespected(r) \/ KeyInjected(r) \/ TenantRestricted(r)
          \/ EveryRequestLogged \/ AnswersScrubbed]_vars
=============================================================================
