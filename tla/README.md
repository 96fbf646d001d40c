# A TLA+ model of OpenClaw LLM Proxy

The proxy takes OpenAI-style requests, checks them (rate limit, tenant, budget,
prompt scanning), sends them to one of several LLM backends with retries and
fallbacks, and answers from a cache where it can. This directory models its
logic in TLA+: TLC checks small instances of every module, and TLAPS proves the
most important results for every value of the constants. `PROJECT.json` ties
each definition to the lines it models, each property to the runs that check
it, and each hazard of the code to the properties that would catch it.

    tlc -workers 2 -config MCProxy.cfg MCProxy.tla     # check a module
    tlapm ProxyProofs.tla                              # check the proofs

## The system

A worker is one asyncio event loop. A request passes through the middleware
(tracing, size limit, authentication, rate limit) to the handler in `main.py`,
which calls everything else. What runs between two awaits is not interrupted;
the awaits are where requests overtake each other.

| Component | State | Operations | Talks to |
|---|---|---|---|
| Request handler (`main.py`) | locals of each handler | one request, buffered or streaming | everything below |
| Routing (`router.py`, `fallback.py`, `keymanager.py`) | none, `backends.json` is read again by every call | resolve, fallback chain, key injection | load balancer |
| Load balancer (`loadbalancer.py`) | counters, latencies per URL | pick_url, record_latency | routing, handler |
| Retries (`retry.py`) | locals of each call | attempts, backoff, retry-after | backends |
| Translators (`translators/`) | none | request, response, chunk of a stream | handler |
| Response cache (`cache.py`) | ordered dictionary, or Redis | get, put, expiry, LRU eviction | handler |
| Spend tracker (`spend.py`) | spend per month in memory; `spend.jsonl`; a PostgreSQL table | check_budget, record, load at start | handler |
| Size limit, authentication, tenants (`sizelimit.py`, `auth.py`, `tenants.py`) | `tenants.json`, cached once | authenticate, allowed backends and models | middleware, handler |
| Rate limiter (`ratelimit.py`) | time stamps per client, in memory or in Redis | is_rate_limited | middleware |
| Scanning and alerts (`security.py`, `alerts.py`) | none | scan, redact, await a webhook | handler |
| Request log (`logger.py`) | Kafka producer, PostgreSQL pool, file | log_request, query_logs_pg | handler, dashboards |
| SDK (`sdk/client.py`) | none | chat, stream, health, spend, logs | the proxy, from outside |
| Dashboards, metrics, monitor | counters, or none | read only | |

What is hard in this code, and what correctness means there:

- **Handlers interleave at their awaits** (alerts, retries, backends). A budget
  is checked long before the cost is recorded, a cache key computed long before
  the entry is stored. The overshoot must stay bounded, the entry must be an
  answer to that very prompt.
- **Workers share files and Redis, but nothing else.** Each has spend, tenants
  and turns of its own; Redis commands of several workers interleave, and their
  clocks differ.
- **One request, several backends.** Checks, keys and two copies of the request
  are prepared once, then used for each backend of the chain, in up to three
  dialects. Failures of three kinds (timeouts, connection errors, 5xx) must all
  lead to the next backend, and be reported only after the last one.
- **Partial failure.** The charge, the cache entry and the log entry are written
  one after the other; each write may fail alone, a charge even half way. Answers
  are charged and logged exactly once; money is forgotten only with cause.
- **Restarts** forget memory and reload the spend from a file that may miss
  charges or be torn. No charge may be counted twice.
- **Lazy data structures.** Expired cache entries and old time stamps stay until
  somebody asks; nobody may see the difference.
- **Retries** repeat a request that a backend may have carried out already.
- **Streams** are cut into chunks anywhere, and end when either side leaves.

The hazards are listed one by one, with their lines, in `PROJECT.json`.

## The modules

| Module | Models | Kind |
|---|---|---|
| `Subsequences` | filtering a list | functions of sequences |
| `Backends` | `backends.json` and its lookups: resolve, chain, keys, prices, budgets | functions of constants |
| `ResponseCache` | what the handler relies on from any cache | abstract specification |
| `Proxy` | the handlers of one worker, spend, enforcement, tenant checks | state machine, composes the two above |
| `MemoryCache`, `RedisCache` | the two caches | each implements `ResponseCache` |
| `ConfiguredCache` | the choice between them at the start | composes the two |
| `SlidingWindow` | what a rate limit means | abstract specification |
| `MemoryRateLimiter` | the in-memory limiter and its middleware | implements `SlidingWindow` |
| `RedisRateLimiter` | the limiter in Redis, shared by workers | state machine |
| `Gate` | what a request passes before its handler | composes the limiters with keys and tenants |
| `Retry` | `request_with_retry` | state machine |
| `Upstream` | the load balancer around it | composes `Retry` |
| `Spend` | the spend tracker, for several workers on one disk | state machine |
| `RequestLog` | `log_request` and its three sinks | state machine |
| `Persistence` | what a worker writes to one database, charges and entries | composes the two above |
| `Translation` | requests and answers in three dialects | state machine |
| `Streams` | one streamed response, with the chunk translators and the SDK | state machine |
| `Exchange` | a request, then its answer or its stream | composes the two above |
| `*Proofs` | theorems about the module they extend | proofs |
| `MC*` | constants for TLC | |

### Proxy

An action is what a handler does between two awaits, or from one to its return;
`pc` names the await it is suspended in. A member of `Requests` is a slot for
one request at a time, so their number is the concurrency of the worker.

| Action | Code |
|---|---|
| `Arrive` | the request reaches `proxy()`; the body is awaited |
| `Refuse` | 403 of a tenant, 402 of a budget (main.py:96-106) |
| `Block`, `Blocked` | block modes: the alert is awaited, then the entry is logged and 403 returned |
| `Hold`, `Alerted` | log and redact modes: alerts are awaited, then the request is forwarded |
| `Pass` | nothing detected: forwarded at once. `Forward` is cache lookup and first call |
| `Fail` | timeout or connection error: the next backend, or 504 (502 is the same to the model) |
| `FallBack` | a 5xx with a backend left |
| `Finish` | success, 4xx, or the last 5xx: redact, charge, cache, log, return |
| `Open`, `Close` | a stream is opened; it ends |
| `Raise` | an exception caught nowhere: 500 |
| `StoreElsewhere` | another worker stores an answer in the cache they share, under modes of its own |
| `Expire`, `Restart`, `NewMonth` | time to live, process restart, the turn of the month |

`CacheShared` says whether the cache is in Redis (`_create_cache`). If it is, it
survives a `Restart`, which may change the enforcement modes, and other workers
store in it; if not, it is empty after a restart (`CacheAtStart`). A hit is
delivered as it was stored, without another scan, and the key does not hold the
mode.

History variables: `sent` records each call with the prompt and key the backend
saw; cache entries carry the backend and prompt they stem from, entries and
answers the mode they were scanned `under`. They decide nothing.

Abstractions. `backends.json` and `tenants.json` are constants: a run is a
period between two edits (`Gate` edits the latter). Which prompts the scanner
detects is a constant; the scanner is installed. Retries are one await, the cache
an abstract one, a stream its opening and its end, the spend one figure per
backend: `Upstream`, `ConfiguredCache`, `Exchange` and `Spend` have the insides.
The month turns between two steps here, inside one in `Spend`. Spend is recorded
spend: the code charges nothing for streams. The default backend has no budget,
whatever it costs, as check_budget only knows routes. A Redis cache that fails
after the charge is an alternative of `Finish`: the answer is paid for, and the
client gets a 500. Before the charge, `Raise` stands for it. A body whose "model" is
null is `NullModel`, which is cached, one without the field is `NoModel`, which
is not.

### The caches

Both have a clock that only advances, a history of what really happened, and a
refinement mapping to what a get would return, expired items being gone already.
In Redis a get is two commands, `GetOne` and `Count`, other workers' commands
come in between, and the second may fail (`CountFails`).

### Gate

A request is one step. The middlewares run in tasks of their own, so another
request may come between two of them, but what they touch is disjoint: the
tenants' file is the authentication's, the lists of stamps are the limiter's, and
each is read and written without an await. The order is tracing, size limit, authentication,
rate limit, handler. A check that fails keeps the request from what is behind
it: `Denied` asks no limiter. `Exempt` are the paths `/metrics` and
`/dashboard`, which need no key but are limited all the same; `Health` is exempt
from everything. `Edit` changes `tenants.json` between any two requests, into
any version, half a file or none; what was once read stays in `tenants`, an
empty object included, since `reload()` has no caller. Which limiter there is,
`limiter`, was decided at the start. `ImplementsWindow` states that verdicts
depend only on the requests let through in the window before, never on when the
list was pruned. The limit is the one of the process, per address of a client:
tenants.py:22 and README.md:65 and 264 of the repository promise limits per
tenant, but `get_rate_limit` has no caller, so there is no code to model.

In Redis a request is added to the set before its verdict is known, so a refused
one counts against the next. A stamp is read by the worker, up to `Behind` or
`Ahead` of the time of Redis; `Lose` is a transaction whose reply never came
(the client gets a 500). The pipeline is one transaction (`Execute`), which is
what the client for a single server makes of it; with `REDIS_CLUSTER=true` the
client of the cluster (ratelimit.py:42-44) sends the same commands without
MULTI, and requests of other workers may come between them: the properties of
the Redis limiter are not claimed for it.

### Retry and Upstream

Time is counted down in seconds; the action `Second` is the clock, `Wake` the
end of a sleep. `TimedOut` and `Disconnected` choose whether the backend had
carried the request out. That a 429 or a 503 means it was not is an assumption on
the backends (`Refused`). A retry-after header that is a date is ignored by the
code, so it is `NoHeader`. httpx's timeout limits each connect, read and write,
so an attempt ends but has no total limit here.

`Upstream` runs one call after the other against URLs that `Pick` chooses.
`Skip` is a request that is resolved, has its turn, and goes no further.
`Record` is record_latency, under the URL of the request (`"full"`), while
pick_url looks under the configured one (`"base"`). A latency is recorded for a
5xx as well, and not for an exception. Fallbacks do not pick: they use their
first URL.

### Spend

One backend, as figures of two never meet, and any number of workers. `Admit`
is check_budget, `Charge` the part of record() that adds up in memory, `Write`
the rest; between the two the worker does nothing else, but may die, the month
may turn, and other workers go on. `Write` tries the table if there is one, then
the file; a connection may break before the commit or after it. The file is its
complete lines, summed, and the `tail` behind the last newline: nothing, a part
of a line, or a line without its newline. `AppendTorn` is a disk that fills up,
and the next line written is glued to what it left. `Restart` loads what can be
parsed (`Readable`), from the file only.

### RequestLog

A call of `log_request` is one step, with the sink it ends in. Between calls,
the producer's thread delivers or gives up messages and the database fails and
recovers. An outage breaks the pooled connection; the next use finds out
(`Returned`). How the Kafka client counts messages, and when PostgreSQL fails,
are external. `Complete` are the entries that have the field `response_content`:
without it the INSERT raises before anything is sent, and the connection goes
back into the pool as it was. `Accepted` are those whose values fit the columns;
the server rejects any other, a model of more than 100 characters for instance.
Either kind goes to the file with the database up, and only an entry that is
both counts as a stray.

### Persistence

With `DATABASE_URL` the charges and the entries of a worker go to one database.
`Spending`, `Writing` and `Restarted` are steps of `Spend`, `Logging` and
`Elsewhere` steps of `RequestLog`. A charge that was written is logged before
any other handler runs (`owing`), as the code awaits nothing in between; a
restart ends both. The module is there for one question, whether the database
persists what README.md:285 says it does.

### Exchange, Translation and Streams

In `Translation` a text is the position of its message or part. `Call` is a turn
of the loop over the chain: `Request` makes what that backend is sent, from the
messages as they are at that moment. `Answer` translates back in the dialect of
the backend called last. A tool's part has no text and does not survive. An
error's body, which has no parts, comes out as an answer without text that
stopped normally; its status code is `Proxy`'s matter.

In `Streams` the bytes are halves of lines. `Send` puts one on the wire, `Chunk`
takes any run of what has arrived, so a chunk may end inside a line. `Says`
gives, per dialect and kind of event, what the client is told. A generator that
was never started (`Drop`) releases nothing: that is what the code does when
the client leaves before its response begins. The lines hold one object each,
the form the translators expect. `Heard` and `Yielded` are `stream()` of the
SDK: it reads up to the first end mark and yields what has text. `Missed` is
what the client never gets although it was sent.

`Exchange` lets a request end with either. `Open` forgets the request, which is
over with its handler.

## What TLC checks

Every passing run sets `CHECK_DEADLOCK FALSE`: the bounds on arrivals, clocks,
outages and retries stop the model where the program would go on.

| Run | Shows | Bounds, and why they are enough |
|---|---|---|
| `proxy` | budgets, chain, enforcement, cache, redaction, log, charges | two slots, three requests, one restart, one new month, a cache in Redis. Two handlers are what every interleaving property needs; the third request, or the answer of another worker, is what the first two find in the cache, or leave there and in the ledger. The configuration has a capped backend of its own, two that fall back to each other, an unnamed route and an unknown fallback; budgets are one unit, so one answer exhausts them |
| `proxy_live` | every request is answered or its stream opened; redaction without exception | two slots, two requests, one restart, a cache in memory. The second request finds what the first left; answers with and without PII, and one that is no JSON |
| `cache` | size, LRU order, both caches implement `ResponseCache` | three keys for two places, time to live passed several times; two workers and three gets in Redis, so that one worker's put and an expiry fit inside the other's get |
| `rate_limit` | no window over the limit, either limiter; `SlidingWindow`; one version of the tenants | two clients in memory, one in Redis, limit two, window three, clocks one tick apart; time for a window to pass and for Redis to forget; three versions of the file, and one edit, to or from a broken or missing one |
| `retry` | retry-after, repetitions, reports, termination, turns | the shipped four attempts and backoffs; headers below, between and above them; three URLs, the first the slowest, two rounds of turns |
| `request_log` | exactly one sink, one stray entry per outage | five entries, of which one lacks the field and one is rejected, two outages, one restart, a queue that is full with one message |
| `streams` | who is told what, order, losses, release | all conversations of up to three messages in four roles, a chain of two in every pair of dialects (what one translator could spoil, the next one shows); answers and streams of each dialect, cut anywhere; a stream of Gemini with no end mark, and one with text behind it |
| `spend` | overshoot, losses and double counts | two workers, costs of one and two against a budget of two, four charges, so that both overshoot or one does so again after the restart; two faults, which is a torn line and what it swallows, or a failed insert and a failed append |

Every property has a mutant in `PROJECT.json`: a changed definition, kept in
the module just before the original, under which TLC finds it violated.

Four runs show where the code departs from what the repository says of it; each
departure is a finding in `PROJECT.json`:

- `documents`: budget, API key and tenant are seen to for the primary backend
  only; refused and failed requests have no log entry; a hit in a shared cache is
  delivered unredacted in redact mode. `DocumentsHold` asks that, whenever a
  fallback is called, at least one of the five statements be true, and one
  behaviour breaks them all: an answer with PII that a worker in log mode stored
  is delivered, a request is refused with 403, and a third one falls back to a
  backend that is over its budget and closed to its tenant, with another's key;
- `postgres`: with PostgreSQL, a restart forgets the month's spend, since only the
  file is read, and entries without response text go to the file, because the
  INSERT names a field they lack. `DatabasePersists` asks for one of the two, and
  for it only when nothing failed;
- `stream_cut`: a translated stream loses text whose line two chunks share, and
  still ends with the end mark;
- `least_latency`: the strategy of that name always picks the first URL, as it
  looks latencies up where they are not recorded.

Some properties of passing runs describe behaviour a reader may not expect:

- `AnswersRedacted`: in redact mode PII does reach a client from a cache in Redis,
  when the entry was stored in another mode, before a restart or by another
  worker; with a cache in memory it never does (`proxy_live`);
- `LoggedOnce`: requests that were refused, or failed with 502, 504 or 500, have
  no log entry;
- `TurnsEven` counts turns, not calls: a request that is refused, blocked or
  answered from the cache has had its turn, so that a URL may still get less than
  its share of the calls;
- `RedisSilenceReopens`: a client of the Redis limiter that tries at least RPM
  times in every window is never served again, one that falls silent is;
- `OvershootPerProcess`: a budget is enforced per worker, and again after each
  restart that finds less in the file;
- `SameConversation`: the system messages are told apart from the rest, in
  whatever order the client sent both, and Gemini is not told them in a conversation
  without a message of a user;
- `LossBounded`: one torn line costs two charges.

### Fairness

`proxy_live` assumes weak fairness of `Handle(r)` and `Resume(r)`: the event
loop runs a handler that can run, a webhook answers or times out after five
seconds, and every backend call ends by its timeout and its four attempts
(`Ends` of the `retry` run). Nothing is assumed of `Close`: a stream may stay
open. `retry` assumes that attempts and sleeps end; no request has to come.
`streams` assumes, of a stream that was opened, that a backend goes on sending,
finishes or runs into the read timeout, and that the event loop resumes the
generator; clients need not leave.

## What is proved

For every value of the constants, from the assumptions the modules name.

| Theorem | Says | Argument |
|---|---|---|
| `Typing` | `TypeOK` of `Proxy` | inductive with `CallsInOrder`: a handler that waits for a backend has called a nonempty prefix of its chain, so the last call and the next one exist |
| `FailureExhaustsChain` | a failure is reported only after the whole chain | `CallsInOrder` and `Exhausted`: a reported failure was reached with no backend left, and `sent` keeps the chain until the slot is reused |
| `LedgerSafe` | the file never exceeds the spend | each step changes both or neither, or the memory alone |
| `OvershootBounded` | spend stays below budget plus one response per slot | `Reserved`: spend plus `MaxCost` per request in flight to that backend stays below the bound. A request is admitted only while spend is below the budget; a charge pays for its own reservation |
| `DetectedNeverForwarded` | no backend sees a prompt that enforcement blocks or redacts | `Screened`: a prompt that will be forwarded is clean before the handler awaits its alerts, both copies of it are the same, and every call saw that one |
| `CacheAlwaysSound` | a cache entry is an answer to the prompt of its key, also in a cache that other workers store in | `CacheRedacted`, from `Screened` and `CallsInOrder`: the key is made of the prompt every backend saw, and who was called last is of the chain (`EntrySound`, `StoreSound`), for this worker and for another |
| `AnswersAlwaysRedacted` | in redact mode no PII of a first choice reaches a client, but from a shared cache's entry of another mode | an entry is free of it if it was stored in redact mode, and a cache in memory holds entries of this worker's mode only, as it ends with the process; `CleanAnswer` carries either over to the hit |
| `AlwaysLoggedOnce` | one log entry per answer, none for what was refused or failed | `Answered`: a handler that waits has neither answered nor logged, so each way to return logs for the first time |
| `ChargedWithAnswer` | the spend grows only with an answer, which is logged or ends in a 500 | a step property: only `Finish` adds to it, and what a restart reads is no more (`LedgerSafe`) |
| `ProcessOvershootBounded` | the overshoot of each of several workers on one torn file | `Reserved`, per worker, of what the process itself charged: it is part of the figure that is checked, and sets aside `MaxCost` per request in flight; in a new month nothing is charged yet, so those in flight have all of the room |
| `SpendTyping`, `LossHasCause`, `NothingOvercounted` | types of the spend; at most two charges lost per failed write and one per crash; none counted twice | `Books`, below |
| `CacheTyping`, `CacheBounded`, `EvictionIsLeastRecent` | types, size and eviction of the caches: a put of a key that is held evicts nothing, any other only what is unused for longest, and only if the cache is full | `Recency`: the items are ordered by their last use, so the first is the one unused for longest. In Redis, `RedisInv`: each count belongs to a get that came before it |
| `MemoryImplementsResponseCache`, `RedisImplementsResponseCache` | both caches keep the promise the handler relies on | lemmas on taking out, appending and moving an item say where every other item is afterwards (`Rearranged`): what can still be had is moved, never changed. The second half of a Redis get adds nothing to what its first half read |
| `LimiterTyping`, `LimiterImplementsWindow`, `WindowSafe` | the memory limiter implements the sliding window, no window holds more than the limit | `ListIsWindow`: what pruning leaves is what was admitted within the window. The earliest stamp of an overfull window would have been admitted against a full list |
| `GateImplementsWindow` | so does a worker with all its middleware | every step of the gate is a step of the limiter, or leaves it alone |
| `OneVersionOnly` | `OneVersion` | `Recognised`: who was ever recognised is in the cached version, and a cached version is never replaced |
| `RedisWindowSafe`, `SilenceHelps` | the Redis limiter keeps its limit despite differing clocks, and silence empties the window | `Counted`: every stamp let through that could still matter is a member of the set, not removed by any clock yet, and no stamp is further ahead than `Ahead` |
| `GateTyping` | types of the gate and both limiters | from the invariants above |
| `LogTyping` | types of the log, its queue within its limit | by parts: a message delivered leaves the queue as its report enters it |
| `ConversationKept` | every backend is told the whole conversation, as said by whom it was | `Informed`: every request that was made so far is `Faithful`. A translator's turns are the images of the positions of the messages, in order, so flattening them gives those positions back. For Gemini the instructions are put in front of the first turn of a user, wherever that is |
| `AnswersKept` | no answer that was cut short passes for a whole one, or the other way round; its text arrives in order | `Translated`: the answer is that of the backend called last, read with its reasons, of which exactly one becomes `"length"` |
| `LostOnlyIfCut` | a client misses of what was taken exactly what was cut and had to be translated | `Followed`: the position of the generator says which event a chunk has cut, and decides of every event behind it whether the client has it |
| `SdkYieldsAll` | the SDK yields each text once and in order, and of an unbroken answer all up to the first end mark, but for what was cut | `Ordered`: what the client got is increasing, so an event of it is in front of the first end mark exactly if it comes before every end mark that arrived; `Followed` and `Exhausted` say which events did arrive |
| `RetryTyping`, `UpstreamTyping` | types of a call and of the balancer | `Counted`, below |
| `UpstreamHonoursRetryAfter`, `UpstreamRepeatsOnlyUnanswered`, `UpstreamGivesUpOnlyLast` | the invariants of `Retry`, for call after call | `Counted`: a sleep is at least as long as what the backend asked for, and there is at most one execution more than unanswered attempts; a step of `Upstream` is one of `Retry` or begins a call as its `Init` does |
| `TurnsAlwaysEven` | round robin | `Even`: some rounds are complete, and the URLs up to the counter's remainder have had their turn in the next; the lemmas on remainders say that it goes up by one or back to zero |
| `LoggedExactlyOnce` | every entry is in exactly one place | `Placed`: the five places are disjoint and are the calls that returned; unconfirmed commits belong to calls |
| `StraysBounded` | at most one stray entry per outage | `Accounted`: a broken connection is an outage that has not cost its entry yet |

`Books` keeps three accounts of the charges: month by month, where a charge may
slip into the month after it, one per worker; over all months, where none may;
and what is missing, each piece of which a fault or a crash paid for. A torn line
costs a charge only when the next one is glued to it, so the charges that an
unfinished line will swallow are paid in advance (`Debt`). All are sums, and `Sum`
is a fold of the library, whose definition the provers see as a choice among
functions. `SpendProofs` therefore shows first that such a function exists for
every finite set (`AddsExists`), by an induction whose claim is the set of the
cases it holds for, as no theorem with an operator for a parameter can be used;
from that, what `Sum` is for a changed function, and its bounds.

`SubsequenceProofs` does the same for the lists of the proxy, which are filtered
(`Only`) and flattened (`FlattenSeq`): it shows that each is the recursive
function it is defined as, what it does with one element more, and from there,
by induction over a set of sequences, what the proofs of `Proxy` and `Exchange`
cite: which elements are left and in which order, and that filtering commutes
with concatenating, flattening and renaming. This is why the modules filter with
`Only` and not with `SelectSeq`, of which the provers know nothing, and why
`Backoffs` of `Retry` is a function that doubles and not a power.

Assumptions: `ConfigAssumption`, `ProxyAssumption`, `SentinelAssumption`,
`CacheAssumption`, `RedisAssumption`, `LimiterAssumption`, `GateAssumption`,
`RedisLimiterAssumption`, `RetryAssumption`, `UpstreamAssumption`,
`SpendAssumption`, `LogAssumption`, `StreamAssumption` and `ExchangeAssumption`
give the constants their types. `RedactionAssumption` says that what was
redacted is not detected again. TLC evaluates all of them. No fact of arithmetic
or about sequences is assumed.

Only model-checked: the liveness properties (`EveryRequestAnswered`, `Ends`,
`StartedIsClosed`), which are beyond the provers. Every invariant, action
property and refinement of a passing run is proved.

## What is not modelled

- The log viewer, `query_logs_pg` and the dashboards: they only read. Entries in
  Kafka are never shown, entries in the file no longer once there is a pool.
- Metrics: counters that only grow and that nothing in the proxy reads.
- The monitor and the installation: probes and scripts without state.
- The SDK's other calls, one HTTP request each.
- Options, tools and headers of translated requests, counts of tokens, prices
  per token, formats: copied or computed one by one, and told apart by no
  property.
- Edits of `backends.json` inside one request, which is read again by every
  lookup: the keys, timeouts, prices and the chain of one request may then stem
  from two versions.
- The size of a body and the trace id: neither outlives its request.
- Rate limits and budgets per tenant, which the documents promise: no code
  enforces them.
- The Redis Cluster client, whose pipeline is no transaction.
- That the Kafka queue, once full of messages and unread reports, empties only at
  a restart: `RequestLog` has the mechanism, but what the client library counts
  is not this repository's.

## Plan

The order is by what matters most to the system.

1. *Done.* `Backends`, `ResponseCache`, `Proxy`, with their proofs.
2. *Done.* `MemoryCache`, `SlidingWindow`, `MemoryRateLimiter`, `Retry`,
   `RequestLog`, `Streams`.
3. *Done.* `Spend`, `RedisRateLimiter`, `RedisCache`, `Gate`, `Upstream`,
   `Translation`, `Exchange`, with proofs of the first, second, fourth and fifth.
4. *Done.* The enforcement, cache, redaction, log and charge properties of
   `Proxy`; both caches implement `ResponseCache`; the types of `RequestLog` and
   the sums of `Spend`; the losses of `Streams`. Proofs of a component and of what
   it is composed into share a module.
5. *Done.* `Subsequences` and its theory; `SameConversation`, `AnswerKept` and
   `SdkYieldsText`, as theorems of `Exchange`.
6. *Done.* The cache that workers of different modes share, entries the database
   rejects, and `Persistence`.
7. Left: edits of `backends.json` between two lookups of one request, which would
   make the configuration a variable of `Proxy`.
