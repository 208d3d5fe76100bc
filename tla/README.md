# Verification of the distributed document search service

TLA+ models of the service in `src/doc-search/app`, TLC configurations that check them on small
instances, and TLAPS proofs of the results that matter most for every size. `PROJECT.json` maps
every definition to the lines it models.

## 1. The system

Clients call a FastAPI service; several processes (replicas) of it share Postgres, Redis, RabbitMQ
and OpenSearch. Indexing workers, each with a reconciler, are processes of their own.

| Component | State | Operations | Hard behaviour | What makes it correct |
|---|---|---|---|---|
| Write path (`document_service`, `document_repository`) | rows: status, version, `updated_at` | create, delete: commit, drop the cached document, bump the search generation, publish | process dies or publish fails after the commit; concurrent deletes | versions never go back, a delete is final, every commit reaches the index |
| Broker (`queue`) | main, retry and dead-letter queue, `x-death` | publish with confirms, deliver, nack to retry, expire back, requeue | redelivery, duplicates, any order | no event vanishes |
| Worker (`consumer`, `processor`) | the unsettled batch, operations, outcome | collect, re-read rows, bulk, mark indexed, bump, ack / nack / dead-letter | rows are stale when the bulk call lands; partial answers; calls that raise after they were applied; crashes between all steps | nothing is settled before its effect is confirmed |
| Reconciler | the stale documents of a sweep | find stale rows, publish them again | lost events, limit of a sweep | every stored document is resolved |
| Search engine writes (`opensearch_engine.bulk`) | entries and versions | versioned index and delete | late requests, out of order | a removed document never comes back |
| Search cache (`search_service`, `cache_keys`) | generation, results, futures in flight | lookup, single flight, store | slow searches across a bump, lost bumps, cancelled leaders | settled writes are seen; searches end |
| Document cache | one entry | cache-aside GET, drop at DELETE | GET overtaken by DELETE | a deleted document is not served for ever |
| Circuit breaker, retry (`resilience`) | state, failures, time of opening | admit, success, failure | calls of different epochs overlap, cancelled trials | consistent count; recovery |
| Rate limiter | shared and local token buckets | draw, refill, fall back | Redis fails for some requests; buckets expire | quota in every window; honest `retry_after` |
| Tenants table (`models/tenant`, `database.seed_tenants`) | key and status of every tenant | seed, rotate a key; disable by SQL | concurrent transactions, two configurations at once, keys that change hands | keys unique, a disabled tenant stays disabled, the last configuration wins |
| Tenant authentication (`deps`) | cached credentials | look up, read, store | disabling and rotation against the cache, stores on their way | a revoked key is accepted for a bounded time |
| Request path (`deps`, `routes`) | what a request knows between its awaits | authenticate, limit, check the scope, clamp the page, read through the caches | caches and futures that all tenants share; limits that do not divide | answers stay in the tenant; pages neither overlap nor leave the window |
| Startup (`container`, `database`, `ensure_index`, `connect`) | schema, index, alias, publishers' connections | create, seed, bootstrap, connect; restart | processes start together, lose races, die or start degraded | everything comes up, behind the alias, with its tenants |
| Health (`health_service`, `routes/health`) | none | verdict, readiness | what a probe does not see | ready means provisioned |
| Schemas, middleware, logging, metrics, scripts | none | – | – | – |

`PROJECT.json` lists all hazards, each at its line.

## 2. Modules

| Module | Models |
|---|---|
| `IndexingPipeline` | write path, broker, workers, reconcilers, index writes: the core, one composed state machine |
| `DocLifecycle` | abstract specification: the life of a row and of its index entry |
| `MCIndexingPipeline` | instances of the pipeline for TLC |
| `IndexingPipelineProofs` | type correctness, the version invariant, the safety theorems, the refinement |
| `PipelineOwnerProofs` | who still brings a removal or an invalidation, and the only ways it is dropped |
| `SearchCache`, `MCSearchCache`, `SearchCacheProofs` | result cache of one tenant and query |
| `DocumentCache`, `DocumentCacheProofs` | cache of one document |
| `CircuitBreaker`, `CircuitBreakerProofs` | breaker with `with_retry` inside |
| `RateLimiter`, `RateLimiterProofs` | token buckets of one tenant and one kind of request |
| `TenantRegistry` | abstract specification: the life of the tenants table |
| `Startup`, `MCStartup`, `StartupProofs` | replicas and workers coming up, the seeding transactions, health |
| `RequestPath`, `MCRequestPath`, `RequestPathProofs` | a protected request from its key to its answer, over shared caches |

`TenantRegistry` is what composes `Startup` and `RequestPath`: `Startup` implements it, transaction by transaction,
and `RequestPath` runs against every change of the table that it allows.

Definitions named "Variant" in a comment are plausible bugs of the definition after them. Replacing
the definition by its variant makes the property that `PROJECT.json` pairs it with fail.

### IndexingPipeline

A step is what the code does between two awaits. `req[r]` is a request between its awaits
(`CreateCommit`, `CreatePublish`, `CreateInvalidate`; `DeleteRead`, `DeleteCommit`,
`DeleteInvalidate`, `DeletePublish`). `pc[w]`, `op[w]`, `done[w]`, `failed[w]` are the locals of
`process` and `_flush`; the batch is the set of messages the broker holds as unacknowledged for the
worker. `FlushRead` is `process` up to the bulk call, `BulkAnswers` and `BulkRaises` its outcomes,
`MarkIndexed` the UPDATE and commit, `Announce` is `_invalidate`, and `Ack`, `Nack`, `DeadLetter`
settle one message each. `Discard` acknowledges a body that is no event.

Failures: a publish that fails, or raises although the broker has the message; a bulk call or item that
fails; an INCR that fails, which the worker ignores; the death of a request before its publish; `Crash`,
the end of a worker, also between dead-lettering and ack; `Disconnect`, where the broker delivers a batch
again while the first worker goes on with it. Each spends one of `MaxFaults`. `LateArrival` is an item
that arrives after its call raised, or, from an attempt of `with_retry` that timed out, after a later
attempt was answered; the fault is spent when the item is left behind.

Abstractions. The processor uses an event's id and tenant only and re-reads the row, so events carry
their id and queues have no order. `updated_at` is kept for pending rows only. `cutoff` stands for
`now - reconcile_stale_after_seconds`. The linger deadline is a flush at any time. `announce[d]`
records whether the tenant's generation has moved since the entry of `d` last appeared or vanished.
A disconnect in the middle of the collection of a batch is not distinguished from a crash: the
worker's later flush would only read newer rows. `lost` and `announce` are history.

`Tombstones` says whether the engine remembers the version of a delete. OpenSearch does so for
`index.gc_deletes` (60 s unless set, and `index_settings` does not set it): the results about
versions assume that no operation is in flight for longer. `InMemorySearchEngine`, the tests' double,
does not (`bulk` pops the version with the document), and with `Tombstones` false
`DeletedEntryHasOwner` fails: an index operation in flight brings a deleted document back.

### SearchCache

A result is the number of index writes it reflects; `floor` is what a search must at least reflect:
the writes settled (indexed and bumped) and visible when it began. All calls may fail (`CanFail`).
`excused` turns true at the three failures that defeat invalidation by design: the worker's INCR is
lost, the generation is lost (a failed read counts as 0, Redis evicts it), the engine answers before
the refresh that shows a settled write. A cancelled leader drops its future unresolved.

### DocumentCache

The payload of an entry is the status it was made from. `excused` records the two ways a deleted
document stays cached: a GET that read the row before the commit stores it afterwards, or Redis
refuses the drop.

### CircuitBreaker

The lock is not held across an await, so the bookkeeping of a call is one step. `failures` stands for the
lesser of `_failures` and the threshold: the code counts on, but only compares the two. That it stays
within the threshold is therefore the model's doing, and no result rests on it. Time since opening is counted
up to the recovery window.

### RateLimiter

Tokens are counted in fractions that make refills exact. `granted` keeps, per bucket and time, what
was admitted from that time on, since the process started or the bucket was lost, so that a window is one
number and not a sum; an expiry does not reset it. `promise` is the time the first client refused since the
last grant was told to come back. The shared bucket expires a TTL after its last count and starts full
again; `Excess` is the most that this adds to what refilling would have given. With the code's two
minutes and floor of five tokens it is nothing, except for limits of one or two requests per minute.

### Startup

`proc[p].pc` is the await a process is at: `schema`/`create` in `create_schema`; `seed`, then `insert` or
`update` for every entry that needs one, then `commit` in `seed_tenants`; `index`, `create_index`,
`alias`, `put_alias` in `ensure_index`; `connect`; `up`. Workers begin with the index. A replica ends
when Postgres fails it and goes on when the cluster or the broker does; a worker ends at any failure.

The seeding session flushes a tenant before it reads the next, so `proc[p].tx` holds the keys written so far;
`registry` has what is committed. A flush waits while another transaction has written the row or the key
(`Blocked`), fails if the row was inserted meanwhile or the key is another tenant's (`Violates`), and
may be ended as the victim of a deadlock (`SeedAbort`: allowed whenever it waits, which is more than
Postgres does). `Committed` is the effect of INSERT with the default status and UPDATE of one column.

A tenant is listed once in a configuration (`RegistryAssumption`): a read looks at the table and not at
what its own transaction wrote for the same tenant.

`proc[p].conn` is what the publisher holds: `half` is a connection whose topology was not declared, after
which `_exchange` is still `None` and `publish` connects again. `Verdict` and `Ready` are the
endpoints; they are operators of the state and not actions, since they change nothing.

### RequestPath

A request chooses its key when it arrives and its target when it is admitted, because nothing reads the
target before. What it no longer needs is forgotten, which keeps the states few. Time is only kept as
differences: `left` is the rest of an entry's TTL, `wait` how long a store has been under way, and
`stale`, a history, for how long the credential's tenant has not been the active owner of its key. The
search and document caches are sets of entries that may miss at any time; Postgres may fail an
authentication or a GET (500). The route's literal bounds (422 above page 1000 or size 50) are not
repeated: the clamps are checked for any page and size. The details of
invalidation, single flight and deletion are in `SearchCache` and `DocumentCache`, and what the limiter
decides is in `RateLimiter`.

The corpus does not change here, so that two pages can be compared; ranking is a constant sequence that
lists a document once. A tenant's hits are the positions of its documents in it, and a page is the hits
whose rank among them lies between two offsets.

## 3. Runs

| Run | Instance | Shows |
|---|---|---|
| `pipeline_races` | 1 document, 2 requests, 2 workers, 2 messages alive, 2 failures | no removal without somebody who will do it, unless its event was lost or dead-lettered; no invalidation without a message that will try it, unless a worker's INCR has failed or the message was dead-lettered; "indexed" means present; removed entries stay removed; rows move forward; `DocLifecycle` is implemented |
| `pipeline_batch` | 2 documents (one refused by the cluster), 1 worker, batches of 2, foreign messages, 1 failure | removals, invalidations (with the same exceptions) and "indexed" under partial answers, duplicates and poison messages |
| `pipeline_liveness` | 2 documents (one refused by the cluster and never deleted), 1 request at a time, 1 worker, 1 message alive, a sweep of 1, 2 failures, fairness | stored documents are resolved unless an older refused one fills the sweep; deleted ones are removed unless their event was lost or dead-lettered |
| `breaker` | 3 overlapping calls, threshold 2, 2 attempts, fairness | count and state agree; recovery |
| `search_cache` | 3 searches in 2 processes, 1 write, 1 API bump, all failures, fairness | settled writes are seen; one leader; searches end |
| `document_cache` | 2 GETs, 2 DELETEs, all Redis failures, fairness | deleted entries are excused, and leave |
| `rate_limiter` | shared and one local bucket, burst 3, 5 ticks, expiry before an empty bucket is full | quota in every window, with the excess of its expiries; `retry_after` |
| `startup` | 2 replicas, 1 worker, 2 tenants, a rollout that gives one tenant a new key and its old key to the other, 1 crash, outage or disabled tenant, fairness | workers consume behind the alias; ready means provisioned; `TenantRegistry` is implemented; the last configuration wins; the fleet recovers |
| `request_path` | 2 requests, 2 tenants, 2 keys, TTL 2, stores that take up to 1, pages of 2 in a window of 5 | answers stay in the tenant; revocation is bounded; pages partition the hits and stay in the window |

Runs that are expected to fail check what the repository says against what the code does:

| Run | The repository says | The code |
|---|---|---|
| `delete_lost` | "The reconciler will re-publish." | `find_stale` leaves out deleted rows: a lost delete event leaves the entry searchable |
| `dead_letter_early` | dead-lettered after `max_index_attempts`, counted from `x-death` | a retry leaves two counts, so 3 means 2 attempts |
| `search_refresh_lag` | staleness is bounded by indexing lag, not by the TTL | the bump precedes the refresh, and a search in between pins the old result |

Observations without a run of their own:

* With as many refused documents at the head of `find_stale`'s order as its limit, younger documents whose
  event was lost starve. `PendingIsResolved` excepts exactly these (`Crowded`) and the refused themselves;
  without the exception `pipeline_liveness` would fail.
* A worker's INCR that fails is not tried again: `_invalidate` goes on and the message is acknowledged
  (`processor.py:150`, `cache.py:160`), so the results cached before the change stay reachable until their TTL
  ends or another change moves the generation.
* `search_service.py:44` says of a failed INCR "nothing to invalidate because nothing is cached", but Redis may
  have failed that one call only, and the results are there when it answers again. `cache_keys.py:9` says
  "Superseded keys are never read again"; a search that fails to read the generation, or that comes after
  Redis evicted it, reads those of generation 0 again. These are the excused cases of
  `SettledWritesAreSeen`, which shows that there are no others but the refresh lag. `excused` is one flag
  for the whole behaviour: after the first such failure the property says nothing more.
* `FAILED` is never written (`mark_failed` has no caller). A bulk call that raises sends the malformed ids of
  its batch round the retry loop with the others.
* A GET overtaken by a DELETE puts the document back into the cache, where later GETs find it until its
  TTL ends, although `document_service.py:101` says "so the API never serves a deleted document from
  cache". `DeletedEntryIsExcused` shows that this and a refused drop are the only ways.
* A late success closes an open circuit without a trial. A tenant limited to one or two requests per
  minute gets a full bucket back when the shared one expires, which `QuotaHolds` counts as `Excess`.
* `REVIEWER_NOTES.md:33` says a revoked key works for up to 60 seconds; `RevocationBounded` adds the time
  that a store of the credential may take to reach Redis.
* A configuration that gives a key to a tenant listed before its present owner, or swaps two keys, ends
  every start-up with a unique violation. Likewise a replica with the old configuration, restarted after
  the key has moved, ends until it is deployed.
* `/health` says `rabbitmq` is down after a start without the broker until a write connects, and up
  as long as the connection object was not closed, in an outage too. A replica that started while the
  cluster was away is healthy without having bootstrapped the index; it relies on the workers for it.
* A page beyond the window is answered with the last page inside it. `cache_keys.py:3` says that every key
  begins with the tenant; those of credentials and rate limits do not, and need not.

**Bounds.** Races need two actors and one document: two requests cover create against delete and
delete against delete, two workers every stale read. Two messages alive at a time let an index and a
delete event, or a message and its duplicate, overlap. Two failures combine, for instance, a bulk call
that raises with a crash or a lost publish. Two documents are what partial answers and tenants with
several changes need. Three searches are one to lead, one to join and one to come later, in another
process or the same. Two replicas are what a race for a row, a table or the index takes, one of them
with the old configuration; a worker adds the process that does not tolerate a failure. Two requests are
one to fill a cache and one to hit it, or to coalesce; a window of 5 with pages of 2 has a last page that
the limit cuts off. The liveness run needs its second document to fill the sweep, and affords it with one
message alive and batches of one; mixed batches are in `pipeline_batch`. Its clients do not delete the
refused document (`KeepsRefused`), which would only free the sweep. The limiter's five ticks hold two
expiries in a window. The clocks and counters that grow are bounded by `MaxFaults`, `MaxWrites`,
`MaxBumps`, `MaxTime`, `MaxEntries`, and the broker by `MsgIds`; symmetry is used in runs without
liveness only.

**Fairness.** Started requests, flushes and sweeps go on (event loops run and calls time out); the
retry queue's TTL and the clock pass; a message in the main queue is eventually delivered (FIFO). Strong
fairness of `RequestStep` and `ReconcilerStep` is needed because a publish in the model waits for one
of the bounded slots. `CrowdedSpec` restricts what clients do and not what is fair. No failure, no client and no late bulk item is fair. The breaker's recovery
assumes traffic, since only calls move it, and that not every search is cancelled. In
`Startup` processes run and are restarted (`restart: unless-stopped` in `docker-compose.yml`), outages end,
the rollout reaches every replica and clients write; weak fairness is enough, and crashes and the loser of a
race are not fair. Deadlock is not checked where all requests may simply be done.

## 4. Proofs

Every invariant, action property and refinement that a passing run checks is also proved, for every value of the
constants that the named assumptions allow. TLC evaluates the assumptions in every run, and has checked
every inductive invariant below on the instances of section 3 before it was proved. Each module of
proofs goes the same way: lemmas about operators and records, one lemma per action or group of actions
that keeps the inductive invariant, `Spec => []Inv`, and the properties as consequences.

**`IndexingPipelineProofs`**, for every set of documents, requests, workers and messages, every batch size,
limit and number of failures:

* `TypeCorrect`: `Spec => []TypeOK`.
* `VersionsHold`: the inductive invariant `VInv`, from which the rest follows. None of the properties
  is inductive: whether an entry may be shown depends on operations that workers or the network still
  hold. `Versions` says what each version in flight means: rows are at 1 (stored) or 2 (deleted), a
  request about to delete has read version 1 and commits 2, every operation and late item is an index of
  version 1 or a delete of version 2 that the row justifies, entries agree with their version, and
  whatever a worker is about to mark has an entry at least as new. `Fresh` says that a worker that
  collects has no outcome of an earlier batch.
* `IndexedMeansPresentHolds`, `RowsMoveForwardHolds`, `NoResurrectionHolds` from `VInv`.
* `LifecycleImplemented`: every step inserts, deletes or confirms rows, or moves entries to newer
  versions, or is invisible (`StepKinds`); each kind is a step of `DocLifecycle`.

**`PipelineOwnerProofs`** adds `DeletedEntryHasOwnerHolds` and `OwedBumpHasOwnerHolds`, from `OwnerInv`, with the
exceptions of the properties: a removal whose event was lost or dead-lettered, and an invalidation whose INCR
failed in a worker or whose message was dead-lettered. The
properties speak of entries, and that is not enough: a worker that lost its messages goes on with its
bulk call, another worker may settle them meanwhile, and an item of a call that raised, or of an attempt
before the one that was answered, may arrive at any time. `OwnerInv` therefore says of every *operation in flight* that would still change its entry
that some message *carries* its version: nobody has read the row for it yet, or it is going to the retry
queue, or its worker waits for an operation at least as new. `CarriedStep` shows that a message carries a
version until the index has it; it rests on `MessageKept` (no step drops a message that is not finished
with) and on `ReadIsCurrent` (a row read later is as new as every operation read earlier). A deletion that
the index lacks is the case of version 2. When an operation shows or hides an entry, its carrier becomes
the message that announces the change, and `Answered` (every operation is done or failed once there is an
answer) keeps it until the bump.

These two modules assume `Tombstones`, except for `TypeCorrect`.

**`SearchCacheProofs`**, for any number of searches, processes, writes and bumps and any set of calls that
fail: `OneLeaderHolds` from `FlightInv` (who leads is registered under its generation, who is registered
leads, who waits follows a search of its generation), `SettledWritesAreSeenHolds` from `Fresh`: unless
excused, what is stored under the present generation, or about to be, reflects all that is settled, and
what a search can still be given under the generation it has read, however old that is by now, reflects at
least what the search is owed.

**`DocumentCacheProofs`**, for any number of GETs and DELETEs: `DeletedEntryIsExcusedHolds`, from what a
committed, an answered and a settled delete say of the row, the entry and the GETs that began after it.

**`RateLimiterProofs`**, for any number of processes, limit, burst, length of a minute and time of expiry:
`QuotaHoldsAlways` and `RetryAfterIsEnoughHolds`. Both invariants are about what a bucket would hold if it
were counted now (`Refill`): grants since a time plus `Refill` never exceed a burst plus the refills
since plus the excess of the expiries up to the last count (`Spent`, `Allowed`), and a promise not yet due
is covered by `Refill` plus the refills until then (`Promised`). A refusal leaves `Refill` alone. An expiry
raises it by at most `Excess` (`ExpiredLacks`) and comes a whole TTL after the last count, so a window
that reaches to it holds one more TTL than it did up to that count: this is why `Spent` counts expiries
up to `Last` and not up to now.

**`StartupProofs`**, for any number of replicas, workers, tenants and versions of the configuration:
`ConsumingMeansAliasHolds`, `ReadyMeansProvisionedHolds`, and the refinement `StartupImplementsRegistry`.
The invariant relates each process's position to what must exist by then, and the open transactions to
each other: they write different rows and different keys (`Isolated`), and the table as each of them
would leave it has unique keys (`AllUnique`). The second is not inductive without the first, since a commit
changes the table under every other transaction.

**`RequestPathProofs`**, for any number of requests, tenants, keys and documents, every ranking, TTL, latency
and limit of pages: `AnswersStayInTenantHolds` (every cached result is rightful for the tenant in its key,
and so is what a request takes from another's future), `RevocationBoundedHolds` (from
`left + stale <= TTL + Latency` for every cached credential), `PagesPartitionHolds` and
`WindowWithinLimitHolds` (division lemmas about the clamped page and the last page inside the window).

**`CircuitBreakerProofs`**, for any number of callers, threshold and attempts: `ClosedBelowThresholdHolds`,
inductive as it stands together with the type invariant.

Type correctness of every module is proved as well.

**Only model-checked.** Everything that must eventually happen (`PendingIsResolved`, `DeletedIsRemoved`,
the recovery of the breaker, the end of searches, the departure of cached entries, the start-up of the fleet):
liveness under fairness and `ENABLED` are out of this prover's reach. Sums and other recursive definitions
would be too, because induction over data is; the models of this project avoid them. The three runs that
expect a violation are counterexamples, which need no proof.

## 5. Plan

1. Done: all modules of section 2, their runs, and the proofs of every invariant, action property and
   refinement of the passing runs.
2. Left: theorems about operators that further changes of the models would need first (`FindStale`,
   `Verdict` of the health endpoint); safety halves of the liveness properties, such
   as a rank that no step but a failure increases.

Not modelled, and not planned: ranking, fuzziness, highlights and facets (data without state, and out of
TLC's reach as text); parsing, validation and error envelopes (no state that another request sees); logging
and metrics (output); scripts (clients); delays of the backoff; connection pools; the linger deadline of a
batch (a flush may come at any time, which includes when it comes); and the test doubles except for the
versioning of the in-memory engine.
