# TLA+ models and proofs of llm_gateway

llm_gateway is a single-process Rust gateway between LLM clients and upstream
providers. It authenticates a request, limits it, checks a quota, picks a chain of
providers, forwards the request to them one after the other, streams the answer
back and accounts for it in PostgreSQL. Configuration lives in the database and is
reloaded into memory while requests run. This directory holds TLA+ modules for the
parts whose correctness depends on order and concurrency, the TLC runs that check
them on small instances, and TLAPS proofs for every size.

File names below are relative to `src/src/` of the repository.

## 1. Inventory

| Component | State it keeps | Operations | What is hard |
|---|---|---|---|
| Circuit breaker, `service/breaker.rs` | one `ProviderBreaker` per provider, in one mutex | `allow`, `filter_candidates`, `record_success`, `record_failure` | `allow` changes state; results arrive late and from requests that hold no slot |
| Fail-over, `service/proxy.rs` `proxy_authed` | per request: candidates, position, marks of failed attempts | filter, fall-back, two candidate loops, their tails | the breaker moves between filter and attempt; clients leave while an attempt waits |
| Admission, `service/proxy.rs` `proxy`, `service/ratelimit.rs` | active count, active per user and model, concurrency buckets | enter, match rules, `try_acquire`, guards and their drops | guards outlive the handler; rules change while slots are held |
| Hot reload, `state.rs` | one lock per configuration section | `reload`, the periodic task, every admin write | overlapping reloads, failing sections, dropped handlers |
| Quota, `service/plans.rs`, `service/usage.rs` | usage cache, counters in the database | `check_plan`, `incr_plan`, `reload_from_db` | the cache follows the database through two unsynchronised paths and across period boundaries |
| Alerts, `service/notify.rs` | set of alerts seen, table `plan_alerts` | `check_and_dispatch`, `dispatch` | a mark is set before the work is done; the work may fail |
| Accounting, `service/proxy.rs` `wrap_stream`, `store/usage.rs` | flag per response, `usage_logs`, `usage_daily`, watermark | record, commit, aggregate | three places want to record one response; ids and commits are in different orders |
| Routing and access, `service/routing.rs` | none (reads sections) | pure functions | pattern and rule precedence; no rules means no limits |
| Catalogue, `api/admin_config.rs`, `store/config.rs` | providers, routes, model library, access, rules, prices, settings | create, update, delete, refresh a library | transactions that overlap, reloads between their steps, settings written to memory directly |
| Console sessions, `service/console.rs`, `store/tokens.rs` | refresh tokens, `token_version`, users, keys | login, refresh, logout, forced logout, account changes | row locks in opposite orders, stale user rows |
| Login limiter, `service/ratelimit.rs` | buckets per name and address | take, refill, evict | eviction gives bursts back |
| Plans and groups, `api/plans.rs`, `store/plans.rs`, `store/groups.rs` | plans, members, groups, runtimes in memory | create, edit, add, remove, synchronise, `my_plan` | overlapping inserts, a sync against edits by hand, periods |
| Responses history, `service/responses/history.rs` | LRU of outputs | record, restore | eviction under live references |
| Stream limits, `service/proxy.rs` 32-207 | timers of one stream | first-byte and idle limits, pings | timer against frame |
| Protocol conversion, `service/responses/`, `service/anthropic/` | one state machine per stream | convert requests, answers, events | event order, fragments of tool calls, truncated streams |
| Rectification, `service/rectify.rs` | none | repair a refused request | one more send, past the breaker |
| Health, status, reports, crypto, start-up, web | little or none | queries, I/O | – |

How they interact: `proxy` (Admission) reads the sections that `reload` (Config)
replaces, then calls `proxy_authed`, which asks Quota, walks the chain with the
Breaker (Failover), and ends in the accounting (Ledger), whose commit moves the
quota's counters. Quota's cache is reloaded by the task that reloads Config.
Relay is what happens behind one streamed request: priming and fail-over, conversion,
billing, and the history that the next turn of the conversation reads. Catalog and
Plans are the handlers behind the sections that `reload` reads; Sessions decides who
may call them.
`PROJECT.json` lists every component, every hazard with its line, and the property
that covers it or the reason why none does yet.

What makes each component correct, in a sentence: the breaker lets one probe
through per elapsed window and never wedges; fail-over respects the breaker, tries
each provider at most once and cannot lock the service up; the counts of admission
are exact and its limits hold; memory converges to the database; a used-up quota is
noticed and only a used-up quota blocks; an alert is never silenced; every response
is handed to the accounting once and every row aggregated once; a converted stream
is well formed, complete and honest about its end; a refresh token has one successor
and an ended session stays ended; a membership entered by hand survives the directory
and the directory reaches the plans; a user uses only what he was granted.

## 2. Modules

| Module | Models | Built on |
|---|---|---|
| `CircuitBreaker` | the abstract life cycle of a breaker | |
| `Breaker` | `service/breaker.rs` | refines `CircuitBreaker` |
| `Failover` | candidate loop of `service/proxy.rs` | extends `Breaker` |
| `Config` | `reload` over opaque sections | |
| `Admission` | `proxy`, guards, `service/ratelimit.rs` | extends `Config` |
| `Quota` | quota check, cache, counters, alerts | |
| `Ledger` | stream billing, `record_usage`, `aggregate_daily` | |
| `InlineThink`, `ChatChunk` | the think-block splitter; chunks and their parser | |
| `ResponsesStream`, `AnthropicStream` | the two converters as functions of their state | the two above |
| `History` | `service/responses/history.rs` | |
| `Relay` | priming, time limits, conversion, billing and keep-alive of one stream | extends converters and `History` |
| `LoginLimiter` | the token bucket of `service/ratelimit.rs` | |
| `Sessions` | `service/console.rs`, `api/console.rs`, users, tokens, keys | extends `LoginLimiter` |
| `PlanRules` | plan selection, scopes and periods of `store/plans.rs` | |
| `Plans` | `api/plans.rs`, groups and their synchronisation | extends `PlanRules` |
| `Routing` | `service/routing.rs` | |
| `Catalog` | `api/admin_config.rs`, `store/config.rs`, access rules and rights of users, `reload` with contents | extends `Routing` |
| `FailoverProofs` (with `Breaker`), `AdmissionProofs`, `QuotaProofs`, `LedgerProofs`, `SessionsProofs`, `PlansProofs`, `CatalogProofs`, `RelayProofs` | theorems | the modules they are named after |
| `MC...` and `.cfg` | instances for TLC | |

Definitions called `Mut...` are deliberately wrong variants of the definition below
them: with a variant in its place, the property named in `PROJECT.json` must fail.

### Breaker

One record per provider with the fields of `ProviderBreaker`. An instant is reduced
to what the code compares it with: `open_until` is absent, in the future or reached;
`window_start` is absent, recent or old. `OpenElapses` and `WindowElapses` are the
clock. Each method is one action, because each is one critical section. The methods
are functions of one entry (`AfterAllow`, `AfterSuccess`, `AfterFailure`), so that
the proofs are about one entry. The error rate is a fraction, compared by
cross-multiplication. `MaxWindow` bounds the results counted in one window.

### Failover

`req[r]` is the local state of a handler. `Filter` is one element of
`filter_candidates` (one lock acquisition each) and the last one decides about the
fall-back; `Skip` and `Attempt` are the second question to the breaker inside the
loop; an attempt is one wait that ends in `KeyFails`, `SendFails`, `StatusFails`,
`StreamFails`, `BodyFails`, `AttemptSucceeds`, `PreRead` (a refusal that no repair
cures is the answer), `BuildRejected` (`build_outbound` returns an error out of the
handler) or `Disconnect`. `Rectify` is the repaired request of `send_with_rectify`: to
the same provider, once, without another question to the breaker. What failed attempts
leave for the tail is a mark ordered by the strength the tail gives it: upstream reply,
timeout, connection error, nothing. Between the waits the handler has no suspension
point, so a client cannot leave there. Status codes, headers and bodies are reduced to
which of these ways they lead to; `Relay` opens the priming window.

### Config and Admission

`Config` has the database, the copy in memory and one record per running reload.
A reload reads a section (`Load`) and writes it (`Apply`) in two steps, or fails to
read it (`LoadFails`) and goes on; an admin handler writes the database (`Edit`),
then reloads, and is dropped when its connection closes (`Cancel`). One edit changes
one section. Contents are opaque.

`Admission` adds requests that read `mem["rules"]`. The stages are the code's: the
active count, authentication, endpoint switch and parsing, rule matching (`Match`),
`try_acquire` under the limiter's lock, `UserActiveGuard`, the pipeline, the body
the guards were moved into, and the drops in field order. An absent map entry and a
count of zero are the same. `proxy_test` is counted as active and limited by nothing.

### Quota

One user and one plan. `Admit`/`Block` are `check_plan`; the billing period is fixed
later (`Bill`), the counters are committed (`Commit`), then the cache follows
(`Incr`), then the alerts (`After`). A reload is `LoadSnapshots` and
`ApplySnapshots`. `Abandon` covers everything that ends a request without its
increment, a handler dropped after the commit included. `Restart` keeps only the
database. The README of the repository (line 257) documents single-instance
semantics, which is why there is one cache.

### Ledger

A stream is open until it is dropped. `Finish` is the terminal event or the end of
the upstream: it sets the flag and awaits the record inside the stream, which stays
suspended; `Drop` loses a pending record or spawns one. A record inserts (takes its
id) and commits in two steps, as concurrent transactions do. Aggregators lock the
watermark row, run one statement on one snapshot, and commit. Test calls, which are
recorded nowhere, are left out.

### Relay, the converters and History

The upstream is a sequence of reads, each a list of parsed SSE events (`ChatChunk`);
text is a sequence of symbols, among them the halves of the think tags, so that a read
can end inside a tag. `InlineThink`, `ResponsesStream` and `AnthropicStream` are the
code's state machines as functions from state and chunk to state; the emitted events
collect in `out` as kind, item and data. One `Relay` action is one poll: `Arrive`,
`Close`, `Expire` and `Leave` only make something ready, and the polling actions take
it in the order of `StreamTimeoutStream::poll_next` (timer before bytes). The body of a
converted stream, its chained tail and the drop of the stream all want to end and to
bill it; the flags `finished` and `recorded` are those of `ConvertCtx`. A request of a
link with `others > 0` refers to an earlier answer: `Build` restores it for every
candidate anew, while `OtherRecords` and `OtherRestores` are the rest of the traffic.
The symbol `_` stands for white space: both converters trim every delta of a refusal
(`Trim`), so of a refusal that comes in several deltas the spaces between them are lost;
`ContentConserved` expects the refusal as the code passes it on.
Text inside JSON, usage numbers and error texts are left out. The upstream is assumed
to send nothing after `[DONE]`, only its finish again after a `finish_reason`, one name
per call, and not both content and a refusal.

### Sessions and LoginLimiter

A request is a process; a step is one SQL statement or one call outside. `token_lock`
and `user_lock` are row locks, taken as PostgreSQL takes them at READ COMMITTED: a
statement that meets a locked row waits and then looks again, and of a cycle of
waiters one is aborted. The users there are, the built-in administrator among them, are
given: `create_user` and the creation of a directory user at his first login are left
out here. `token_lock` is kept per transaction, because a forced logout
gathers the rows of a user one after the other. Disabling a user is two statements of
their own in the code (the status, then the tokens); when another administrator enables
him between the two, the tokens that are left are revoked nevertheless, but a refresh
that starts in between is one the later administrator allowed: `Overtake` records that
the disabling no longer speaks for those logins. A dropped request rolls back. The limiter counts in whole
tokens per tick (the code in fractions per second) and evicts as the code does: idle
buckets first, then all.

### PlanRules and Plans

`PlanRules` has pure functions: which patterns cover a model, which plan applies
(`resolve_plan`), where a period starts and ends. Time is in hours from an origin, the
lengths of day and months are constants. `Plans` has the tables `plans`, `groups`,
`members`, direct users and groups of plans, the runtimes in memory and one process per
request, plus the sync task, the reload task and a user who asks `my_plan`. An insert of
several rows takes one step for each, in the order the code gives them: listed ids
sorted, the enabled users in any order a scan may have, directory entries as they were
listed. A row of an open transaction is waited for (`Holds`, `HoldsMember`), and one of
those that wait in a circle is aborted (`DeadlockAborts`); `now()` of a row is its
transaction's start (`began`). DELETEs and cascades of several rows are one step, so
circles that need two of them are not shown. A plan whose stored scope does not parse is
in the tables and never among the candidates (`Loads`). `RequestFields` is what each
handler reads from its request; `SYNC_LOCK` is fair as tokio's mutex is.

### Routing and Catalog

`Routing` has `matches_pattern`, `resolve_route` and `user_can_use` over the loaded
sections. `Catalog` has the tables, every create, update and delete,
`refresh_models` as a transaction per provider, and the reload after each write. Of a
field that is validated only matters whether it is taken: `Refused` stands for every
value that is not, and the `validate_...` say which handler looks at which fields. Access
rules are rows with an identity: the DELETE of a replacement sees the rows of its
snapshot (`SeeAccess`), waits for their locks (`ClearAccess`) and leaves what another
replacement has inserted meanwhile, so two replacements that overlap can leave the union
of both. Administrators are rows of `users`, changed by administrators and by logins
through the directory, and memory knows them through the section `admin_ids`. Two merges
of statements are harmless: `PruneModels` deletes and reads the enabled patterns in one
step (nothing it deletes is a pattern), `ClaimRoutes` updates and deletes the routes of a
provider in one (both lock the same rows). Its invariants are about the tables, what
memory makes of them, and what the proxy would then do.

## 3. Runs

| Run | Instance | Shows |
|---|---|---|
| `failover` | 2 providers, 2 requests, one streaming, one repairable, 2 attempts | no provider tried twice; an open provider gets a new attempt only from a handler without a choice; no permanent outage; the breaker's counters in range, its slot taken only in a reached window, `CircuitBreaker` refined |
| `config` | 9 scenes of `Catalog`, each about one part of the configuration, 2 administrators and the periodic task | memory converges; a disabled model stays disabled; listed models can be routed; only what was granted is used |
| `admission` | 3 requests (symmetric), 1 user with a key and anonymous, 2 rule sets | counts exact, limits respected |
| `quota` | 2 requests, 2 periods, limit 5, 4 tokens each | no alert silenced, used-up quota noticed |
| `ledger` | 2 streams, 1 plain request, 2 aggregators | handed over once, aggregated once, every closed response settled |
| `streams` | 10 links: think blocks, parallel and index-less tool calls, ends and failures, a conversation's next turn, pass-through | events bracketed, one end, content and tool calls whole, end honest, one bill, history right, pings between lines |
| `sessions` | 5 desks: a shared session, status changes, disabling against enabling, limited logins against a directory, keys | one active token per login, ended stays ended, guesses bounded, built-in administrator kept, every request answered |
| `plans` | 9 offices: overlapping additions to a plan and to a group, `my_plan`, the calendar; syncs against a changing directory, against additions of the same rows, additions against each other, edits by hand, two groups | writes whole or nothing, listed additions wait in no circle, `my_plan` honest, periods tile, members by hand stay, the directory reaches the plans, everybody answered |
| `attemptless_failure` | as `failover`, one request | violated: see below |
| `early_block` | as `quota` | violated |
| `missed_row` | as `ledger` | violated |
| `failed_recorded` | one link of `streams` | violated |

Bounds. `failover` needs two providers and two requests: a trip by one handler between
the filter and the turn of the other, and both providers half-open at once; results then
reach a breaker in every phase, with and without its slot. It sets `FailureThreshold` and
`MaxWindow` to 1, so each failure trips and the error-rate trip adds no states; that the
breaker's part holds for larger thresholds, where both trips happen separately, is shown
by `BreakerTypes`, `BreakerSafe` and `BreakerRefines`, for every one of them. In
`admission` three requests overfill a limit of two, two of them a limit of one,
while `Strict` puts two rules into one bucket; the endpoint switch stays on, since a
switched-off endpoint only adds refusals, which `Refuse` allows anyway. In `quota`
one request reaches 80% of the limit and two exceed it, and the second period lets
late requests and stale snapshots cross the boundary. In `ledger` every request
records at most once, which bounds the ids by itself.

In `failover` the streaming request is not the repairable one, which keeps the run
short; a resend changes neither the breaker nor the loop. The links of `streams` bring
up to four reads, enough to open, cut and close a think block, or to interleave two
calls with reasoning; two candidates let priming fail once and commit once; three other
answers against a history of two evict the earlier one, once and after a restore. The
desks, offices and scenes (`MCSessions`, `MCPlans`, `MCConfig`) each put two or three
processes around one set of rows: a table that a request does not touch cannot
influence it, and one run over everything would not add an interleaving. Two
administrators are needed for each overlap, a third adds none that a second request of
the same one does not give. Days of four hours and months of unequal length make every
boundary of `PeriodsTile` happen within eight hours. Two ids in
opposite orders are enough for a circle of inserts. The numbers of faults bound failing
statements and dropped requests. The largest run, `failover`, has 718,088 states and
takes less than four minutes.

Fairness. Handlers run and their waits end, because every wait of an attempt has a
deadline (header, first-byte, idle and client time limits); that is weak fairness of
`Handle` and `Settle`. The clock advances. `LoadedSpec` adds clients that keep
coming, without which nobody is there to be served. The periodic task of `Catalog`
wakes up, and what it waits for comes as success or failure; `SectionsConverge` is
conditional on the section being readable from some point on. In `Quota` requests
end, alert tasks end either way, and the reload's query succeeds again and again;
`UsedUpIsNoticed` is conditional on the period lasting and the process staying up. In
`Sessions` and `Plans` a request that can go on does (the database answers, and aborts
one of a cycle of waiters); waiting for `SYNC_LOCK` is strongly fair because the mutex
is a queue; the sync and reload tasks run again and again, and `faults` bounds how often
they fail. `Relay` has no fairness: its properties are invariants.
In `Ledger` only the database is fair: a begun record ends in a commit or a failure.
No fairness is assumed of clients, upstream success, alerts succeeding or
aggregators. Deadlock is checked except in the runs of `Relay`, `Sessions` and `Plans`,
where the requests end and nothing follows.

### Disagreements between code and comments

1. `attemptless_failure`. `filter_candidates` takes the half-open slot of every
   granted candidate, and the loop (`service/proxy.rs` 1123, 1685) asks again and is
   refused by its own slots. With more than one candidate and all of them half-open
   the request fails with 503 and no attempt. The comments at `service/proxy.rs`
   921-923 and `service/breaker.rs` 6-7 promise the opposite. `NoPermanentOutage`
   holds nevertheless: the next request is refused everywhere, falls back to the full
   chain and frees the slots.
2. `early_block`. A reload whose snapshot falls between the commit and `incr_plan`
   counts a request twice, and nothing lowers the cache within the period.
3. `missed_row`. A transaction with a lower id that commits after the aggregation's
   snapshot is below the watermark for ever; the comment at `store/usage.rs` 234-237
   says that this was repaired.
4. `failed_recorded`. A Responses stream that breaks off after output ends as failed and
   is recorded nevertheless, because `snapshot_from_events_typed`
   (`service/responses/history.rs` 136-144) does not look at the status; lines 16 and 116
   there and `service/responses/stream.rs` 1534-1535 and 1571-1572 say that failed
   answers are not recorded. What is recorded is what the client got
   (`SnapshotIsTheAnswer`).

Observations without a run: `meta.provider_id` is set before the breaker is asked
(1121, 1683), so the tail may bill a provider that was skipped; a stale reload can
undo an admin's change in memory until the next one, although
`api/admin_config.rs` 2 says that changes apply at once; line 258 of the repository's
README says that no usage is lost while PostgreSQL is down, `service/usage.rs` 141
logs and goes on; a bill of the old period that arrives late replaces the cache entry
of the new one until the next reload; `record_success` without the slot keeps the
probe successes counted so far.

Met while modelling the rest, each allowed by its module and left without a run:

- Streams. A synthesized Responses stream is not recorded in the history at all. A named
  tool call that never gets an id is closed with index -1 and was never opened. A later
  candidate restores the earlier answer again and can be refused it with 400, although
  the first one had it. A resend does not ask the breaker, which another request may
  have tripped meanwhile.
- Sessions. A login that verified its password before a forced logout inserts its token
  afterwards; a logout that overlaps a refresh leaves the successor active; after
  disabling and enabling, old access tokens are accepted again until they expire.
  `create_key` counts and inserts in two statements, so overlapping requests pass the
  "max 10 active keys per user" of `api/console.rs` 279; `SessionsKeysBounded` proves by
  how much.
- Plans. Overlapping PATCHes can leave a downgrade without a target; a directory user
  whose upsert failed loses his membership until the next sync; a manual sync does not
  report failed upserts; `update_group` and the periodic sync do not reload; an addition
  of all users or a sync can wait with another insert in a circle, and one of the two
  fails with the database's error. A listed member whom an administrator removes is back
  after the next sync, although `store/groups.rs` 243 says that additions and removals by
  hand are not affected; `DirectoryReachesPlans` does not demand that he comes back. The
  member of a plan whose stored scope does not parse (`store/plans.rs` 588-601) is told
  that he is in no plan, since `my_plan` gives no reason for such a plan either, which
  `api/plans.rs` 1631-1632 means to avoid; `MyPlanHonest` is about readable scopes. After
  `period_hours` changes from 3 to 4, the old bucket that started at hour 6 is later than
  the present period's, which started at 4, and `ORDER BY period_start DESC` takes it,
  although `store/plans.rs` 1390-1393 says that the latest row stands for the present
  grid; `PeriodsTile` is about the arithmetic and says nothing of rows.
- Catalogue. Deleting a provider cascades to access rules, and a user whose only rules
  these were is unrestricted afterwards; two overlapping replacements of a user's access
  can leave the union; a user who is disabled, or who loses the administrators' group at
  a login, stays in `admin_ids` until the next reload; an error in the reload after a committed write answers 500 and
  skips the audit entry; a future `effective_from` is used at once; a disabled model
  that one listing omits comes back enabled with the next (`DisabledStays` speaks of
  models that stay in the library).

## 4. Proofs

`tlapm` checks them with its SMT, Zenon and LS4 backends; nothing is assumed beyond
the `ASSUME`s of the modules, which state what configuration and database guarantee
and which TLC evaluates on the instances.

The breaker, in `FailoverProofs` (for all `Providers`, thresholds, rates and
`MaxWindow`): `BreakerTypes`, `BreakerSafe`, `BreakerRefines`. `BreakerInv` is inductive together
with the types once it is read per entry: `EntryInv` says that the slot is taken only
in a reached window, that a closed entry is below its threshold, and how the counters
are ordered; `AllowKeeps`, `ClockKeeps`, `SuccessKeeps` and `FailureKeeps` show that
each method keeps it. The refinement maps an entry to its phase and shows, method by
method, that the phase moves along the life cycle or not at all; it needs the slot
discipline, or a success could leave a taken slot behind. Since every finite
behaviour stays below some `MaxWindow`, the bound is not a restriction of the safety
theorems.

`AdmissionProofs` (for all finite `Requests` and all rules): `AdmissionTypes`,
`AdmissionCountsExact`, `AdmissionLimits`. `LimitRespected` is not inductive: a
request compares a count with a limit, so the count must say how many requests are in
the bucket (`CountsExact`), and those requests may have been admitted under other
rules, so what each one holds must be tied to what it read (`Shape`). The invariant is
`TypeOK /\ RightSection /\ Shape /\ CountsExact /\ LimitInv`, where `LimitInv` is
`LimitRespected` for every number. `StrictestKept` (deduplication keeps an entry at
least as strict as every matched rule) rests on the existence of a least number;
`OneMore` turns a step of one request into a cardinality that changes by one.

Fail-over, in `FailoverProofs` (for all chains without repetitions, providers, requests and
`MaxAttempts`): `FailoverNoRepeatedAttempt`, `FailoverOpenProviderProtected`,
`FailoverBreakerSafe`. A request holds three lists, each picked in order from the one
before: its chain, the candidates that were granted, the providers tried. That no two
attempts are equal is not inductive; that the attempts are picked from the candidates
in front of the loop's position, and those from the part of the chain that was
filtered, is (`PickedUpTo`). The action property needs in addition what a handler that
was granted nothing knows. The breaker's invariant is carried over:
every step of a handler is one of the breaker's methods or leaves it alone.

`QuotaProofs` (for every limit, action and number of periods): `QuotaTypes`,
`QuotaAlertNotSilenced`. The mark in `seen` and the dispatch are made in one step;
the invariant is inductive with the types, once dispatches of one alert are counted
and not only present.

`LedgerProofs` (for every finite set of requests and any aggregators): `LedgerTypes`,
`LedgerHandedOverOnce`, `LedgerAggregatedOnce`. `OneCall` says that `recorded` is up
exactly when one of the three places has called `usage::record`, so no second call
follows; `IdsLast` bounds the ids drawn by the requests that have called. `Window` says
that the one aggregator which holds the watermark's row read a watermark that is still
true and adds only rows above it; without the lock in the invariant, `AggregatedOnce`
is not kept by the commit.

`SessionsProofs` (for any users, desks, requests and limiter sizes):
`SessionsOneActiveToken`, `SessionsEndedStaysEnded`, `SessionsProtectedAdminKept`,
`SessionsKeysBounded`, `SessionsGuessesBounded`. The row locks carry the first two: a
refresh that goes on holds its token's row, a rotation and a forced logout both hold
the user's row, and a disabled user starts no rotation, so what a change of the user
ends has no active token outside the rows it holds or still wants (`Covers`). An
attempt at this proof with one lock table for all transactions failed at the enabling
between the two statements of a disabling; the model now shows that overlap, and the
property speaks of it. `KeysBounded` is stated beside its proof: the code's own bound does not
hold, and this one counts the clients that are between the count and the insert. `GuessesBounded` rests on `LimitInv`: tokens left plus guesses made are
covered by the burst and the refill since, evictions included; it needs the assumption
that an idle bucket is full again before it is evicted
(`IdleEvictAfter * UserRate >= UserBurst`), which the code's constants satisfy.

`PlansProofs` (for any users, groups, plans, offices and requests that have the fields
their handlers read): `PlansAllOrNothing`, `PlansHandAddedStay`, `PlansMyPlanHonest`,
`PlansPeriodsTile`. An insert by a sync or an addition to a group takes many steps, and
the theorems hold of every order of them, waits and aborts included.
`Shape` says that a handler is at rest or on its way with the request it began with,
and `Advance` that a step of its own does not change what it asks for; one case per
action. `KeptInv` adds to `HandAddedStay` why the row is safe: it is not the
directory's, and nobody who is under way asks for it to go. `AddInv` says that the rows
a transaction has inserted are neither in the table nor in another transaction; that is
what makes "all rows are mine" at the commit mean "all of them are new". For
`MyPlanHonest` the tables' foreign keys (`References`), finitely many plans with
integer ranks (`PlanRows`), and that a finite set has an unbeaten element
(`Unbeaten`) show that `resolve_plan` finds a plan whenever one applies; a plan that does
not load is not needed for that, one that loads and does not apply is reported. For
`PeriodsTile`, `PeriodsInv` follows what a period is computed from: every stored plan
has a kind of period and at least an hour of it, although a change is checked against
one version of the row and written over another (`Checks`, `RulesStep`: the hours are
normalised with the period the check has seen, and either way they are positive); every
date is past (`Dates`); memory, and what a reload is about to put there, hold nothing
else (`Copies`). The rest is arithmetic (`Stretch`, `NextStretch`, `Months`, `Tiles`),
from `ClockAssumption`: no hour of an instance is after the last month of its calendar.

`CatalogProofs` (for any administrators, scenes, requests and listings):
`CatalogOnlyGranted`, `CatalogDisabledStays`, `CatalogListedIsRouted`. The assumptions
say that the tables start with rows that have their columns and ids below the next one,
that a provider's model has one row (the table's unique key), that a request has the
fields its body type demands, and that a provider answers with a list of models or not
at all. None of the three is inductive, because a refresh of the library decides many
statements before it commits. `CInv` says for every open transaction what is still true
of it: the rows it deletes are not of listed models and keep their ids; the models it
inserts are in no other transaction and not in the table; the routes it takes again are
there and locked by it; every listed model is still to come or has its route (`Txn`),
and no two transactions hold one row (`Apart`). `Keeps` is the other side, what a step
may do to the tables while others are open: it changes no held route and adds a model
only under a new id that nobody else is inserting. One lemma per operation shows both.
`Safe` says that the rules in the table, in memory and in the hands of a reload were in
force at some time, and that each of the three has some for every user who was never
freed of them; the second half is what makes an empty set of rules mean "unrestricted"
harmless. The administrators in the table, in memory and in the hands of a reload are
among those who are unbound. A replacement deletes only rows its snapshot saw and puts
its own in their place, so whatever overlaps, the last to commit leaves some. Two
attempts failed for good reasons and corrected the model: the ids of new rows started
one too high, so that the last of them was given out twice, and an insert did not wait
for a row that another transaction was deleting, which PostgreSQL does.

`RelayProofs` (for every upstream, number of candidates and size of the history):
`RelayBilledOnce`, `RelayPingsBetweenLines`, `RelayContextKept`, `RelayOneEnd`,
`RelayHonestEnd`. The first two follow
the flags of the stream. For the third, `HistoryInv` says that order and map have the
same ids, each once and no more than `MaxEntries`, and that as many distinct answers as
stand behind the earlier one in the order were used after it; the earlier one is
evicted only when that makes `MaxEntries` of them. `EarlierAssumption` says that the
earlier answer was one `record` accepts.

The last two are about what the converters put into the stream, however many reads,
chunks, frames and calls there are. Each of these is folded over, and a fold is shown
to be the chain of its steps (`Applied`, `Folds`, `FoldChain` and one lemma per fold);
what every step hands on holds at the end of the chain, because otherwise there would
be a first link where it does not (`Climb`, from the existence of a least number).
`Responding` and `Messaging` say what a converter at work keeps: no end so far, a
finish seen only if one was sent, and, for Anthropic, `has_tool_use` exactly when a tool
block was announced; there is one lemma per method of the two state machines.
`ResponseEnds`, `MessageEnds` and `BrokenEnds` show that whatever closes the stream adds
the one end and what it then says. `EndInv` ties this to the polls. `Intake`: what is
still to be converted was sent, `[DONE]` is the last of it and a failure is never
buffered; without it a replayed read could end the stream and another follow. `Silence`:
after the end no bytes are left, only a timer or the tail. `Output`: the converter is
new until a candidate is chosen, since the next candidate's finish must be the first it
sees, and at work until `finished`. `Honest`: a finished stream saw a finish or `[DONE]`
or says that it came too early. `LinksAssumption` says that a client speaks one of the
three protocols and that frames have the parts the parser fills in; nothing is assumed
about their order or content, and the proofs do not use the restrictions of `Arrive`
other than that nothing is sent after a failure.

Only model-checked: all liveness (`NoPermanentOutage`, `SectionsConverge`,
`UsedUpIsNoticed`, `ClosedIsSettled`, `RequestsAnswered`, `DirectoryReachesPlans`,
`HandlersAnswered`), which is out of this prover's reach, `ListedAddsNeverDeadlock`,
which needs that sorting yields the same order for everybody, an induction over data,
and four properties of converted streams. `ItemsBracketed`, `ContentConserved`,
`ToolsIntact` and `SnapshotIsTheAnswer` do not hold of every upstream, only of the well-behaved ones of
the runs: one that begins with half a think tag, refuses and then finishes makes the
Responses converter flush the half tag into a message it has closed; one that renames a
call after its arguments began to flow has them streamed twice. The theorems would have
to assume a grammar of whole streams, while the runs enumerate streams that obey it.
`Config` stays beside `Catalog` because the proofs of `Admission` need no more of a
section than that it is replaced.

## 5. Plan

Done: every module of section 2; the safety of the breaker, fail-over, admission,
quota alerts, accounting, sessions, plans, catalogue, billing and history proved, and the
ends of converted streams.

Next: the reading of usage numbers out of streams (`feed_sse`, `merge_usage`) and the
price of a request (`compute_cost`) as functions against reference definitions.

Not modelled: the field-by-field JSON conversion of requests and plain answers and the
bodies of repairs (data without control), cryptography, the LDAP and SMTP protocols,
HTTP plumbing, lists and reports (queries without effect), the status page and the web
console (observers).
