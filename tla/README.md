# A verification project for the Zuri learning platform

TLA+ models of the parts of the platform whose correctness depends on the order
of steps: what is shared between requests, goroutines and processes, what
survives a crash, what is tried again. TLC checks the models on small
instances; TLAPS proves the theorems of the `*Proofs` modules for every value of
the constants. Paths are relative to the root of the repository, except that
`event_bus.go`, `hub.go` and the like are named by their last part where the
component is clear.

## 1. The system

Go services (gateway, user, content, analytics, notification, sync) behind one
gateway, two Python services (`ai_service`, `academic_service`), PostgreSQL with
one schema per service, and Redis for everything short-lived. No service uses
transactions across statements, except for SQLAlchemy sessions in the Python
services; services talk over HTTP, and `shared/pkg/events` offers a bus on Redis
Streams.

| Component | State | Operations | What is hard | What makes it correct |
|---|---|---|---|---|
| Event bus, `shared/pkg/events/event_bus.go` | stream, idempotency keys, group cursor, pending entries, retry counters, dead-letter stream | Publish, PublishWithIdempotency, Subscribe, processMessage, routeToDLQ | every Redis command may fail, take effect and lose its answer, or be the last one before a crash; consumers restart | what is acknowledged is settled, but for a dead letter that could not be written; one worker per message; repeated work is paid for by faults; what is published is settled in the end |
| Gateway: client of the AI orchestrator, `clients/python.go`, `circuitbreaker/breaker.go` | circuit state, failure count, time of the last failure | Execute, doWithRetry | state read before an unlocked call, used after it; retries, users who leave | the circuit opens for a reason, stays open for its timeout, closes again |
| Gateway: reverse proxy, `proxy/reverse_proxy.go`, `proxy/circuit_breaker.go` | one breaker per service in an unlocked map | getCircuitBreaker, Execute | first requests race for the map | the same |
| Gateway: admission, `middleware/*.go`, `handlers/ai_handler.go`, `clients/ai_client.go` | blacklist, rate-limit sets, quota counters, deduplication markers, all in Redis | JWT, RateLimit, quota, AIQuota, AIDedup, the AI handlers and the client's retries | check-then-act over several commands; fail-open; a counter whose end is set by a second command; a caller who leaves between mark and answer | limits are exceeded by what overlaps or fails at most; a body is worked on once, and not refused for good |
| Gateway: model calls, `ai/openrouter.go`, `router.go`, `cost_tracker.go`, `cache.go` | a channel and a goroutine per stream; the spend window, four totals, ceilings, kept answers | SelectRoute, Complete, Stream, CheckSpend, RecordUsage, cache Get / Set | chunks and errors dropped at a full channel, bodies that end early; spend checked before and recorded after, under a key that expires; records written one by one | what tells its usage is complete, and a quiet end has one of four causes; a cancelled stream ends; spend stays below the ceiling but for overlap; totals agree |
| User service: sessions and passwords, `user_service.go` | users, refresh_tokens, user_sessions, password_resets; blacklist in Redis | Login, RefreshToken, Logout, ChangePassword, Request/ResetPassword, RevokeSession, SwitchActiveInstitution | no transactions; requests of one user interleave; every statement may fail | a refresh never leaves the user without a token; a change of the password sticks and ends old logins |
| User service: registration, memberships, JWT keys | users, verification codes in the row and in Redis, memberships, jwt_keys; the gateway's public key | Register, VerifyEmail, ResendVerification, AddMembership, loadOrGenerateKeys, loadPublicKey | check-then-insert; a code written twice and mailed; instances starting together, and the gateway between two rows | one account per address; a mailed code works and an old one does not; what is signed can be verified |
| Sync service, `websocket/hub.go` | two maps of clients, a channel per client, connections table, presence | register, unregister, broadcast, read and write pumps, cleanup | four kinds of goroutines close, send on and delete the same things | the hub does not panic; maps, table and presence agree; lost peers are forgotten |
| Notification service, `workers/worker.go`, `handlers/handlers.go` | queue and reminders tables | ticks of the worker, reminders and notifications created, cancelled | crashes and failed statements between sending, marking and scheduling | no reminder is lost or sent twice without a fault; a cancellation sticks |
| AI service: jobs, `ai_service/jobs` | a row in PostgreSQL, a hash and a list entry in Redis | enqueue, cancel, the worker thread | cancellation against a running job; BRPOP and a crash; row and hash written apart | no job is forgotten; what is shown is what is so |
| AI service: request pipeline, `ai_service/gateway` | quota and rate counters, cache, in-flight futures, breaker | execute_sync, execute_stream | primaries that never broadcast | a request waits only for one that runs |
| Academic service: interventions, `services/proactive_engine.py` | the table proactive_interventions | timeline, dispatch through the governor, dismiss, act | queries and the INSERT of overlapping requests; ids that several students share | pushes stay within cool-off and cap but for overlap; a dismissal sticks and is its student's own |
| Academic service: the rest | concept graph, knowledge state, timetable, imports | one SQLAlchemy session per request | read-modify-write; a graph that must stay acyclic | acyclic graph; mastery and gaps agree |
| Content service, `content_service.go` and its repositories | courses, materials, quizzes, questions, decks, cards | CRUD with checks of the owner, the processing callback, listings | every update saves the whole row it read, with what was preloaded; a set and its items inserted one by one | nothing comes back or changes unasked but by a race; readers see their own; no half-made set without a failure |
| Analytics service, `analytics_service.go` and its repositories | attempts, answers, the study session of the day, goals, on the content service's database | start, answer and complete attempts; goals | status checked and answer inserted apart; counters read, added to and saved | what was completed stays as it was; completions are counted |
| Shared packages, migrations, deployment | none | configuration, logging, schema | – | – |

How they interact: every request passes the gateway's middleware, then the
reverse proxy or a client with its breaker. The user service writes the
blacklist keys that the gateway's middleware reads. The gateway's AI handlers
are to call `ai_service`, whose pipeline the job worker calls too; `cmd/main.go`
mounts only the JWT check, the rate limit with its quota, and the proxy. The
content and analytics services meet in their common tables and foreign keys. The notification
handlers share nothing with the worker but the tables. The event bus is used by
no program of the repository yet; its users will be the services themselves
(`docs/architecture/MIGRATION_PLAN.md`).

`PROJECT.json` lists the components with their status, and the hazards at the
lines where they bite.

## 2. Modules

| Module | Models | Composed of |
|---|---|---|
| `ConsumerGroup` | `Subscribe`, `processMessage`, `routeToDLQ` for several consumers of a group | – |
| `IdempotentPublish` | `Publish` and `PublishWithIdempotency` for several publishers | – |
| `EventBus` | both on one stream, with other writers | the two above (`INSTANCE`) |
| `AtLeastOnce` | abstract: arrive, settle, acknowledge | implemented by `ConsumerGroup` |
| `ClientBreaker` | `breaker.go` with `doWithRetry` of `python.go` | – |
| `ProxyBreaker` | `proxy/circuit_breaker.go` with the map of `reverse_proxy.go` | – |
| `BreakerProtocol` | abstract: what the documents call a circuit breaker | implemented by each breaker of `ProxyBreaker`; by `ClientBreaker` with a proviso |
| `Sessions` | the session half of `user_service.go` | – |
| `Registration` | Register, VerifyEmail, ResendVerification for one address | – |
| `SigningKeys` | key pairs of the instances, the gateway's public key | – |
| `Requests` | HTTP requests as lists of statements | – |
| `ContentStore` | `content_service.go`, repositories, GORM's way of saving | extends `Requests` |
| `Analytics` | `analytics_service.go`, repositories | extends `ContentStore` |
| `Learning` | both services on their common database | extends `Analytics` |
| `ModelCalls` | `router.go`, `openrouter.go` | – |
| `Spending` | `cost_tracker.go`, `cache.go` around a call | extends `ModelCalls` |
| `Admission` | blacklist, rate limit, daily quota | – |
| `Assistance` | `ai_quota.go`, `ai_dedup.go`, `ai_handler.go`, `ai_client.go` | extends `Admission` |
| `AIJobs` | `queue_manager.py`, `worker.py` | – |
| `SyncHub` | `hub.go` and `UpdatePresence` of the sync handlers | – |
| `NotificationWorker` | `worker.go` and the handlers that fill its tables | – |
| `Interventions` | `ProactiveEngine` and `ProactiveGovernor` | – |
| `MCUsers`, `MCWorkers`, `MCEventBus`, `MCGateway` | for TLC, modules or instances that share no state, as parts of one run | extend the modules |
| other `MC…` | what TLC needs of each: small definitions, the constants' symmetry | extend the module |
| `…Proofs` | theorems about the module named; `EventBusProofs` also about `ConsumerGroup` and `IdempotentPublish`, `UserProofs` about `Sessions`, `Registration` and `SigningKeys`, `WorkerProofs` about `NotificationWorker` and `AIJobs`, `AssistanceProofs` about `Assistance`, `Admission` and `ClientBreaker`, `GatewayProofs` about `ProxyBreaker`, `Spending` and `ModelCalls`, `LearningProofs` about `Learning` and what it extends | extend the module and `TLAPS`; those about several instantiate or extend each |

**State and actions.** A variable is a field, a map, a table or a set of Redis
keys, named in its declaration; those marked *history* are not in the code and
only remember what a property speaks about. An action is what happens between
two points at which somebody else can be seen: one Redis command, one SQL
statement, one critical section, one receive of a `select`. Its name is that of
the code it stands for, and `map` in `PROJECT.json` names the lines.

**Event bus.** A message is its position in the stream. A command of a
subscriber or publisher is answered, takes effect with its answer lost, or
fails; with an ended context it fails without effect. `batch`, `cursor` and
`pc` are the locals of `Subscribe` and are lost in a crash, `owner`, `lastId`,
`retryKey`, `dlq` and `idem` are Redis and stay. Whether an event parses is
kept (`Malformed`), what is in it is not. A retry counter may expire at any
time it is not zero (`RetryKeyLapses`): its 24 hours start anew with each
attempt, but a message may wait longer than that for its subscriber to come
back. Any command may get an error answer, the dead-letter XADD included; the
messages it happened to are `dropped`.

**Breakers.** Both hold their mutex twice per request, before and after the
call, so these are two steps. Time is the age of the last failure in ticks, cut
off beyond the timeout; the failure count is cut off at the threshold, since
nothing tells higher values apart. In `ProxyBreaker` concurrent writes of the
map are a race: either one store survives and both requests go on with
breakers of their own, or the runtime ends the process (`alive`).

**Sessions.** A token stands for a token pair with its row and gives its name
to its session row. Every repository or Redis call is a step that succeeds or
fails; whether a failure ends the operation or is only logged is as in the
code. `CutShort` ends a request anywhere.

**Sync hub.** The goroutines are `Run`, a broadcast, a read pump and a write
pump per connection, and the cleanup. A channel is its fill level. A send on a
closed channel or a second close is a panic and ends the process (`ended`
says whose it was); a write of the `clients` map under the read lock may meet
the cleanup's read and end it too. Statements on the connections table fail as
often as `MaxFaults` allows. The writes of presence, by which `Run` tells that a
user comes or goes, may each fail, without a bound: the hub only logs that.
`missed` says that the last of them failed and left another status.

**Notification worker.** Days stand for time; the worker takes what is due as
one query does and works it off row by row, one step per statement. Email and
push are an outcome. Preferences, quiet hours and device tokens are left out,
as are the limits of 50 and 100 rows per tick, which small tables do not reach.

**Interventions.** FastAPI runs each request of these endpoints in a thread
with a session of its own, so a request is a worker (`job`) that goes from
query to query; its commit makes the change. The time a request captured is
part of it. Timeline ids are triples of the parts of the string that tell cards
apart; of a push the row keeps whether it counts, is of priority 1, or is a
class within 15 minutes. Which topics are weak is toggled freely, for
`record_signal`.

**Registration and keys.** A code is a number, and so is a key pair; a code is
in the row, in Redis, in the mail, or in several of them. Each call is a step
and may fail. An instance that starts looks for the private key and creates two
rows; of several active ones any may be found, since GORM's `First` orders by a
random identifier.

**Requests of content and analytics.** `todo` holds the statements a request
still has to make; the handler's early returns cut it short. `copy` and `kids`
are what it has read, `stale` which of these rows others have changed since. A
statement is a step of its own, except that the queries of one `Preload` are
taken as one read. A request that has only arrived, or only answers, touches
nothing others see, so it goes first (`Urgent`); this leaves out no outcome.
Saving a row saves the rows read along with it, as GORM does: that is where
deleted rows and old columns come back from. The rows of `Given` exist at the
start and are one user's.

**Model calls.** A stream is the goroutine with its channel (fill level), the
caller taking from it, and the provider's lines; a line may be broken, the
connection may fail midway, and the body may just end (`EndsEarly`), which the
code cannot tell from the end of the answer. The key of an institution's spend
lives for `KeyLife` after the last record and is then gone as a whole (`Pass`).
Time is a small clock; costs are small numbers per
model. The caller of the package, which the repository does not have yet, takes
the steps in the order that their documentation and names imply and is marked
external. The totals are added to by atomic increments that nothing else acts
on, so that no other call comes between those of one (`Totalling`); any of them
may still fail.

**Admission.** A request is again a list of statements; each lets the request
pass when Redis fails, as the code does, and what it does to the later checks
is kept (an error of the limit skips the quota). The AI half is not mounted by
`cmd/main.go`; it is put together in the order in which the documents name it,
beside the requests that are only proxied. Keys that expire do so with the
clock or, for markers, at any time they may.

**AI jobs.** Handlers are coroutines without an `await`, so one is under way at
a time; the worker is a thread beside them. Any listed job may be the next,
since the caller picks its priority. Reading a row and writing one value into
it is one step. Redis is there when the service starts. The pipeline's answer
is an outcome.

## 3. Runs

Every constant is set in the `.cfg`; a bound on faults, stops, cancels,
outages or messages is a conjunct of the action that uses it up, named by the
constant.

| Run | Instance | What it shows |
|---|---|---|
| `group` | 2 subscribers, 2 messages, 2 retries, batches of 2, one error answer to any command, one stop, one retry counter that expires | `LossesPaidFor`: what is acknowledged is settled, but for messages whose own dead-letter XADD got an error answer; `ExclusiveDelivery`; `TriesAccountedFor`: handler runs, redeliveries and dead letters are paid for by failures, faults, stops and expired counters; `ImplementsPromise`: every step is one of `AtLeastOnce`; `EventuallyAcked` |
| `group_docs` | the same, with one error answer to the dead-letter XADD and nothing else | **violated** (`EventsAreSettled`): an event whose retries are exhausted is acknowledged, and is in no dead-letter queue |
| `bus` | part "publishers": 2 publishers, a keyed, a keyless and an invalid event, 2 error answers, one ended context or death, one expiry; part "whole": publishers of one key whose XADD may fail once, a foreign writer, a subscriber with an error answer and a stop | `EffectivelyOnce`: copies, and end to end the times an event is handled, are paid for; `DuplicatesAreTrue`: who is told "duplicate" is told the truth unless something failed midway; `WholeBusSettles`: what was published is settled in the end |
| `client` | 2 requests, threshold 2, one retry, one outage, two cancels | `ProtocolUnlessStale`; `CutOffOnlyWhileDown`: the circuit opens for a reason, and closes for good once the orchestrator stays up |
| `users` | sessions: 2 requests of any of 7 kinds, 2 token pairs, 2 changes of the password, 1 reset token, one failure; registration: 2 requests, 3 codes, 2 failures; keys: 2 instances and the gateway, 3 pairs | `LineLives`: a line of tokens dies only if revoked; `PairsAccountedFor`, `StaleOnlyByRace`, `PasswordsHold`; `CodesMatchMail`; `TokensVerify` |
| `hub` | 2 connections, channels of 1, one failed statement on the table, any write of presence may fail | `HubNeverPanics`, `Bookkeeping`, `OfflineWhenGone`: who has no connection left is offline, unless just that write failed; `ConnectionsEnd`: closed channels end sockets, lost peers are forgotten |
| `worker` | notifications: a reminder of 2 days, of one beside a notification, or 2 notifications, 2 retries, one failed statement, one crash; jobs: 2 jobs, 2 failed calls, one restart | `DuplicatesPaidFor`, `CancelSticks`, `NothingForgotten`; `JobsAccountedFor`, `StatusTold` |
| `interventions` | 2 students, 2 requests at a time, 3 in all, a cap of 1, fatigue after 2, one class and one deadline over two days | `GovernedUpToOverlap`, `AnsweredIsRecorded`, `DismissalIsPersonal` |
| `learning` | 2 users, 2 requests of any kind, 2 courses, materials and quizzes, one deck, 2 attempts, one failed statement, one processing callback | `ShowsOnlyOwn`; `LossesPaidFor`: half-made sets and uncounted completions stand for failures or races; `UndoesOnlyByRace`: what is deleted comes back, and a column nobody asked about changes, only through a request that overwrites what changed since it read it; `CompletedIsFinal` |
| `models` | 2 calls, plain or streamed, a channel of 1, streams of 2 lines, one lost answer, early end or caller gone, one ceiling, report, reset or expired answer, a clock of 2, a spend key that lives for 1 | `QuietEndIsComplete`: what tells its usage is whole, and any other quiet end is whole, cut, ended, or broken a channel behind; `CancelEndsStream`, `SpendUpToOverlap`, `BooksBalance` |
| `gateway` | middleware: 3 requests, 2 at a time, proxied or of AI assistance, limit and quotas of 1, 2 tries of the client, one failure, caller gone or crash, a clock of 2; proxy: 2 requests, threshold 2, one outage, two users who leave | `LimitsHold`: revoked tokens are refused, limit and quotas hold up to overlap and failures, no counter stays without an end; `RepeatsHandled`; `ImplementsProtocol`, `CutOffOnlyWhileDown` |
| `rate_limit` | the middleware alone: 4 requests, one at a time, a limit of 2, nothing failing | **violated** (`RequestsLimited`): four requests of one second pass, as one |

**Why the bounds are enough.** The properties speak of pairs: two workers on a
message, two publishers of a key, two requests of a user, two connections that
share an index entry. A second message shows what happens behind a batch that was
given up; a threshold of 2 tells the first failure from the last; a buffer of 1 is
full after a reply and before the next. One fault at any command at any time, with
one stop or crash, reaches every state that a failure in the middle leaves behind,
and the bounds the properties state are linear in both. In `interventions` three
requests are one more than either bound allows within its window, so that an
off-by-one in the governor shows; four requests are too many states. In `learning`
two requests suffice since every property is about a request and what another did
since it read; each kind meets each kind. In `bus` no retry counter expires: what
that does is within the group, and `group` and the theorems have it. In `models` a
channel of 1 is a whole channel behind after one line, and two lines are what a
stream needs to break after its first; a window of 1 beside one of 2 is what the
shorter one purges, and a key that lives for 1 is outlived by the ceiling of 2. In
`gateway` the clock of 2 crosses both the end of a window and the end of a day;
the third request is the one that finds what two overlapping ones left behind.
Three codes are one to be overtaken, one to overtake it and one after both; two
lapses are what `MailedCodeWorks` says is needed to lose both copies.

Parts that share no state are explored in one run, each by itself, so that a
run's states are their sum and not their product.

The types of `ConsumerGroup`, the breakers, `SyncHub` and `Interventions` are
proved and not checked again in every run; those of the other modules that have an invariant
of types are part of a property of their run.

**Fairness.** `group`, `bus`: a subscriber that runs goes on, and one that stopped
is started again (`restart: unless-stopped` in `infra/docker-compose.yml`);
publishers may stop anywhere, and nothing that a fault or a user does is fair.
Breakers: requests under way are scheduled, every HTTP call ends by its client's
timeout, time passes, users keep coming – without new requests an open circuit
stays open. `hub`: the goroutines are scheduled, `select` picks at random among
ready cases, a sender waiting on a full channel is served by the next receive
(strong fairness of the read pump), and deadlines of 10 s and 60 s end a write or
a read the network does not. `worker`: the worker works off what it has taken,
each of its two tickers is served again and again although `select` picks between
them (strong fairness), days pass; that SMTP answers is assumed, since
`smtp.SendMail` has no timeout. `models`: a goroutine whose context has ended goes
on, and of the two ready cases of a `select` that one is not passed over for ever;
the provider and the caller may stop. In `bus`, `worker` and `gateway` the
fairness is that of the part it is about. The other runs check no liveness.

**Deadlock.** Runs with `CHECK_DEADLOCK FALSE` stop for good when their bounds
are used up or the process has ended, which is an end of the model; that work
gets done before that is what the liveness properties say.

## 4. Proofs

All are about the specification without fairness and rest on the `ASSUME`s of
the modules alone: numbers are naturals, "nobody" and "nothing" are not
members, ids of different kinds differ, and where a bound counts or sums over
requests at work or rows (`Sessions`, `Interventions`, `Spending`, `Learning`),
these are finitely many, as threads, connections and rows are. Of most properties the proof is one of
*paying*: a bound such as "1 + faults" holds of what has happened only together
with what may yet happen without a further fault, so the inductive invariant
adds to each count the worth of what is under way, and a step moves worth from
one place to another or pays for it.

- `EventBusProofs`, the group. `TypeCorrect`: types, strengthened by `BatchInv` (a
  subscriber has a batch exactly while it works), without which `Head` of the
  batch has no type. `WorkIsExclusive`: `ExclusiveDelivery` alone is not
  inductive; `OwnerInv` (what is in a batch is pending at its subscriber, once,
  below the group's last ID) makes it so, since XREADGROUP gives a pending
  message to its owner and a new one to nobody else. `NothingLost`, with errors
  of every command: `AckInv` (who stands before XACK has a settled or a dropped
  message, unless cancelled) and `DroppedInv` (each dropped message has cost an
  error answer). `KeepsPromise`: every step is one of `AtLeastOnce`, whose
  `Drop` stands for the dead letter that could not be written, or a stutter.
  `TriesAreAccountedFor`: a message is
  at one stage (`Stage`: where its one worker is with it), and the stage says
  how often it may yet be handled or dead-lettered (`Worth`) and fail
  (`FailuresLeft`); a counter that expires gives up to `MaxRetries` failures back
  and is counted; `EarnedInv` keeps the counter in Redis behind the failures.
- `EventBusProofs`, the bus. `BusIsAGroup`: to whoever does not see the
  publishers the bus is a group, since a publisher is a writer of the stream
  like any other. So `BusDelivers` follows from the theorems on the group, and
  `PublishedOnce` from `TriesAreAccountedFor` and `PaidInv`: copies in the
  stream, publishers entitled to add one, and a free key together stay below
  1 + lost + expired. `DuplicatesTellTheTruth`: `HeldInv`.
- `AssistanceProofs`, on `ClientBreaker`. `ClientTypes`; `ClosedIsBelow`;
  `OnlyStaleResultsBreakIt`: the circuit follows `BreakerProtocol` in every step
  in which each call in flight began in the current state (`UpToDate`).
  `OpensOnlyForAReason`, the safety half of
  `CutOffOnlyWhileDown`: without an outage the failures counted and those still
  unheard of, together, are no more than the users who left (`Blamed`; alone,
  the count says nothing of the results about to come in).
- `GatewayProofs`, on `ProxyBreaker`. `ProxyTypes`, `ClosedIsBelow`, `KeepsProtocol`:
  each breaker implements `BreakerProtocol` for any number of requests, since its
  results count for the state of now; `OpensOnlyForAReason`, by the same `Blamed`,
  for each breaker that racing requests have stored.
- `GatewayProofs`, on `Spending` with the `ModelCalls` it extends, from one
  inductive invariant (`SpendingInductive`). `StreamsEndComplete`, by `StreamInv`:
  lines taken, waiting in the channel and passed over are those read, all of
  them where the usage is told, and an
  error stands at the end of the channel unless a whole channel was waiting.
  `CeilingsHold`, by `SpendInv`: what is billed since any time is recorded since
  then, under way or lost with a failure; and by `KeepInv`, for windows of any
  length: an entry no shorter window has purged is in the set as long as the
  key lives from it (`KeepAt`), so that a window no longer than that forgets
  nothing. `BooksAreKept`, by `TotalsInv` (one
  call adds at a time, and the totals it has still to reach lag by its cost at
  most) and `PaidInv` (answers paid for, calls that will ask or lose an answer,
  and the next lookup of a free prompt, together). The sums are the community
  modules' folds; the library's induction theorems cannot be instantiated, so
  the lemmas on them (a sum after one summand has changed, sums that compare
  termwise) go by counting: the sizes at which a lemma holds are a set of
  naturals, whose complement has a least element by `WFMin`.
- `AssistanceProofs`, on `Assistance` with the `Admission` it extends, for any
  number of slots, users and bodies. `TypeCorrect`: the list of statements a
  request has still to make is an end of one of the lists the middleware is
  put together to, and only finitely many requests are under way (`TypeInv`).
  `LimitsAreKept`, from `RevokedInv` (each late request past the lookup has
  cost a failure), `SecondsInv` (of the seconds of a window in which requests
  were let through, those missing from the set of the rate limit are paid for
  by failures; whoever is let through saw at most `Limit` of them, but for an
  overlap), `QuotaInv` (requests before the proxy count as served) and
  `EndlessInv`. `RepeatsAreHandled`, from `WorkInv` (the works on a body and
  those that hold it are paid for by its marker, marks overwritten, markers
  expired and failures) and `FreeInv` (bodies abandoned and requests whose
  caller has left while they hold a marker, by failures; `LiveInv` says where such
  a request may be). The lemma `Accounts…` of each step states the double entry.
- `UserProofs`. `SignedIsVerified` (`KeysInv`: one instance generates at a time,
  the private and public rows are those of one pair, unless `raced` or `torn`).
  `MailedCodesVerify` (`RegInv`: only one request sets a code unless `tangled`;
  of the two copies of the latest code each failure takes one at most, and
  without failures an older copy is about to be overwritten). On `Sessions`,
  from one invariant: `StaleTokensAreRaced` (`StaleInv`: a refresh that was
  under way when all tokens were revoked works on an old line), `LinesLive`
  (`LineInv`: a token is used up only after a later one of its line exists, so
  that the latest is not), `PasswordsStay` (`BehindInv`, `UsesInv`: uses of a
  reset token and requests about to use it or mark it are paid for) and
  `PairsArePaidFor` (`PairsInv`: tokens lost or unseen, but for those that a
  request at work still answers for).
- `SyncHubProofs`. `TypeCorrect`; `HubSurvives`, by `Pumps` (a reader exists only
  once its socket does, and past the registration while the hub is busy with
  it), `NewIsNew` (what waits for its registration is in no map) and
  `OpenWhileRegistered` (the channel of a registered client is open, unless it
  was full before the welcome); `BooksAgree`, by counting the wrong rows
  against the failed statements (`WrongRows`); `GoneIsOffline`, with the books: the status
  is what the last write of the hub meant, unless it failed (`missed`) or a client
  reported since (`late`).
- `WorkerProofs`. On `AIJobs`: `JobsAreAccountedFor`, by `EachPushOnce` (runs,
  list entries and the job in hand together are at most the pushes) and
  `StageFits`; `StatusIsTold`, by `UndoneInv` and `Told` (between the writes of
  hash and row whoever makes the second knows what it will be). On
  `NotificationWorker`: `DuplicatesArePaidFor`, by `RowsPaid` and `RemindersPaid`
  (the rows of a day, the rows that may still lead to one and the notification
  about to be marked are one and what faults and crashes pay for) and `TriesPaid`;
  `CancellationSticks`, an action property, from the same invariant.
- `InterventionsProofs`. `TypeCorrect`. `AnswersStick` and
  `TimelinesArePersonal`, from one
  inductive invariant: a row about to be updated is there and its student's own
  (`JobInv`; found rows stay, since nothing deletes any), what is dismissed was
  wanted (`RowsInv`), what was answered is recorded (`DoneInv`; a new row has an
  id that no row has, an update writes one flag). `OverlapIsTheLimit`:
  `Governed` counts, for every window of time there is, the pushes in the table
  with those past the check, which overlap; cap and cool-off are two values of
  one limit.

- `LearningProofs`, for any number of requests, users and rows. One invariant
  (`LearningInductive`) carries all. Of the tables: rows are of their types
  (`RowsInv`), what a course contains is its owner's (`PlacesInv`), an item is in
  the set it was born in (`ItemsInv`). Of a request under way (`ReqsInv`): the
  statements ahead are an end of its operation's list, in order, so that a read
  precedes its write (`Shape`); a row about to be written was checked for its
  course (`Checked`); what it read is there and its user's (`ReadInv`), and equal
  to the row unless the row is in `stale` (`FreshInv`); what it will show is its
  user's (`ShownInv`); a set being made lacks no more items than it has inserts
  ahead (`NewInv`). Without `FreshInv` a save could bring back anything; without
  `Checked` a listing by course could show other people's rows. From it:
  `ShowsOwn`; `RevivesOnlyByRace` and `SavesItsOwn`, the halves of `UndoesByRace`;
  `CompletionIsFinal`. `LossesArePaid` adds that half-made sets are no more than
  the failures, and that completions are in the session of the day, overwritten
  in a race, failed, or still to be counted; both are inductive on top of it.

Attempts that failed changed the model twice. One property was false:
`CompletedIsFinal` let a second completion write answers back only where its
attempt had changed since it read it (`stale`), but it also writes back an
answer that went with its question when a third request's save has meanwhile
brought the question back; two requests at a time do not get there, and the
property now says so. And a crash of the gateway used to
cost one fault however many requests it took along, and the proof of
`RepeatsAreHandled` asks for one per request, as three callers who each lose an
answer need; TLC's instance of two requests had not shown it.

Every invariant and every action property of the passing runs is thus a theorem,
and so is the safety half of
`CutOffOnlyWhileDown`. Only model-checked: the liveness
properties (`EventuallyAcked`, `WholeBusSettles`, the other half of
`CutOffOnlyWhileDown`, `ConnectionsEnd`, `NothingForgotten`, `CancelEndsStream`),
since the prover does not do fairness, which rests on `ENABLED`. `group_docs` and
`rate_limit` show violations and have nothing to prove.

## 5. Where code and documents disagree

With a run:

- `group_docs`. `event_bus.go:417` discards the error of `routeToDLQ` and
  acknowledges all the same, against `event_bus.go:287` ("dead-letter queue
  routing if maxRetries is exceeded"): the event is gone. `LossesPaidFor` says that
  nothing else loses one.
- `rate_limit`. `redis.go:158` adds a request to the sorted set under the second
  it came in, so that all requests of one second count once, whatever the limit;
  the run lets four through under a limit of two, one after the other.
  `services/gateway/README.md:8` says "100 RPM normal, 20 RPM AI endpoints". (The
  count is also taken before the request is added, so that one more passes; the
  property allows for that.)

Seen while modelling. Where a property is named, it excepts just that.

*Event bus*

- `event_bus.go:279` rolls the key back with the context of the publish: when that
  has ended the key stays for a publish that failed, and the retry is refused,
  against the comment at `:278` (`DuplicatesAreTrue`).
- `event_bus.go:406` lets the retry counter expire after 24 hours: a message that
  waits longer for its subscriber starts with all its retries again
  (`RetryBudget`).
- A lost answer of XREADGROUP strands its messages until the subscriber starts
  again (`Stranded` in `ConsumerGroup`); without a consumer name for ever.

*Gateway*

- `circuitbreaker/breaker.go:117`: of two tests while half-open one may fail and
  open the circuit, and the late success of the other closes it within its
  cooldown, against `README.md:295` (`ProtocolUnlessStale`). `breaker.go:19` lets
  "one test request" pass while half-open; `Execute` lets all pass.
- `proxy/circuit_breaker.go` counts failures that are not consecutive, against
  `docs/demo/DEMO_SCRIPT.md:264`. `reverse_proxy.go:394`: the map of breakers has
  no lock.
- `cmd/main.go` mounts the JWT check, the rate limit with its quota and the proxy;
  the AI quota, deduplication and handlers, and the package `ai`, are described
  as done in `docs/architecture/MIGRATION_PLAN.md:324` and `:327` and
  `CODEBASE_AUDIT.md:314` and are not reached by any request. The default of
  `AIRPM` is 100 where the README says 20.
- `ai_dedup.go` keys by the hash of the body, so that two users, or two paths,
  with one body get one answer; the marker stays when the caller leaves
  (`RepeatsHandled`); a transcription under it fails after its work is done, since
  the capturing writer cannot flush.
- `ai_quota.go:53` sets the end of its counter in a second command; when that
  fails the user is locked out for good (`LimitsHold`).
- `cost_tracker.go:483`: reading a short window removes entries that a longer
  ceiling still rests on, and `:279` lets the whole window go 30 days after the
  last record, though `SetBudgetCeiling` takes longer ones (`SpendUpToOverlap`).
  `SetBudgetCeiling("")` stores under
  a key nobody looks up. A price without the provider's prefix is never found,
  and a custom price is ignored where the adapter has one. `cache.go` documents
  `(nil, nil)` for a miss and returns `ErrCacheMiss`.
- `openrouter.go:516`: a body that ends early and without an error closes the
  channel like a complete one, since `[DONE]` is not asked for; only a stream that
  told its usage is known to be whole (`QuietEndIsComplete`).
- Bodies of 5xx answers stay open in the clients' retries.

*User service*

- `user_service.go:1199` saves the users row it read several calls before: a
  switch of the institution undoes a change of the password made in between
  (`PasswordsHold`).
- `README.md:329` promises refresh token rotation with reuse detection; two
  refreshes of one token at once both succeed, and reuse is not looked for.
- `user_service.go:801` revokes all tokens to "force re-login on all devices";
  a login or refresh under way still issues one that works (`StaleOnlyByRace`
  says that nothing else does). `API_DOCUMENTATION.md:187` lists active
  sessions, among them those of tokens used up by a refresh.
- A start that ends between the two rows of a key pair leaves a private key whose
  public one nobody adds; two instances that generate at once leave two active
  pairs of which any may be picked; and the gateway's `loadPublicKey` returns
  `(nil, nil)` for an answer other than 200 and then runs with a nil key until it
  is restarted (`TokensVerify`).
- `ResendVerification` needs the `X-User-ID` that the gateway sets for signed-in
  users only, who are verified. A resend ends the old code before the new one is
  mailed. Registering an address again in other letters' case is a 500, not a 409.
- `AddMembership` checks and inserts behind a unique constraint
  (`migrations/011`): the loser of a race gets a 500. `SetDefault` is not called,
  so that a user may have several defaults.

*Content and analytics*

- A change of `course_id` is undone silently when the course was preloaded, since
  GORM saves the association's key. The unique name of a course blocks reuse of
  the name of a deleted one.
- Completing an attempt again counts it again; `StartQuizAttempt` takes deleted and
  other people's quizzes; the question of `SubmitAnswer` need not be of the quiz.
- Every database error of a `Get…` is a 404. `GetStudyStreak` is 0 when the last
  session was yesterday, against its comment. `UpdateTopicMastery` is dead code.

*Sync, notification, AI and academic services*

- `hub.go:148`, `:502`: a write of presence that fails is only logged: the user
  stays online without a connection, or offline with one, until the next comes or
  goes (`OfflineWhenGone`).
- `hub.go:531` cleans up stale connections; `last_ping_at` is never refreshed,
  so that live ones go too, and `presence.active_connections` drifts.
- `worker.go:241`: `retryOrFail` never marks a notification as failed;
  `EveryNoteDecided` therefore counts an exhausted one as decided.
  Reminders ignore quiet hours, against `docs/demo/DEMO_SCRIPT.md:219`.
- `ai_service/jobs/state_machine.py:3` "enforces valid lifecycle transitions";
  nothing calls `can_transition`. A cancellation overwrites `completed`, a
  completion overwrites `cancelled` (`StatusTold`); a crash after BRPOP loses the
  job (`JobsAccountedFor`); an LPUSH repeated after a timeout runs it twice.
- `academic_service/cmd/main.py:492` compares a card's priority, a number, with
  `"high"`: `trigger_proactive_notifications` never sends anything.
- `proactive_engine.py:91` counts events of any priority towards the cap on
  high-priority ones, and rows of dismissed or used timeline cards, which
  nobody pushed, start the cool-off.
- `proactive_engine.py:682`: ids of timeline cards name no student and are the
  primary key: the second student to dismiss a card finds the row of the first
  and is refused, against `cmd/main.py:369`.

## 6. Not modelled, and the plan

Not modelled for good: prompts, tool outputs, provider formats, configuration,
logging, migrations as such, and floats (weights of signals). Of the sync
service, the change log and the device states are single statements; so are
profiles, memberships and the tracking of AI interactions.

The request pipeline of the AI service is not modelled because it does not run:
`ai_service/gateway/pipeline.py:77` names `Tuple` and `gemini_adapter.py:38`
`Optional`, which their modules do not import, and the Python 3.11 of the
Dockerfile evaluates annotations. `ai_service/cmd/main.py` imports the package
and does not start either; `ai_service.jobs` by itself does, and is modelled.

Done so far, in this order: event bus, breakers, sessions, hub, notification
worker, interventions; registration and keys, content and analytics, model
calls and their cost, admission and AI assistance, jobs; proofs of every safety
property the runs check. Next:

1. Quiet hours, preferences and events of the notification handlers, joined to
   `NotificationWorker`.
2. `ConceptGraph` of the academic service (acyclicity, topological order against
   a reference definition), then knowledge state and signals, composed with
   `Interventions` in the place of its toggled weak topics, and the timetable.
