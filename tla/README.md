# golang-api-server in TLA+

TLA+ specifications of the API server in `src/`: what its parts keep, what its
concurrent requests, failures and shutdown may do to them, and what stays true.
TLC checks the specifications on small instances; TLAPS proves the most
important properties for every instance.

## The system

The process serves accounts, currency conversion and events over HTTP (gin) and
gRPC. It keeps users in Postgres (a primary, and a second URL for reads, behind which
`k8s/003-configmap.yaml` and `004-postgres.yaml` put two standbys), caches
them in Redis, keeps a bloom filter of known emails and usernames in memory,
publishes events and its own log records to Kafka, and consumes both topics
again.

| Part | State | Operations | Talks to |
|---|---|---|---|
| Account services `internal/service/auth.go`, `user.go` | none of their own | Register, Login, RefreshToken, GetProfile, UpdateProfile, List, Delete, CheckAvailability | repository, filter |
| User repository `internal/repository/user.go`, `migrations/` | the `users` table, its id sequence; standbys that may lag | Create, GetBy..., Update, Delete, List, AllEmailsAndUsernames | Postgres through gorm's dbresolver: writes to the primary, reads to the standbys |
| Caching repository `internal/repository/user_cache.go`, `internal/cache` | three Redis keys per user, with a TTL | cache-aside reads, invalidation on delete | Redis, the repository |
| Bloom filter `pkg/bloom` | a set of bits | Add, Contains; seeded in `NewDependencies` | Register adds, CheckAvailability asks |
| Handlers `internal/handler`, `internal/grpc` | none | bind, call a service, map its error to a status | services |
| Rate limiter `internal/middleware/ratelimit.go` | address -> token bucket, last seen | get, Allow, a sweep every five minutes | every HTTP request |
| Lifecycle `cmd/api/main.go`, `internal/server` | two servers, errCh, the signal, what is open | Run, shutdown, Close | everything |
| Log handler `internal/logger` | a channel of 1000 records, a drain goroutine | Handle, Close | everyone logs; publishes to Kafka |
| Kafka `pkg/kafka`, `internal/consumer` | readers, writers, offsets | Publish, Consume | topics; the `logs` table |
| Events `internal/service/event.go`, `internal/handler/event.go`, `internal/grpc/event.go` | none | publish a conversion | Kafka |
| Tokens `pkg/jwt`, `internal/middleware/auth.go` | nothing on the server | issue, validate, refresh, require a role | handlers, the users table |
| Exchange `internal/adapter/exchange`, `internal/service/exchange.go` | rates cached in Redis | GetRates, Convert | an HTTP API |
| Configuration `internal/config` | read once | Load | everything |
| Migrate `cmd/migrate` | schema version | up, down, version | Postgres |

AuthService is given the plain repository and UserService the caching one
(`internal/server/deps.go:80-81`). Only CheckAvailability and Delete
therefore ever touch the cached users, and Register, UpdateProfile and Login
never invalidate anything.

What is hard about it: requests interleave between any two of their calls;
reads may be behind writes; the cache, the filter and the table are written one
after the other with no transaction around them, and any of the writes may fail
or the process may die in between; the limiter is used outside the lock that
protects it; shutdown runs against servers, clients, consumers and a logger that
are all still going; a token outlives what it says about its account; the
log goes through a pipeline that logs its own failures into itself, and Kafka
may lose, repeat or reassign what is in it. `PROJECT.json` lists these hazards line by line with the
properties that address them.

Correct means, by part:

- accounts: unique keys and no revived ids whatever happens (`ImplementsDirectory`,
  `AccountsUnique`, `DeletedStaysDeleted`), and lookups that find one account, on whichever standby
  (`LookupsUnambiguous`); stale updates that mix up nothing (`NoForeignValues`); answers that
  agree with the table, at once or in the end (`NoFalseAvailable`, `NoPhantomTaken`,
  `EventuallyFound`), and successes that happened (`AcknowledgedHappened`); a cache that only ever
  holds what was true, and not for ever (`CacheTruthful`, `DeletedLeavesCache`); a
  filter that misses nothing (`FilterCovers`);
- limiter: eviction nobody can notice (`ImplementsBucket`, `NoOrphan`), a bound on
  what is admitted (`WindowBound`), no leak (`StaleEvicted`);
- lifecycle: shutdown that ends (`ShutdownEnds`), closes nothing under a request
  (`DrainedBeforeClose`), has published every buffered record by the time it closes the
  producer, if it gets that far (`Flushed`), and fails only for a reason and with everything closed (`FailsClosed`); nobody blocked
  (`NoSenderBlocked`, `LoggingNeverBlocks`);
- tokens: rights that end, in a known time after the account has lost them
  (`AdminBounded`, `SessionBounded`);
- exchange: rates of the right currency (`RatesOfBase`), not too old
  (`RatesFresh`), and an answer to every request (`Answered`);
- Kafka: a process's records in order in the topic, whatever is repeated
  (`WrittenInOrder`); nothing handled twice or out of order until a group is rebalanced under
  a consumer at work (`AtMostOnce`, `LogsInOrder`, `LogsFollowTopic`); all of it what a simple
  delivery service would do (`ImplementsDelivery`); nothing lost unless something fails
  (`Delivered`), rest after a failure (`Settles`) that the loop of error records has not multiplied
  (`NoAmplification`).

## The modules

### UserDirectory, Accounts, AccountsHistory

`UserDirectory` is the abstract specification of the users table: insert under a
fresh id, change, remove, never two rows with one key. `Accounts` implements it with the users table.

`Accounts` is the detailed one. Its state is the table on the primary, the older tables
that some standby may still show (`wal`), the id sequence, Redis, the filter, and
for each request goroutine a program counter and its local variables. One action
is one call: `RegCheck`, `RegCreate`/`RegRefused`, `RegAdd` are Register;
`ChkFilter`, `ChkCache`, `ChkRead`, `FillId`, `FillEmail`, `FillUsername`,
`ChkDone` are CheckAvailability through the caching repository, for the email and
then for the username; `DelRead`, `DelEmailKey`, `DelRow`, `DelIdKey` are Delete;
`UpdRead`, `UpdWrite` are UpdateProfile; the operations that read once are one
action each. `Replicate`, `Expire` and `Restart` are the world around them.
`reply` holds the status sent by the step that ends a request.

What is abstracted:

- there may be any number of standbys, each with a lag of its own, and any connection of the
  read pool may be to any of them: a read is served from any of the last `MaxLag` tables or
  the present one (`Views`), so that successive reads can go back in time. How far the
  slowest standby is behind is all that is kept of them; `Replicate` is its progress. With
  `MaxLag` 0 both URLs name the primary, as by default;
- a row is its email and username; name, role and password are never compared by
  what is modelled. A login is with the right or a wrong password;
- the filter is the set of keys added, plus any positive from `FalsePositives`;
- failures are chosen by `Faults`: a statement fails, it commits and the answer
  is lost, a Redis command fails, the process restarts, seeding fails;
- an insert that the constraints refuse consumes no id here; Postgres skips one.
  Ids are only compared, so nothing depends on it;
- gRPC returns plain errors; the model gives them the HTTP status of the same
  error. gRPC does not validate its input, so its emails may be blank;
- requests that fail to bind (400) change nothing and are left out. Register over
  HTTP requires a username; the end-to-end test at `test/e2e/auth_test.go:19` still
  sends none;
- the id of an update or a refresh comes from a token, so it was handed out
  before; the id of a delete or of a gRPC profile request is any number;
- bcrypt may refuse a password, which is a 500 of Register before anything is written;
- several server processes would each have a filter of their own; one is modelled, as
  `k8s/009-app.yaml` runs one replica.

`AccountsHistory` adds the history variable `held`, all versions rows ever had, to
say what the cache, the verdicts and the updates may contain.

### TokenBucket, RateLimiter

`TokenBucket` is the promise: one bucket per address, kept for ever. `RateLimiter`
is the code: `Get` under the mutex finds or makes a limiter, an index into the heap
of all limiters ever made; `Allow` or `Refuse` uses it later; `Sweep` drops idle
entries. Time is in ticks and a tick earns one unit, so that a rate of
`Limit`/minute needs no fractions: a request costs `Cost` units, a minute and a full
bucket are both `Limit * Cost`. A limit of zero is `rate.Inf` and makes requests
free. `Observe` starts an observer's window at any moment for `WindowBound`.
`rate.Limiter` is a library and is modelled by what it does; a refused request leaves
its bucket as it was. The refinement mapping reads the bucket of an address off the
heap, or takes it as full when the address has no entry.

### Lifecycle

One run of the process: the main goroutine line by line through `main`, `Run`,
`shutdown` and `Dependencies.Close`; the goroutines of the two servers, of the two
consumers and of the log handler; clients with one request each. The log channel is
the number of records in it. Debug and warning records are left out (they add
nothing to what info and error records can do); `logger` holds the levels that
LOG_LEVEL enables for Kafka, and is empty until main has set the handler up.
A send on the closed channel ends the process: nothing recovers it in the main or a
consumer goroutine, and where net/http recovers a handler, it reports the panic
through the default logger, which is the same handler. What a panic in main does in
the deferred Close is not followed further. A closed Kafka reader fails every read at
once (external). Merged into one step are lines between which nothing shared is
touched.

### Config

`config.Load` as a function of an environment: which environments the server starts
with (`Loads`), and what it makes of them (`Load`). It has no state; Sessions and
Exchange extend it and start with any configuration that loads. An empty variable
counts as one that is not set, as in `getEnv`. The settings that only name servers,
topics and formats are dropped.

### Sessions

Tokens against the accounts they speak for. A token is its claims: the user, the role
(blank in a refresh token, which nothing else tells from an access token), the expiry
and the secret it was signed with. The server stores none; `tokens` is what clients
hold, all of it tokens the server has signed. An account is its role, `none` before it
is registered, `gone` after it was deleted, and `left` remembers when it last stopped
having a role: that is all the properties ask. A read goes to some standby and may
return any role held in the last `MaxLag` ticks. A request is two steps, reading a row
and signing (`Login`, `RefreshToken`, `Register`, then `Sign`), or passing the
middleware and running the handler (`AuthMiddleware`, `RequireRole`, then `Handle`,
`AdminHandle`); between them at most `MaxStall` ticks pass, while everything else may
happen. `Restart` starts the process again with any environment. How rows are written
is Accounts' business; the ids are never reused, which is `DeletedStaysDeleted` there.
gRPC asks for no token at all; its requests appear only as ones that issue tokens.

### Exchange

Requests for rates, over HTTP and gRPC, through `service.Convert` or `GetRates`, the
caching client and the HTTP client: ask Redis, else ask the API, store, answer, each a
step. A quote is the base currency and the time it was made; the rates in it are left
out, since an answer is a function of the quote. Names are mapped to upper-case codes by
the constant `Code`; `Short` are the names HTTP's binding rule lets pass. go-redis stores
without an expiry when the duration is not positive (external), which is `Forever`.

### Delivery, Pipeline

`Delivery` is the promise: while a writer has a message it may be written, any number of
times or never, and not before or after; messages are handled in the order of their topic,
each offset at most once, until a group is disturbed; and a row of the `logs` table is the
message handled when it was inserted. The refinement mapping takes as pending what the
writers of all processes hold.

`Pipeline` is the code: everything that goes through Kafka. Log records go from `Slog`
through the channel, `Drain`, `Publish`, the topic `app-logs`, `Fetch`, `Commit` and `Insert`
into the `logs` table; events go from three entry points through `PublishConversion` and
`Publish` to `HandleEvent`. Handling an event logs a record, and so do `ReadFails` and
`InsertFails`. Several processes may run at once (a rolling update overlaps two), all of them
in one group per topic. Lifecycle has the same channel as a number, with its closing; here its
records matter and it is not closed.

kafka-go and Kafka are external. What the model takes from them, given the options of
`NewProducer` and `NewConsumer`:

- a writer takes messages from any number of requests and makes batches of them in the order
  they came (`Batches`), one batch at a time; `Publish` is one attempt at a batch. The drain
  goroutine waits for the end of each write, so its writer has one record at a time;
- RequiredAcks is none, so that a batch may be lost and reported as written. An attempt may
  fail although the batch was written, and then the whole batch is tried again after a
  pause, in which everybody else may write. The model has no bound on the attempts; the
  writer makes ten. An attempt is written while the writer makes it or never, not later, from a
  connection it has given up;
- a batch of n that is lost or repeated counts as n faults, for each of its messages can be
  missing or handled again;
- `ReadMessage` commits synchronously before it returns, in the group's present generation,
  though the message may have been fetched in an earlier one;
- a topic has the one partition that `initKafka` asks for, and a group without an offset
  starts at its beginning;
- any death of a member, owner or not, rebalances its group, and so does a member that comes
  back, leaves or is slow. A rebalance assigns the partition to anybody, who reads on from the
  committed offset, the present owner too; a message in a live consumer's hands stays there and
  is committed or handled later. `Crash` is a death, with the rebalance of both groups;
  `Rebalance` is any other, the return of the restarted process included. `disturbed` holds the
  groups that were rebalanced while a live consumer had a message.

What the messages say is left out, so that a consumer can always read them: the error for a
message that is no JSON (`consumer.go:33-35`, `log.go:31-33`) is for what others put into the topics.

## The runs

| Run | Checks | Instance |
|---|---|---|
| `accounts_directory` | `TypeOK`, `ImplementsDirectory`, `DeletedStaysDeleted` | 2 goroutines, HTTP and gRPC register, update, delete, 2 ids, standbys up to 1 commit behind, statements failing, lost acknowledgements, crashes |
| `accounts_reuse` | `FilterCovers`, `NoFalseAvailable` | 2 goroutines, every operation but update, one email and username used twice, Redis failing, crashes, no lag |
| `accounts_rename` | `CacheTruthful`, `NoPhantomTaken`, `NoForeignValues`, `AcknowledgedHappened` | 2 goroutines, 1 user renamed between 2 emails, all failures, lag 1, the filter may report anything |
| `accounts_expiry` | `DeletedLeavesCache`, `EventuallyFound` | 2 goroutines, every operation over HTTP, 1 account with the one email and username there are, lag 1, statements and Redis failing, fairness |
| `rate_limiter` | `TypeOK`, `NoOrphan`, `WindowBound`, `StaleEvicted`, `ImplementsBucket` | 1 address, 2 goroutines, 2 requests a minute, 14 ticks: 4 sweeps, eviction and return |
| `lifecycle` | `TypeOK`, `Flushed`, `DrainedBeforeClose`, `FailsClosed`, `NoSenderBlocked`, `LoggingNeverBlocks`, `ShutdownEnds` | 2 clients, a channel of 1, every LOG_LEVEL, fairness |
| `sessions` | `TypeOK`, `AdminBounded`, `SessionBounded` | 1 account, 2 goroutines, 2 tokens at a time, 2 secrets, access tokens of 1 or 2 ticks, refresh tokens of 3, lag 1, stall 1, 9 ticks |
| `exchange` | `TypeOK`, `RatesFresh`, `RatesOfBase`, `Answered` | 2 goroutines, 2 currencies, one spelled in two ways, CACHE_TTL 2 or 0, stall 1, 5 ticks, fairness |
| `pipeline` | `TypeOK`, `AtMostOnce`, `WrittenInOrder`, `LogsInOrder`, `LogsFollowTopic`, `NoAmplification`, `ImplementsDelivery`, `Delivered`, `Settles` | 2 processes, a channel of 2, 2 records or events made by requests and what follows from them, 1 fault, crash or rebalance, fairness |
| `rename_available` | `NoFalseAvailable`, violated | 1 goroutine |
| `grpc_register` | `GrpcRegisterCreates`, violated | 1 goroutine |
| `lifecycle_panic` | `NoPanic`, violated | 1 client |

Two goroutines suffice for the races here: each hazard is one request between two
steps of another. Two ids are one account deleted and one made after it. A lag of one
commit makes every read possibly stale, and lets two reads of one handler, or of two, see the
new table and then the old one. In `accounts_expiry` there is one account whose keys never
change, so that only its insertion and deletion can be late; with renames `EventuallyFound`
rests on the theorem `FoundWhileEverywhere`. `accounts_rename` has one account too: that no
entry mixes two is proved (`CacheIsTruthful`). Nine ticks are a login, its access token, a
demotion, a refresh and the end of that token too; with 2 tokens a client keeps one pair
and must drop a token (`Forget`) before the next. Five ticks let an entry be stored, read,
expire and be stored again by a slow request. In Pipeline `MaxMade` bounds only
what requests start: an event makes a record, and a fault another one, so that a batch of two
events, several records in a topic and records of both processes all occur. `MaxTrouble` is one:
a batch of one or two is lost or repeated with another process's message behind it, or a
process dies, owner of a topic or not, or a group is rebalanced, with or without a
message in somebody's hands. Two of these one after the other are left to the proofs, which
have no bounds. The bounds `MaxUsers`, `MaxLag`,
`MaxTime`, `MaxStall`, `MaxTokens`, `MaxMade`, `MaxTrouble` and `BufferSize`
are constants of the modules, and the proofs hold for all of their values. In the accounts
and sessions runs goroutines and keys are symmetric where only safety is checked. The
Lifecycle runs switch the deadlock check off because the process ends, the pipeline run
because the pipeline comes to rest.

`NoFalseAvailable` is not unconditional. `FilterTrustworthy` asks that reads go to the
primary (the default; `k8s/003-configmap.yaml` sends them to standbys), nobody renames a
profile, every commit is acknowledged and seeding succeeds. Each condition is needed: dropping
it makes TLC find a counterexample. Nor does anybody read his own writes at once, with standbys:
`EventuallyFound` is what is left, that an account which stays is told missing only
finitely often. RefreshToken is not in it, for it takes every database error for a missing
account, and neither is Register's 409, which is `AcknowledgedHappened`.

`AtMostOnce`, `LogsInOrder` and `LogsFollowTopic` hold of a topic, and `NoAmplification` of
the events', until its group is in `disturbed`: a rebalance between the fetch and
the commit of a message lets it be read again, by another consumer or the same, and a late
commit can set the group's offset back. A crash of a process that alone had a message, or any
rebalance while nobody has one, does no harm. `WrittenInOrder` holds always, of log
records; a batch of two events that is repeated puts the first behind the second.
`Delivered` holds through rebalances, but not through faults, each of which can lose a message.

`RatesFresh` is about a positive CACHE_TTL, and a restart with another one is not modelled in
Exchange. `Flushed` is about a Close that closes the log producer: one that panics before
(`lifecycle_panic`) loses what is in the channel. In `FailsClosed` the exit with status 1 after
`Run` is reached only with a LOG_LEVEL above error, for otherwise the `slog.Error` of `main`
before it panics.

The violated properties state what a comment promises; `PROJECT.json` quotes them:

- a renamed account's new keys are not in the bloom filter, so they are reported
  free (`rename_available`);
- gRPC Register leaves the username blank, which the unique constraint accepts once
  (`grpc_register`);
- after `Dependencies.Close` the default logger still feeds a closed channel, and
  `main` closes it a second time (`lifecycle_panic`).

Other behaviour the models show, where nothing is checked because the code plainly
gives no guarantee: concurrent registrations of one email answer 500 and not the 409
of `test/e2e/auth_test.go:37`, since `isUniqueViolation` compares with a text
Postgres never sends; within a minute an address may be admitted nearly twice the
"max requests per minute" of the README (`WindowBound` is what holds); after a
startup error the other server is not stopped before its database is closed, though the
process then ends (`ShutdownEnds`); a refresh token opens the routes that ask for no role
for as long as it lives (`SessionBounded` has the two lifetimes for this reason); a
CACHE_TTL that is not positive caches for ever; an answer of the API without rates is
cached like any other; `PublishResponse.Id` over gRPC is not the id of the event.
Outside the models: `README.md:179` says that `make migrate-down` rolls back the last
migration, and `cmd/migrate/main.go:41` rolls back all of them; `README.md:150` names
REDIS_ADDR, and `config.go:105` reads REDIS_ADDRS; the attributes a handler derived with
`WithAttrs` has collected are not seen by `drain`, which runs on the first handler.

### Fairness

`FairSpec` of Accounts: a handler that has begun goes on (goroutines are scheduled,
and calls end, by an error if need be); the standbys catch up; a TTL runs out unless
the key is written again. No request has to arrive. Weak fairness of `Expire` is
justified because a key is only rewritten while a request holds a copy of the row,
and copies of a deleted row run out. `FairSpec` of Lifecycle: the main goroutine and
the drain goroutine are scheduled, publishing returns (with an error if need be), and
each RPC ends. The last is an assumption about clients: `GracefulStop` has no deadline, and the
stream of the reflection service (`server.go:150`) lasts as long as its client likes. HTTP handlers and consumers are given no fairness: `ShutdownEnds` does
not depend on them, thanks to the 30 seconds of `http.Shutdown`. `FairSpec` of Exchange:
a request that has begun goes on, since Redis commands and the HTTP client have timeouts;
it may fail each time. `FairSpec` of Pipeline: the drain goroutine, writes and consumers
go on, again because the calls they make end. No fault has to happen, and none has to
stop happening other than by its bound: `Settles` says what follows after the last one.

## The proofs

`AccountsProofs`, from `AccountsAssumption` (the constants have their types, the
blank string is nobody's email, `NoRow` is no row):

- `TypeCorrect`, by one lemma per operation. `TypeOK` carries what the locals hold at
  each label, without which a handler's use of its user cannot be justified.
- `AccountsImplementDirectory`: only `RegCreate`, `UpdWrite` and `DelRow` change the
  table, each as `Insert`, `Change` or `Remove`. `AlwaysUnique` then follows with
  `FreshIdsEmpty` as strengthening, `NeverRevived` from the abstract step alone.
- `CacheIsTruthful` and `NeverPhantomTaken`, from `HistoryInv`: every table a standby
  may show and every user a handler is about to cache is a past version. The cache
  alone is not inductive, since what it gets was read several steps earlier.
- `NeverForeignValues`, from `WriteInv`, a part of `HistoryInv`: whatever UpdateProfile is
  about to write was asked for in that column or is a value the row had. `DirectoryInv`
  tells the change from the insert of the row, which writes values nobody had.
- `FilterComplete` and `NeverFalseAvailable`, under `FilterTrustworthy`, from
  `FilterInv`: every read is of the primary's table, no handler is in UpdateProfile, and each
  committed key is in the filter or pending in its Register.
- `AlwaysUnambiguous`: every table a standby may show was once the primary's, and those have
  unique keys. The primary's uniqueness alone says nothing of them, so the invariant is
  about all of `Views`.
- `FoundWhileEverywhere`: once all of `Views` show a row as it is (`Everywhere`) they do until it
  changes, and no failure makes Login, GetProfile or UpdateProfile report it missing. With
  fairness of `Replicate` that is `EventuallyFound`.
- `AcknowledgedAlwaysHappened`, from `AcknowledgeInv`: between its statement and its answer
  a Register names an account that has been in the table with its keys, and a Delete one
  that was there and is not, with an id already given out, so that no insert brings it back.
- `DeletedNeverCachedAgain`: `Forgotten` (the row is gone from the primary, from every table a
  standby may show and from every handler's locals) is stable, and then no step
  writes that user to Redis. This is why the TTL's end is the end in `DeletedLeavesCache`.
- `RequestsBounded`: `CallsLeft` counts the calls from a label to the answer. It is at most
  13, for a CheckAvailability that finds both keys in the filter and fills the cache twice.

`RateLimiterProofs`, from `LimiterAssumption` (the eviction age is at least a full
refill plus the longest stall; ten minutes against one): `LimiterInv` says that entries
name distinct limiters, that a bucket was last paid from at most `MaxStall` after its
visitor was seen, hence is full when it is evicted, and that whoever holds a limiter got
it recently. `LimiterTypeCorrect`, `NeverOrphaned`, `NeverOverAdmitted`,
`StaleAlwaysEvicted` and `LimiterImplementsBucket` follow.

`LifecycleProofs`: `LifecycleInv` relates the line main is at with which servers are
told to stop, what may be in flight, what is closed, and counts the errors that may
still be sent. `LifecycleTypeCorrect`, `AlwaysFlushed`, `AlwaysDrained` and
`SendersNeverBlocked` follow for any number of clients and any buffer. `ExitInv` adds how
far Close has come and why main is about to fail; `FailsAlwaysClosed` and `NoCleanExit`
follow. The latter is the other side of `lifecycle_panic`: no shutdown at all ends with
status 0, since main's deferred Close, the second one, closes the log channel again.
`ShutdownProgress` gives the main goroutine, and the drain goroutine once its channel is
closed, a number of steps that is left (`StepsLeft`, `DrainLeft`), which their own steps
lower and nothing raises.

`SessionsProofs`, from `SessionsAssumption` (the limits bound the lifetimes of every
configuration that loads): `SessionsInv` says of each token, and of each pair about to be
signed, when its account last had what it claims, counted back from its expiry. The
properties are about requests in progress and say nothing of tokens in clients' hands, so
they are not inductive. `KeepsRoles` carries these facts over a change of a role: what an
account held since a time, it still held since that time. `SessionsTypeCorrect`,
`AdminAlwaysBounded` and `SessionAlwaysBounded` follow, for any environments, and from the
two `NoEscalation`: nobody gets a right that no row ever had.

`ExchangeProofs`: `ExchangeInv` bounds the age of a quote at every place it can be: in the
hands of a request that is about to store it, in Redis, where its expiry counts from the
storing and not from the fetching, and in the answer. `ExchangeTypeCorrect`,
`AlwaysRatesOfBase` and `AlwaysRatesFresh` follow. `AnsweredInTime` bounds the time of a
request: `Deadline` is the start of its present wait and a stall for each wait that is left
(`Waits`, at most four), and is never passed nor put off.

`PipelineProofs`: `SourceInv` orders the records of a process by number through channel,
writer and topic: what the writer has is behind all of the topic's, or was the last it wrote,
and before all of the channel's, and it is one record, which is why a retry keeps the order.
`GroupInv` says that until a group is disturbed only the owner has a message,
that it reads on at the committed offset or ahead of it, and that a message being handled
is committed and lies above all handled ones; `LogsInv` says that a row is a handled message,
in the order of the offsets. `PipelineTypeCorrect`, `HandledAtMostOnce`, `AlwaysWrittenInOrder`,
`LogsAlwaysInOrder` and `LogsComeFromTopic` follow, for any number of processes, faults, crashes
and rebalances.

`DeliveryProofs`: every step of `Pipeline` is a step of `Delivery` or changes nothing it
sees (`PipelineImplementsDelivery`). The mapping needs `FreshInv`: a process writes only its
own messages and their numbers have been given out, so that a message taken from the channel
is new. `LogsAlwaysFollowTopic` carries along the offsets of the
rows, which no variable holds: each `Handle` adds one above all handled.

`LoopNeverAmplifies` needs a potential: `LoopInv` adds to what was made what may still be made
of it (`Load`: the events with the writers, in the topic and being handled), and keeps the sum
under two for each request and one for each fault; a batch that is repeated adds as many to the
load as it adds faults. The number made is not inductive by
itself: a step that logs a record pays for it with an event, or with a fault. A disturbed group breaks it,
for an event handled again logs again. `NothingSkipped` is about rebalances, without faults:
`ReachInv` says that an offset which the group, or a consumer that may still commit, is past
was handled or is in some consumer's hands, so that no late commit can skip one; `RowInv` that
handling a log message leaves a row.

Only model-checked: `DeletedLeavesCache`, `EventuallyFound`, `ShutdownEnds`, `Answered`,
`Delivered` and `Settles` (liveness under fairness; of the first five
`DeletedNeverCachedAgain`, `FoundWhileEverywhere`, `ShutdownProgress`, `AnsweredInTime` and `NothingSkipped` prove what is safety in them, and
fairness does the rest), and `LoggingNeverBlocks`, which says of an action that
it can be taken (ENABLED), beyond this prover.

## Not modelled

- generated protocol code; bcrypt; metrics, request ids and CORS, on which no state
  depends;
- the transaction manager, the caching repository's Create, Update and GetByID, and
  `DeletePattern`: nothing the server wires calls them;
- `WithAttrs` and `WithGroup` of the log handlers, which nothing calls either;
- the migrations command: the version, the lock and the dirty flag are golang-migrate's,
  and the command is one call of it;
- the arithmetic of a conversion and of time beyond 64 bits.

What could still be added: proofs about more than one server process in Accounts, each
with a bloom filter of its own, and a refinement that joins Lifecycle's counted channel
with Pipeline's records.
