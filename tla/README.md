# go-identity-service in TLA+

A verification project for `go-identity-service`: an HTTP and gRPC service that
keeps user accounts in PostgreSQL, hands out access and refresh tokens, caches
users in Redis, and tells the rest of the world about new users through a
transactional outbox, Kafka and idempotent consumers.

## 1. Inventory

| Component | State it keeps | Operations | What makes it correct |
|---|---|---|---|
| Outbox (`internal/outbox`) | table `outbox_events`: status, attempts, locked_at; in each process a batch in hand | insert in the service's transaction; `FetchBatch`, `Publish`, `MarkProcessed`, `MarkFailed`; shutdown | no event lost, duplicates bounded and paid for, final statuses final, every event settled |
| Kafka consumer (`internal/kafkaconsumer`) | group offsets; polled records; `processed_kafka_events` | poll, one transaction per record, commit of the offset | each event audited once, duplicates recognised, no offset committed for an event that was never audited |
| Audit (`internal/audit`) | `user_audit_events`, unique by source event | insert in the consumer's transaction | one row per event, together with its idempotency row |
| Auth service (`internal/auth`) | `refresh_tokens`: expiry, revocation | register, login, refresh (rotation), logout | a refresh token is exchanged once; a revoked one is never accepted |
| Access (`auth/token.go`, `auth/middleware.go`, `grpcapi`) | signed claims in the caller's hands, `users.role` | issue and acceptance of access tokens, `RequireAuth`, `RequireRole`, `RequireSelfOrRole`, interceptor | nobody acts on an authority lost long ago; every method asks for what its route asks for |
| Users (`internal/user`) | `users`, `user_profiles` | create, create with profile, update, delete, read | addresses unique, user and event written together, errors as documented |
| User cache (`user_cache.go`) | Redis key per user, with TTL | read through, invalidate after write | a stale value lives for a bounded time only |
| Rate limiters (`internal/ratelimit`) | counter and window per key | `Allow`, the keys of the auth handlers | fewer than two limits in any interval of one window, nobody refused for another's requests, no key full for ever |
| Life cycle (`internal/app`) | servers, worker, consumer, pools | start, error of one part, shutdown in order | parts stop before what they use is closed |

How they interact: `Register`, `CreateUser` and `CreateUserWithProfile` write
the user and its event in one PostgreSQL transaction; the outbox worker of any
process claims the event and publishes it to Kafka; the consumer of any process
reads it and writes the audit row and the idempotency row in one transaction,
then commits the offset. All processes share the three stores and nothing else.

What is hard here: several processes on the same rows with time-limited claims;
answers that are lost after their effect; a broker that delivers more than once;
a consumer that is no longer the owner of what it works on; reads that are stale
when used (cache, token, uniqueness checks); the shutdown of parts that use each
other. `PROJECT.json` lists these hazards with their lines.

## 2. Modules

| Module | Models |
|---|---|
| `Outbox` | table, workers, broker as seen by the producer |
| `OutboxPromise` | what the outbox promises, without claims and workers |
| `Consumer` | one partition, the group, the consumers' transactions |
| `ConsumerProofs` | theorems about `Consumer` |
| `Pipeline` | `Outbox` and `Consumer` joined by the topic |
| `Delivery` | what the service promises about an event, without outbox, topic and consumers |
| `PipelineProofs` | theorems about `Outbox`, refinement of `OutboxPromise`; then theorems about `Pipeline` from those of its components, refinement of `Delivery` |
| `RefreshTokens` | refresh, logout, login, registration and deletion on `refresh_tokens` |
| `Rotation` | what the auth service promises about refresh tokens |
| `RefreshTokensProofs` | theorems about `RefreshTokens`, refinement of `Rotation` |
| `Accounts` | creations, update and deletion of accounts, profiles and outbox rows |
| `Directory` | what the user service promises about accounts, without requests and transactions |
| `AccountsProofs` | theorems about `Accounts`, refinement of `Directory` |
| `UserCache` | row and cached copy of one user |
| `UserCacheProofs` | theorems about `UserCache` |
| `RateLimiter` | the keys and fixed windows in Redis, and what the handlers do with the answers |
| `RateLimiterProofs` | theorems about `RateLimiter` |
| `Access` | access tokens, the decisions of both APIs, the role column |
| `AccessProofs` | theorems about `Access` |
| `Lifecycle` | start, signal, limited waits and closing in `app.Run` |
| `LifecycleProofs` | theorems about `Lifecycle` |

`MC*` modules give TLC its instances, each `.cfg` is one run.

`PipelineProofs` extends `Pipeline`, which extends `Outbox`, so it is the place of
the outbox's theorems too.

Still to do: the readiness handler of `Lifecycle`; and `Accounts` joined to
`Pipeline`, in place of the `Create` action of `Outbox`, which stands for the
commit of a creation.

## 3. Outbox

**State.** `status`, `attempts`, `lockAge` are the columns of a row (`ABSENT`
before the insert commits, `lockAge` the time since `locked_at`). `work[w][e]`
is what the loop of `ProcessOnce` has done with an event of its batch: fetched,
published or refused by `Publish`; `left[w]` is the time until the deadline of
`processCtx`. `copies` counts the records on the topic, `inflight` the records
the producer has given up and the broker may still append.

**Actions.** `FetchBatch`, `MarkProcessed` and `MarkFailed` are one SQL statement
each and therefore one action each; between them every interleaving is possible.
`Eligible` compares the age by the database's clock with a limit taken from the
process's clock (`lead`, at most `ClockSkew`). `FOR UPDATE SKIP LOCKED` may pass
over rows that another session is just updating (`RowLocks`). The three outcomes
of `Publish` are `PublishOk`, `PublishError` (ambiguous) and `PublishExpired`;
after each the mark runs, fails (`MarkError`) or is refused because the context
is over (`MarkExpired`). A mark whose answer is lost is the mark itself: the
worker does the same in both cases.

**Abstractions.** Time is kept as ages and remaining times and moves by `Tick`
(all workers wait) and `Delay` (some worker is busy, counted as a fault). The
start of `processCtx` and the claim are one action. Statement and produce
timeouts show as `FetchLost`, `PublishError` and `MarkError`. A statement sent
before the deadline takes effect before it or not at all.

**Run.** `outbox`: two workers, three events in batches of two, so that one event
waits for a later batch, two attempts, and a lease of 1 under a deadline of 2,
which the configuration accepts: it validates each of the two alone. Both workers steal
from each other and mark late. `MaxFaults` bounds crashes, shutdowns, errors
and delays; two are a crash and a late record, or a failed mark and a delay, in
one behaviour. The case of a lease that covers the deadline and the skew of the
clocks is run in `pipeline` (`NoSharedEvent`).
`ReclaimsNeedFaults` bounds the attempts by the faults; `KeepsPromise` is the
refinement of `OutboxPromise`; `EventuallySettled` says that every committed event
is PROCESSED or FAILED in the end. Fairness: `Run` loops until it is
cancelled (`Fetch`, `Handle`, `Stop`), a process that ended is started again by
its orchestrator, and the clock runs (`Tick`). No fault is fair, and there are
finitely many: a broker that is down for ever settles nothing.

**What the code does not promise.** Delivery is at least once: `CopiesWithinAttempts`
is the strongest bound, and `attempts` itself may pass `MaxAttempts` because
`FetchBatch` does not look at it: a batch whose deadline passes keeps
its claims and is claimed again. A `FAILED` event may be on the topic.

## 4. Consumer

**State.** `log` is one partition, `committed` the group's position, `owner` the
group's assignment. A consumer has a read `position` in the client, a `batch` it
works on and a `stage` inside `processRecord`. `processed` and `audit` are the
two tables; `skipped` (a history variable) the offsets that a consumer went past without
processing them.

**Actions.** A transaction is begun with `WasProcessed` (sees committed rows),
goes on with `Handle` (the audit insert, which waits for an open insert of the
same event and fails if one is committed) and ends with `CommitTx`; then
`CommitRecords`. `Reject` is a record no transaction can process. `GiveUp` is
the return from `EachPartition`: the rest of the poll is left, and the client's
position is already past it. `PollError` is the `continue` of `Run`. The
`MarkProcessed` insert and the commit are one step: no other transaction sees
anything between them.

**External.** The group (`Assign`, `CommitRefused`), the topic (`Append1`): the
partition may move at any time, also while its owner is working, because the
client is created without a rebalance callback and without blocking rebalances.
A group without a committed position reads from the start, the client's default.

**Runs.** `consumer`: two consumers, a good and a bad event, up to three records
(`Lengths`), three assignments, one error. That is enough for a zombie to finish its batch
after the new owner has read and committed the same records. Every record is
processed or given up in the end; fairness of polling, of the steps of
`processRecord` and of an assignment when nobody has the partition.
`consumer_audit` is the finding below. That a single consumer, restarted at any
point and with duplicates on the topic, gives nothing up without an error is
`DropNeedsFault` of `Pipeline`.

**Finding.** README.md:80 says consumers "process events idempotently and store audit
records". After one error, or one fetch that carries an error, the records left
in the poll are never read again once a later offset is committed: their events
have no audit row (`CommittedIsAudited`). What does hold is
`CommittedIsAccounted`: every committed offset was processed or given up.

## 5. Pipeline

**Composition.** `Pipeline` extends `Outbox` and takes an instance of `Consumer`.
A step of the outbox that counts one more copy appends that event's record to
the log (`AppendRecord`), and every other step is one of the consumers' (`Inward`);
neither touches the state of the other. `Append1`, by which the topic of
`Consumer` grows on its own, is not used, and no event is bad, because the
service publishes well-formed events only. Each side has its own budget of
faults. `readers`, a history variable, is who ever had the partition.

**Promise.** `Delivery` knows accepted events and audit rows. `KeepsDelivery`
says that through all retries and redeliveries the service refines it. `DropNeedsFault`:
with one consumer, which may be restarted, no event is given up unless there was
an error somewhere. With two it is false, and the model shows why: two
transactions on the same event race, and the loser drops the rest of its batch.
`EventuallyAudited`: a committed event is audited, or was given up by a named
component; fairness is that of the components.

**Run.** `pipeline`: one event, two workers, two consumers, a lease of 2 over a
deadline of 1 and a skew of 1, two faults of the outbox, one of the consumers, two
assignments. One event has up to `MaxAttempts` and more copies at
different offsets, so duplicates, zombies and dropped batches all occur; larger
numbers of events are the subject of the runs of the two components.

## 6. Refresh tokens

**State.** `account`, `token` and `owner` are the committed rows of `users` and
`refresh_tokens`; `expired` says which tokens are past `expires_at`, `held`
which ones a client has received. A request has a place `pc` and what it has
read or inserted so far: `old`, `new`, `who`. `parent` and `session` are history
variables: the exchange a token comes from, and the login its chain began with.

**Actions.** One action per SQL statement. A transaction's writes become
visible in `RefreshCommit`; until then `Locked` makes other updates of the same
token wait, and a token insert makes the deletion of its user wait (the foreign
key takes a lock on the user's row). After the wait a statement sees what has
been committed meanwhile: `RevokeOld` and `LogoutRevoke` ask again whether the
token is live. Logout and login have no transaction, and a deletion may fall
between their statements (`LogoutMissed`, `LoginOrphan`). Register appears by
its commit only; `Accounts` has its statements. Expiry may happen at any time
and is read once, in `RefreshFind`. Each of the three may fail before its effect
(`LoginError`, `RefreshError`) or after it: `RegisterLost`, `LoginIssueLost` and
`RefreshCommitLost` are writes whose answer does not arrive, and leave a live
token that no client holds; after the last one the old token is gone too.

**Runs.** `tokens`: three requests at a time, one user, three tokens, one fault.
Three requests are needed for two of them to present one token while a third
logs out; three tokens for an exchange of an exchanged token. Requests come
back for more, so behaviours are longer than three calls. Fairness: a request
that was accepted goes on (`Serve`); clients, deletions, expiry and faults are
not fair. `RotatesInOneStep` is the refinement of `Rotation`: with every
interleaving, tokens look as if issued, exchanged and revoked in single steps.

**Finding** (`tokens_logout`). The test `TestService_Logout_IsIdempotent`
(service_test.go:429) says that a logout succeeds also when there is nothing left
to revoke, and so it does when it finds that out by its first statement. A
logout that finds the token live, while another request revokes or deletes it
before the update, updates no row and is answered with an internal error.

Met on the way, outside any property: the loser of a race of two refreshes gets
an internal error, not the documented 401, for the same reason; and
docs/openapi.yml:126-127 and :155-156 document a 404 for refresh and logout
that the code never gives.

## 7. Accounts

**State.** `email`, `profile` and `events` are the committed rows, by account;
`origin` keeps which request created an account and outlives it. A request has
its place, its kind `op`, its address `mail` and the account `id`.

**Actions.** The three creations share their statements: `CreateCheck`,
`CreateInsert`, `CreateExtend` (profile or first token), `CreateAnnounce` (outbox
row), `CreateCommit`. `Busy` is the wait on the unique index for an open
transaction with the same address; afterwards the insert goes on or is a
conflict. Updates are three statements, deletions one. `Normal` is what
`TrimSpace` and `ToLower` make of an address; it is a constant with one
assumption, that normalising twice changes nothing.

**Promise.** `Directory` knows accounts, not requests: an account joins under an
address nobody has, in one step with its profile and its event, changes to an
address nobody else has, and leaves for good, its event staying. `KeepsDirectory`
says that the statements of concurrent requests amount to such steps. In the
mapping an account has joined when its row is committed, so `CreateCommit` is
`Join`, `UpdateRow` is `Change`, `DeleteUser` is `Leave` and all other statements
are stutters. `EmailsUnique` and `AnnouncedOnce` say of the tables what the
directory says by its steps.

**Runs.** `accounts`: two requests, three spellings of two addresses, three
accounts, one fault. Two requests are enough for every race on the index; the
third account is for an address that is used again after a deletion. Fairness as
for tokens: nobody waits for ever for another's address.

**Finding** (`accounts_conflict`). docs/openapi.yml:269 and :402 document a 409
for an address in use. When any other request takes it between their check and
their write, `CreateUser` and `UpdateUser` wrap the error of the index without
mapping it and answer 500; `Register` and `CreateUserWithProfile` map it.

## 8. User cache

**State.** One user: versions of the row, the copy under the Redis key with its
remaining life, and what each `GetUser` has in hand. `lag` and `behind` are how
long a copy has been out of date. `rowThen` and `missed` are history variables
for the causes of staleness.

**Actions.** `GetUser` is `GetHit`, or `GetMiss`/`GetError`, `Find`, `Store`; a
write is `Write` and then `Invalidate`. Errors of the cache are ignored by the
code and appear as lost steps. `Tick` is the clock, Redis' expiry included.
`ReadTime`, the most time between reading the row and storing the copy, is an
assumption: the contexts of the request and of the Redis call bound it.

**What holds.** Not freshness: a read that a write overtakes stores an old copy
after the invalidation. `StaleHasCause` names the only three reasons there are,
and `StalenessIsBounded` says that none of them lasts longer than `TTL` plus `ReadTime`,
because a hit does not renew the time to live. `EventuallyFresh` needs the
clock, the steps of a read that has begun, and the invalidation of a write that
has begun to be fair; changes and faults are finitely many.

**Run.** `user_cache`: two readers and two writers, two changes, two errors,
`TTL` 2, `ReadTime` 1: a late store after a lost invalidation, with two units of life left, fits
into it. The key of another user is never touched, so one user is enough.

## 9. Rate limiters

**State.** `count` and `life` are the keys of Redis with their values and times
to live. The keys are those the handlers build (`Key`): route and client, for
logins also the address as `Normal` leaves it. The other variables observe one
subject, chosen at the start: `passed` during a `watch` of one window that begins at
any time, `runs` of the script since its key was created, `losses` of that key.

**Actions.** The script is one step of Redis (`Run`). What can go wrong lies
around it: `Allow` has its answer, `RunUnanswered` is a run nobody has the answer
of, because the client sends it again or the handler has given up, and
`AllowError` is an error without a run. `Unlimited` is the route with limit 0, a
window below a millisecond is `Window` 0. Counts above a limit are not told
apart, so the state is finite without a bound on requests.

**What holds.** A limit is not "at most `Limit` in any window": windows begin with
the first request of a key, so an interval of one window may see the end of one
and the whole of the next. `AdmissionIsBounded` is the sharp form: fewer than two
limits, and one more for each time Redis loses the key. `RefusalIsOwn`: a subject
is refused only after as many runs for itself, some of which it may have no answer of.
`EventuallyOpen` needs the clock only.

**Run.** `rate_limiter`: a login limit of 2 in a window of 2, a registration
window that is refused, an unlimited refresh; two clients, two addresses in three
spellings, one fault. A window of 2 is the smallest that a watch can begin inside of.

## 10. Access

**State.** `role` is the column; `life` the longest time to live of the tokens of a
user and a role; `session` what a login or refresh has read and not yet signed;
`call` a request that was accepted and has not taken effect. `since` is a clock
that the property reads: how long the row has not held a role.

**Actions.** `ReadUser` and `Issue` are the two halves of `Login` and `Refresh`:
the role is in the token that is signed, not in the row at that time. `Decide` is the decision
of either API, by the token only; `Serve` the effect, which may come after the token
has expired or the row has gone. `ChangeRole` is external: no operation of
the service changes a role. The age of each half is limited by `IssueTime` and
`ServeTime`, which stand for the timeouts of the statements and of the servers.

**What holds.** `AuthorityIsRecent`: who is served held the authority less than
`AccessTTL + IssueTime + ServeTime` ago. `SameDecision`: on the operations both APIs
offer, they decide alike, although HTTP wraps its routes and each gRPC method
asks for itself. `EventuallyCurrent`: when roles have stopped changing, tokens agree with the table.

**Run.** `access`: two users, so that one can act on the other's row, one login
and one call at a time, two role changes, `AccessTTL` 2 and the two times 1. Tokens
accumulate in `life`, so one session at a time suffices for several tokens at
once. Fairness: time, `Issue` and `Serve`.

## 11. Life cycle

**State.** `phase` of `Run`, `todo` (what is left to start, or to stop and
close), the `open` resources, the four parts, and which of them has a
connection of the pool in hand.

**Actions.** `StartNext` follows the order of `Run`; `StartError`, `ServeError`
and `Signal` lay down the order of the end, with the deferred calls last. Each
part is told to stop and is then either `Stopped` or, after its limited wait,
`TimedOut` and left behind, still working. `Close` and `Closed` are the two
halves of closing a resource: the pool refuses new work at once and returns when all
connections are back (this is pgxpool's behaviour, taken as given).

**Run.** `lifecycle`: all parts, one failure of the start or of the server.
`ResourcesOutliveParts` allows for parts that were left behind, because the code
does; `NothingCutOff` shows that even these never lose a transaction to the exit
of the process, since closing the pool waits for them; and `EventuallyEnds` that
this wait is no deadlock. Fairness: `Run` goes on, and a connection comes back
(`Release`), since statements and transactions have timeouts. That a part ever
finishes (`Finish`) is not assumed.

## 12. Proofs

The theorems hold for every value of the constants, within the assumptions named
in the modules: sets of workers, events, requests, readers of any size, any
configuration, any bound. All steps are checked to the leaves. Each component
has `TypeCorrect`, on which the others rest, and then:

- `PipelineProofs`, first about `Outbox`. `NoEventLost` and `NoEarlyFailure` follow from `StatusInv`: what a
  worker holds as published is on the topic, also when its claim was stolen
  meanwhile. `DuplicatesCounted` needs `CountInv`: a row's attempts pay for its
  copies, for the records in flight and for every worker that still has it in hand
  unpublished; the count of these workers is a cardinality, and each step
  changes it by at most one. `LeaseProtectsWork` needs `LeaseCovers`
  (`ProcessTimeout + ClockSkew <= LockTimeout`), which the configuration does not
  enforce and without which it is false; its invariant says that the age of an
  active claim and the time left to its worker never exceed the deadline together.
  `AttemptsNeedFaults` needs `SkewIsShort` (`ClockSkew <= LockTimeout`) only: `PaidInv`
  sets the attempts of a row, and those its refusals will lead to, against the
  faults, with one to spare while its claim is fresh.
  `SettledForGood` is an action property; `OutboxKeepsPromise` the refinement,
  by the simulation of each step.
- `ConsumerProofs`. `AuditIsIdempotent` covers the two tables together: the audit row of an
  open transaction exists nowhere else, which the unique indexes enforce by
  waiting. From the same `AuditInv` follows `AuditRowsAreFinal`: no commit meets a
  row that is there. `AuditsArePublished` says that every row is of an event on the
  topic that passed the handler's checks; `PassedInv` carries that through the
  transaction. `CommitsAreAccounted` rests on `AccountInv`: what lies between the
  group's position and the record in a consumer's hands is accounted for,
  also in the hands of a consumer that has lost the partition.
- `RefreshTokensProofs`. `TokenInv` joins three parts: inserted tokens are
  private to one request (`InsertInv`), a request past `RevokeOld` is alone with
  its old token (`LockInv`), and exchanged tokens are not live (`ChainInv`). From
  it follow the properties and the refinement of `Rotation`.
- `AccountsProofs`. `AccountInv` says that an address that is open in a transaction
  is in no committed row and in no other transaction; uniqueness of spellings follows
  because only normal forms are stored. `AccountsKeepDirectory` maps each step: that a
  commit is a `Join` needs the invariant as a whole (the index for a free address,
  the sequence for a new account, the outbox for its first event). `DeletionIsFinal`
  is read off the directory, in which no step brings an account back.
- `UserCacheProofs`. `AgeInv`: lag and remaining life together never exceed
  `TTL + ReadTime`, and what a reader holds is behind for no longer than it is
  held; from it `StalenessBound`. `StaleHasCause` is inductive with the types.
- `PipelineProofs`, then about `Pipeline`. `PipelineRunsOutbox` and
  `PipelineRunsConsumer` show that each component behaves in the pipeline as it
  does alone, so that the theorems about `Outbox` and `Consumer` hold there without
  being proved again;
  `ConsumerProofs` is instantiated with the pipeline's topic, which is why
  `Lengths` is a constant set and may be all of `Nat`. `PipelineDelivers`, the refinement of
  `Delivery`, adds `LogAccepted` (the log holds accepted events only).
  `DropsNeedFaults` rests on `CalmOutbox` (without faults every claim is fresh and
  the first) and `CalmGroup` (a lone consumer's batch continues the committed position, also
  after a restart).
  The topic is where both sides meet: `TopicAgrees` says that the outbox's count
  of an event's copies is the number of its records in the consumers' log. With
  it theorems of one side speak of the other: `RecordsCounted` (no more records than
  attempts), `DuplicatesNeedFaults` (no duplicate record without a fault, with
  `SkewIsShort`) and `NothingLostOnTheWay` (a settled event is on the topic, and
  each of its records that the group has committed is audited or given up).
- `RateLimiterProofs`. `WatchBound` says what may have been let through, by how the
  life of the key and the watch lie to each other: a key that expires within the
  watch was created before it, so one request of its window is outside.
  `WindowsEnd` says that a living key's window only runs down, whatever is requested.
- `AccessProofs`. `SessionInv`, `TokenInv` and `CallInv` carry the time since the
  row held a role through reading, signing and serving; their sum is the bound.
- `LifecycleProofs`. What `Run` does next is a final piece of one of two fixed
  orders, whichever way it came into the end: a failed start, a failed server or a
  signal. `IInv` says what is open and running by the length of that piece alone
  (`StartTurn`, `StopTurn`), which makes it inductive where the properties are not:
  `ResourcesOutliveParts` (`PartsOutlived`) says nothing of what is still to be
  closed. `NothingIsCutOff` uses that only the pool that is being closed has
  connections out (`PoolKept`). `EndingWaitsForPoolOnly` and `EndingShrinks` are the
  safety half of `EventuallyEnds`: while anything is left to do in the end, `Run`
  waits for nothing but a part with a limited wait or connections of the pool, of
  which none is handed out any more; and every step of `Run` leaves less to do.

## 13. Only model-checked

Liveness and fairness (`EventuallySettled`, `EventuallyAccounted`, `EventuallyAudited`,
`EventuallyAnswered`, `EventuallyFresh`, `EventuallyOpen`, `EventuallyCurrent`,
`EventuallyEnds`) are checked by TLC only: the prover does not reason about fairness.
Every other property of the passing runs has a theorem.
Some theorems have no run of their own, because stronger runs cover
them or because they follow from what the runs check: `NoEventLost`,
`NoEarlyFailure`, `SettledForGood`, `AnswersAreStored`, `RevocationIsFinal`,
`DeletionIsFinal` and `ProfilesMatchAccounts` (both contained in `KeepsDirectory`),
`AuditRowsAreFinal`, `AuditsArePublished`, `WindowsEnd`,
`EndingWaitsForPoolOnly`, `EndingShrinks`, `RecordsCounted`, `DuplicatesNeedFaults`
and `NothingLostOnTheWay`. Their formulas hold on the instances of the runs.

## 14. Not modelled

- The in-memory limiter (`limiter_in_memory.go`): only its tests construct it.
- `LogPublisher`, which is not used by the application and changes no state.
- Configuration, validation, HTTP decoding and encoding, metrics, telemetry,
  logging and generated code keep no shared state; the configuration's
  constraints appear as assumptions.
- Password hashing, signatures of access tokens, the Redis, PostgreSQL and Kafka clients
  are libraries, modelled by what the code relies on where it does.
- Reads without consequence (lists, `GetUserByEmail`) and columns nothing
  depends on (names, ages, roles).
- A gRPC server whose listener fails: `Run` does not notice, and the model
  treats it as running.
