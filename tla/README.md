# A TLA+ model of the job portal

The job portal is a Go API (`src/cmd/main.go`) and a notification worker
(`src/cmd/worker/main.go`) over PostgreSQL, Redis and RabbitMQ. Every handler is
a sequence of calls to these services, each of which commits on its own: nothing
ties an INSERT to the message that announces it, a row to its copy in the cache,
or a republished message to the acknowledgement of the original. The models take
one such call as one step, let the calls of different requests and processes
interleave, let processes die between them, and say what still holds.

## Inventory

| Part | Source | State | Operations | Hard because |
|---|---|---|---|---|
| Apply handler | `internal/handlers/job_handler.go` (`ApplyToJob`, `publishNewApplicationEvent`), `internal/repository/application_repo.go` | table `applications`, unique per (job, user) | check job, INSERT, look up e-mail, publish, park in the outbox | the INSERT and the announcement are separate calls; errors after the INSERT are swallowed; requests race |
| Outbox and retry worker | `internal/queue/outbox_worker.go`, `internal/repository/outbox_repo.go` | table `outbox_events` | scan (LIMIT 50), publish, mark published, mark for retry | publish and mark are not atomic; the worker lives inside the API process and shares its connection |
| RabbitMQ client | `internal/queue/rabbitmq.go` | one connection, one channel | dial at start, publish | dialled once, never again; no publisher confirms |
| Notification worker | `cmd/worker/main.go` | the delivery in hand | send, republish with a higher `x-retry-count`, dead-letter, Ack, Nack | republish and Ack are not atomic; channels close; SMTP errors are ambiguous; it feeds the queue it drains |
| E-mail sender | `internal/email/email.go` | none | SendEmail | an error does not mean that nothing was sent |
| Job CRUD and cache | `job_handler.go`, `internal/repository/job_repo.go`, `internal/cache/redis.go` | table `jobs`, keys `jobs:all`, `jobs:<id>` | read through the cache, create, update, delete with DEL | cache fills race invalidations; errors of SET and DEL are ignored |
| Applications | `application_repo.go`, `job_handler.go` | `applications.status` | apply, list, update status | check and INSERT, UPDATE and a second statement that is to tell why it matched nothing; rows vanish by cascade in between |
| Users | `internal/handlers/user_handler.go`, `internal/repository/user_repo.go` | table `users` | register, log in, profiles | registrations race for one address; a lost reply makes a client race with itself |
| Sessions | `user_handler.go` (`Login`, `Logout`), `internal/auth/jwt.go`, `internal/middleware/auth.go` | keys `blacklist:<token>` | issue, check, revoke | entry and token expire on two clocks; the check fails open |
| Rate limiter | `internal/middleware/rate_limit.go` | keys `rate_limit:<scope>:<ip>` | INCR, EXPIRE | two calls that should be one; every error is ignored; the client library sends a command again |
| Wiring | `cmd/main.go`, `db/db.go` | the database pool or nil, the clients or nil | start | what failed at start is not tried again |
| Models, responses, Swagger | `internal/models`, `internal/handlers/response.go`, `docs` | none | data types, encoding, generated docs | nothing |

The parts interact through the services only. The apply handler and the retry
worker share `outbox_events` and the API's one RabbitMQ channel; what they
publish to `notifications` the worker consumes. Job deletion touches the cache
and, by ON DELETE CASCADE, the applications. Logout writes the keys the auth
middleware reads.

What makes each part correct:

- *Apply and outbox:* one acceptance per pair; an accepted application is
  announced, or waits in the outbox, unless a nameable failure struck; no event
  without its application; no second event without a lost mark; a parked event
  is eventually published.
- *Worker:* an accepted message is mailed or still kept by the broker; dead
  letters have used up their retries; copies do not multiply for no reason; the
  queue empties.
- *Cache:* a client that has its answer finds its write; staleness has a cause
  and ends.
- *Sessions:* a token whose logout was answered stays refused until it expires.
- *Pipeline:* an accepted application's e-mail is owed until it is mailed, given
  up for dead, or lost to a failure that struck it; without one it is mailed once.
- *Applications:* an answer was true of the tables at some moment of the request;
  no application outlives its job; only the poster's decisions are stored.
- *Users:* one registration of an address succeeds; answers agree with the table.
- *Rate limiter:* no window sees more than twice the limit; a lockout ends unless
  a nameable failure made it permanent.

`PROJECT.json` lists the hazards line by line, with the properties that cover
them.

## Modules

| Module | Models | Extends |
|---|---|---|
| `ApplicationOutbox` | apply handler, outbox, retry worker, RabbitMQ client | standard modules |
| `NotificationWorker` | worker, queues, e-mail outcomes | `FiniteSetsExt` for sums |
| `NotificationDelivery` | what apply handler, outbox and worker promise together | nothing |
| `NotificationPipeline` | API and worker joined at RabbitMQ | INSTANCEs of `ApplicationOutbox` and `NotificationWorker` (through their `_proofs` modules, so that its own proofs can cite their theorems) and, under a refinement mapping, `NotificationDelivery` |
| `JobCache` | job CRUD against PostgreSQL and Redis | standard modules |
| `JobApplications` | posting, applying, listing, deciding and deleting against the tables | nothing |
| `Accounts` | registration, login and profiles against `users` | standard modules |
| `RateLimit` | the middleware's two Redis calls | standard modules |
| `Sessions` | login, auth middleware, logout | standard modules |
| `MC...` | instances for TLC: model values, targets, symmetry | the component |
| `..._proofs` | theorems and their proofs | the component and `TLAPS` |

Operators whose comment begins with "Mutant:" are not part of a specification.
Each is the definition that follows it with a plausible bug, and shows that a
property would notice.

### ApplicationOutbox

`pc[r]` is the next call of the handler serving request `r`, or its outcome.
Every action is one call: `CheckJob` (GetJobByID), `CreateApplication` /
`AlreadyApplied` / `CreateApplicationErr` (the INSERT's three results, the last
one with or without the row committed), `GetUserEmail`, `PublishEvent` /
`LosePublishedEvent` / `PublishEventErr` (the three fates of a publish),
`CreateEvent` / `CreateEventErr`. `retry[a]` is where the row of `a` stands in
the loop of `retryPendingEvents`: read by the scan (`listed`), published
(`handed`), refused (`failed`). `link` is the client: `none` is the nil pointer
left by a failed dial, `closed` an `ErrClosed` channel; neither ever becomes
`open` except by `StartApi`. `pool` is the database handle: after a failed ping the
repositories hold nil, and every call that reads or writes a table is an error until
the process is started again. `CrashApi` is any end of the process, since main
has no shutdown path.

Abstractions. At most one event exists per application, so its outbox row is
keyed by the application. `attempts` and the back-off of 5 to 300 seconds become
membership in `due`. A payload is its application plus whether its address was
found (`addressed`). The row a deleted job's cascade removes is not taken out of
`applications`: ids are SERIAL, so the pair cannot come back. RabbitMQ keeps
what it has accepted. `arrived`, `faults` and `unmarked` are history that no
guard reads.

### NotificationWorker

`ready`, `dead` and `inbox[w]` are bags of messages; a message is a body and its
retry count. `stage[w]` and `cur[w]` say where `handleDelivery` is with the
delivery in hand. RabbitMQ is modelled from its use: `Deliver` pushes without
limit (no Qos), `Release` returns what a closing channel has not acknowledged.
An Ack or Nack on a closed channel does nothing, as its discarded error allows.
`Kill` is a signal or a crash, `LoseChannel` a broken connection under a handler
that goes on.

Abstractions. A body parses or does not (`Garbage`), has an address or does not
(`Addressed`). Delivery order is left open. A publish followed on the same
channel by an Ack arrives before it, so a worker's own publish is not lost once
its Ack counts. SendEmail returns: a connection that hangs for ever in SMTP is
not modelled. A Nack on an open channel, after a publish failed while the channel
survives, is kept as a possible though rare branch.

### NotificationPipeline and NotificationDelivery

`NotificationPipeline` has the variables of both sides and, but for the steps
where they meet, their actions side by side. They meet at RabbitMQ: a publish the
broker accepts, first or from the outbox, is a `Publish` of the worker's module
with the body that `publishNewApplicationEvent` built (an application, with an
address or without); the broker stops only when no worker has a channel to it, and
no worker starts while it is down. `faults` of the worker's module is named
`mishaps` here.

`NotificationDelivery` knows none of this. Per application it has `notice`: none,
owed, mailed, given up or lost. The mapping reads `notice` off the parts: owed
while the event is announced by a handler, pending in the outbox, or queued (ready,
or with a worker on a live channel); given up when it is among
`failed_notifications` only; lost when it is nowhere. `struck` collects the
applications a fault of either side has touched. What the abstract specification
does not allow is what would be wrong: a debt lost, or an e-mail sent again,
without a fault that struck that very application; a debt that returns from
nothing; an e-mail for an application nobody made. Applications move independently
of each other, and several may in one step, since a crash ends every handler.

### JobCache

A row is the number of statements that have changed it (`version[j]`), an entry
the versions its reader saw. `Fetch` is the failed lookup and the SELECT, `Store`
the SET; `Commit` is a write's one statement, `Invalidate` its DEL and answer.
`StoreErr`, `InvalidateErr` and the second branch of `Commit` (committed, reply
lost, handler leaves with 500) are the failures, a cancelled request context
among them. `excused` is history: a key enters it when a DEL for it went missing
or a reader that had read before a finished write stores under it, and leaves it
with the next DEL, expiry, or store by a reader that was not overtaken.

Abstractions. A Redis GET that hits changes nothing and is no step; since a GET
may also fail, `Fetch` needs no guard on the entry. Redis keeps what it has
acknowledged (its append-only file could lose the last second).

### JobApplications

One request is one of posting, applying, listing, deciding and deleting
(`ask[r]`), and `at[r]` is the SQL statement it executes next, or its answer. Apply
is GetJobByID, then the INSERT, which finds the job there (`CreateApplication`,
`AlreadyApplied`) or gone (`JobGone`: the foreign key fails, which the repository
does not tell from other errors, hence 500). `UpdateStatus` is the UPDATE with its
conditions on job and poster, `UpdateNoRow` the same with no row, after which
`SelectApplication` decides between 404 and 403. `DeleteJob` takes the applications
along. `Committed` lets every reply get lost. `during`, the contents of the tables
that each request in progress has seen, and `failed`, the requests the database
failed, are history: the properties compare a request's answer to them.

Abstractions. An application is named by its job and seeker instead of its id: a
pair is inserted at most once, since the cascade that removes it takes the job,
whose id never comes back. The list of a job is one SELECT of both tables and is
answered as read. The cache before GetJobByID's handler is `JobCache`'s subject;
ApplyToJob asks the table. Announcing is left to `ApplicationOutbox`.

### Accounts

`account[e]` is the password registered under the address `e`. `Register` is
validation and hashing, which fail without effect (`Fail`), and the INSERT, which
stores (`CreateUser`, with or without its reply) or finds the address taken
(`DuplicateEmail`). `GetUserByEmail` is Login's read and comparison, `GetUserByID`
the profile reads. `before`, the row as the request found it, `told`, how many
registrations of an address were answered 201, and `unheard`, the addresses whose
INSERT committed without a reply, are history.

Abstractions. A user is named by the address. bcrypt tells equal passwords from
different ones. No code deletes a user or changes a password, so there are no such
actions. Roles and names play no part in any condition. `GetAllUsers` is one
SELECT without a condition and is left out.

### RateLimit

`count[k]` and `ttl[k]` are the Redis key of a scope and client address,
`expiring[h]` a request between its INCR and its EXPIRE. `IncrFirst`, `IncrAdmits`
and `IncrRefuses` are the middleware's three ways to read the INCR's value;
`IncrUnheard` is an INCR that Redis executed and whose reply never came: go-redis
sends the command again, or gives up and the request is let through. `ExpireErr` is
an EXPIRE that fails, with its error dropped; a client that hangs up in time is
enough, since the call runs in the request's context. `Restart` ends the API with
requests between the two calls. `age` (how long ago each of the last requests was
admitted) and `orphaned` (keys whose creator never got to its EXPIRE) are history.

Abstractions. The key of a request is an input. `count` saturates one above the
limit, which is all the middleware tells apart. A request let through because its
INCR failed is not counted as admitted: it is the code's choice to fail open, and
the bound speaks of the requests Redis counted.

### Sessions

`stage[r]` is the next step of a request with a bearer token: the EXISTS
(`exists`), ValidateToken in the middleware (`validate`), then some handler
(`serve`) or Logout, which validates again (`revalidate`), computes the remaining
life (`ttl`) and sends the SET (`set`). Each step reads the clock or Redis once
and `Tick` may come between any two. A token is its user and its expiry in whole
seconds; the role and the issue time follow from these. `blacklist[t]` is when
Redis drops the entry. `revoked` and `barred` are history: tokens whose logout
was answered 200, and requests whose EXISTS was answered after that.

Abstractions. One clock stands for those of the API and of Redis, which in
docker-compose are containers of one host. Milliseconds are lost by the driver
and by Redis rounding, at most one in all. A request carries a token that Login
issued; malformed headers and forged tokens change nothing and are left out. A
logout without a Redis client is answered 503 like one whose SET failed.

## Runs

| Run | Instance | Shows |
|---|---|---|
| `outbox_safety` | 3 requests, two for one pair; LIMIT 1; crashes and outages unbounded | `EventAccountedFor`, `OnceUnlessUnmarked`, `NoPhantomEvent`, `OneAcceptance`, `PublishedRowsRest`, `DrainedWhenConnected` |
| `outbox_not_stored` | 2 requests, 2 pairs, LIMIT 1 | violates `FailedPublishStored` (README.md:241 of the repository) |
| `outbox_no_reconnect` | the same | violates `PendingRepublished` (README.md:242) |
| `worker_single` | 1 worker, a body with an address, one without and an invalid one, 2 retries, 1 fault | `NoMessageVanishes`, `DeadLetterAfterRetries`, `QueueDrains` |
| `worker_pair` | 2 workers, 1 body, 2 retries, 2 faults | `NoMessageVanishes`, `DeadLetterAfterRetries`, `CopiesConserved`, `AttemptsBounded`, `WorkRunsOut` |
| `pipeline` | 1 request, 1 worker, one retry, 2 publishes, 1 fault of the worker | `ExtrasExplained`, `KeepsPromise` (the refinement), `DebtsSettled` |
| `cache_safety` | 2 jobs, 2 readers, 2 writers, 2 versions | `AnsweredWritesVisible`, `EntriesShowRows` |
| `cache_heals` | 1 job, 2 readers, 2 writers, 3 versions | `EntriesHeal` |
| `applications` | 4 requests of any kind on one job, 1 seeker, 2 employers, 2 decisions | `AnswersWereTrue`, `PosterRefusedOnlyWhenRaced`, `ServerErrorsExplained`, `NoOrphans`, `AppliedUntilJobGone`, `DecidedByPoster` |
| `accounts` | 3 requests at a time without end, 2 addresses, 2 passwords | `OneRegistrationAccepted`, `AnswersAgree` |
| `rate_limit` | 2 keys, 2 requests at a time without end, limit 2, window of 3 ticks | `WindowBound`, `NoExpiryExplained`, `LockoutEnds` |
| `sessions` | 1 user, a request and 2 logouts; tokens live 1 second of 3 ticks, a millisecond is 2 ticks, 6 ticks in all | `RevokedIsRefused` |

Bounds. Requests race in pairs for a pair, and a third for another pair makes
batches longer than the LIMIT of 1 possible, which stands for 50. `arrived`
saturates at two, the number that tells once from more. In the worker two faults
allow a redelivered copy to be redelivered again, or a crash to meet an ambiguous
e-mail; the three kinds of body side by side leave room for one. MaxRetries is 2 instead of 3 so that first, middle and last round differ;
one publish per body is enough since copies of one body are alike. Two readers
and two writers let a fill be overtaken by one write and race the next;
MaxVersion 2 covers INSERT and DELETE or UPDATE on both jobs, 3 covers UPDATE
followed by DELETE. Six ticks see one second's token through to its expiry and past it,
and the next one's to the moment of its expiry; two logouts overwrite each other's entry while a
third request is under way. Four requests on one job allow an apply, a decision and a deletion
with a fourth request between their statements; nothing relates two jobs but the
list, which filters by job. Three requests race for an address while a fourth
outcome, the login of the winner, finds its place in the handler that becomes free;
a handler takes a new request when it has answered, without end. Limit 2 and window
3 leave room for two windows' worth of requests in the last window and for an EXPIRE
that comes late. The pipeline's instance is one application end to end: a retry,
both forms of the address, a publish repeated after a lost mark, one fault of the
worker and any number of the API's. A third publish is cut off by MaxPublishes 2: it
would find a queue that already holds copies of the application. The theorems have
none of these bounds, but for the end of time, `MaxTime`, the numbers of publishes
and of the worker's faults, which are any natural numbers. The runs that set
CHECK_DEADLOCK FALSE may stop for good: every worker down and every publish used,
or the last version written and every entry gone; the requests of `applications` all
answered; the only worker of the pipeline down and its application settled.

Symmetry is used where safety alone is checked: workers, the jobs, readers and
writers of the cache, the two logouts, the requests, employers and decisions of
`applications`, and everything in `accounts`.

## Fairness

*Outbox.* The ticker fires and the loop goes through its batch, so scans and the
calls on a row are weakly fair; the clock reaches `next_attempt_at`; RabbitMQ
comes back after a stop. Marking a row as published is strongly fair: PostgreSQL
may fail such an UPDATE any number of times, but not every one. Nothing restarts
the API (docker-compose.yml has no restart policy), and nothing gives it the pool or
the connection it did not get at start, so `DrainedWhenConnected` assumes that it
stays up, got its pool, and stays connected to RabbitMQ.

*Worker.* The broker pushes to a consumer it has, main's loop runs, and
SendEmail returns, with whatever result. Nothing restarts a worker, so
`QueueDrains` assumes one that stays connected. No fairness is asked of a
successful e-mail.

*Pipeline.* Each side's as above; a handler of the API runs until it has answered,
since its calls return. `DebtsSettled` assumes that the API, with its pool, and one
worker stay connected.

*Rate limiter.* The clock ticks, and the calls of a request return.

*Cache.* Redis expires keys and requests end, in success or failure.

*Sessions, applications, accounts.* Safety only; no fairness.

## Two places where the documentation says more than the code does

- "If publish fails, event is stored in `outbox_events` table" (README.md:241).
  `publishNewApplicationEvent` discards the error of CreateEvent
  (job_handler.go:275), and the client is answered 201. Run `outbox_not_stored`.
- "Outbox retry worker republishes pending events asynchronously" (README.md:242).
  The worker is not started when the dial at start failed, and a connection that
  closed is never replaced (outbox_worker.go:12, cmd/main.go:61). Run
  `outbox_no_reconnect`.

## What is proved

Every safety property of the passing runs, invariant or action property, and the
refinement `KeepsPromise`, is a theorem for every value of the constants, from the
ASSUMEs in the component modules only. One of these is there for the proofs: that
`Workers` is finite, without which a sum over the workers means nothing; a
deployment has finitely many processes.

*ApplicationOutbox_proofs.* The invariant `IInv` joins the types with
`Acceptance` (a request past the INSERT has its application stored, and no two
of them share a pair) and, for each application, `RowInv`, which relates the
five places its event may be: in a handler, at the broker, in the outbox, in the
retry loop, or struck by a fault. None of the properties is inductive: that a
row is published at most once needs to know that a row in the retry loop is
still pending, that a pending row has not arrived unless unmarked, and that a
handler still announcing has no row yet.

*NotificationWorker_proofs.* `NoMessageVanishes` is inductive once the message
is followed through a step: `KeptStep` says that a message the broker answers for
is still there afterwards, or its successor is, or it has been mailed.
`DeadLetterAfterRetries` needs `Tried`: a copy with retry count k, wherever it is,
has k failed attempts behind it, and one more while it is being republished.
`Provenance` says that nothing is anywhere, or was taken back, that was not published.

`CopiesConserved` and `AttemptsBounded` are sums over a body's messages and over the
workers. `MapThenSumSet` adds up a finite set by a recursive function that picks an
arbitrary element; `SumOver` is that recursion for a function's values. That it has a
solution, and that the order does not matter (`AnyOrder`), is proved by minimal
counterexample: `TakeAway` takes a least subset that fails from the well-foundedness of
the subsets of a finite set. From there on only a few facts are used: one element more
(`SumSplits`), one value changed (`SumChanges`), a sum of sums (`SumAdds`), a part
(`SumOfPart`). Neither bound is inductive: `CopiesConserved` leaves out the copies in the
hands of a worker whose channel is gone, and these may still be mailed. `AllAccounted` has
them in: what the queue and all workers carry of a body, less what publishes and copies
taken back have put there (`Owed`), is covered by what is mailed, dead or failed. One
argument gives both bounds, since a copy is weighed by a tariff: 1 for `CopiesConserved`,
the attempts its count leaves it for `AttemptsBounded`, one fewer once it has been tried.
`BrokerStep`, `SendStep` and `RepublishStep` say how a step changes what is owed at any
tariff.

`WorkRunsOut` is what a termination proof of the consumer's loop needs and what `QueueDrains`
rests on beside fairness: a natural number for each body, `WorkLeft`, that every step of a
delivery lowers (`DeliverAdvances`, `TakeAdvances`, `HandleAdvances`). A copy weighs five steps
for every attempt left to it, so that the republish of a failed message, which puts a copy
into the queue the worker itself consumes, still lowers the sum.

*NotificationPipeline_proofs.* `PromiseKept`: the composition implements
`NotificationDelivery`, for any requests, applications, workers and bounds. Its steps
are steps of the parts (`Parts`), so the parts' invariants hold of it and are cited,
not proved again; what is new is `Arrival`, which relates the API's count of accepted
events to the broker's. From these, `Fate` says where an application's e-mail can be
in any state (a stored application is mailed, alive, dead or struck; one mailed again
was struck) and `Passage` what a step may change: what is no longer alive never comes
back to life, a dead letter comes of what was alive, an e-mail of what was alive or
of a struck dead letter's other copy. `StepKeepsPromise` is then a case distinction.
That a copy mailed by a worker without a channel is a struck one rests on `Provenance`
and `NoMessageVanishes`; that an application no fault has struck is not mailed again,
on `CopiesConserved` and `OnceUnlessUnmarked` together: neither side can say it alone.
`EveryExtraExplained` counts where the promise only tells struck from not: from `Arrival`
and `CopiesConserved`, each e-mail beyond the first is matched by a copy taken back or an
e-mail misreported, where no mark of the outbox was lost.

*JobCache_proofs.* `EntryInv` and `FillInv` say the same of a value stored and of
a value about to be stored: the rows have had it (`Real`), and it lacks only
unanswered writes unless the key is excused, or the reader overtaken. `Named`
records which keys each kind of request invalidates. The interesting case is the
job key that CreateJob does not DEL: a value stored under an id has at least the
INSERT, so the INSERT cannot be what it lacks.

*Sessions_proofs.* The invariant follows an expiry through a logout: a duration
computed reaches the token's expiry from any later moment on (`TtlCovers`), so
every SET, however late, leaves an entry that lasts to within a millisecond of it
(`Kept`), so a request that found no entry for a revoked token is that late
already (`BarredLate`). Time only helps: each part stays true as the clock moves.

*JobApplications_proofs.* An answer rests on what the request's earlier statement
saw, so each statement in hand has a witness in `during`: a request at its INSERT has
seen its job (`FoundJob`), one at its second SELECT has seen no such application, or
is not the poster (`Refusable`). A witness once in `during` stays (`Witnessed`), so
an answer never becomes untrue; the tables of the step that gives it are in `during`
because the history step follows every step. `NoOrphans` needs that ids are not
given out twice: a row of `jobs` has an owner and an owner is for ever
(`JobsPosted`). `StoredOrGone` follows an accepted application to the deletion of
its job.

*RateLimit_proofs.* `WindowBound` is about requests of up to two incarnations of a
counter. `Older` and `Ageing` say that the admitted requests lie in order of age and
that those of the current incarnation are the last `count[k]` of them; the ones
before it are at most a limit's worth, and were admitted before the key was created,
which the remaining life of the key, or `Pending`, a creator still on its way to
EXPIRE, relates to now.

*Accounts_proofs.* `StillThere` carries a row found by a request's first statement to
its answer, `Underway` says what a request in progress may rely on: that the row it
saw on arrival, if any, is the row there is.

Model-checked only: liveness (`DrainedWhenConnected`, `QueueDrains`,
`DebtsSettled`, `LockoutEnds`, `EntriesHeal`). It rests on fairness, hence on ENABLED,
which the prover does not handle; of `QueueDrains` the measure is proved (`WorkRunsOut`)
and that a step is taken is not.

## Plan

Done: the outbox, the worker, their composition and the promise it implements; the
cache; sessions; applications, accounts and the rate limiter; the proofs above.

Left: nothing the runs check as safety is unproved. The cache and the requests of
`JobApplications` have no abstract specification yet; their properties say directly
what an answer or an entry may be.

## Not modelled

- Request parsing, JSON, validation rules and response wording: they change no
  state, and a request they refuse touches nothing.
- `GetAllUsers`, and the Swagger documents, which are generated.
- Configuration, and migrations being applied, which happen once before the first
  request. An API without its database pool is in `ApplicationOutbox` and the
  pipeline, where it leaves work undone; in the other modules it would only fail each
  request's first statement, without an effect on their tables. What the migrations
  declare (unique constraints, foreign keys, defaults) is in the modules that depend
  on it; the cascades from `users` are not, because no code deletes a user.
- database/sql sends a statement again on `driver.ErrBadConn`; lib/pq returns that
  only when the statement was not sent, so it is no second execution.
- Loss of data inside PostgreSQL, RabbitMQ or Redis.
