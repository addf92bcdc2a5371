# WaitWise in TLA+

WaitWise is a queue service: users take a ticket of a queue, wait, are served in one of its service slots, may be marked
late and rejoin. It is an Express server over PostgreSQL (through Prisma), with BullMQ jobs and a cache in Redis, and
Socket.IO notifications. This directory models what can go wrong when its requests, promotions and workers interleave,
checks it with TLC and proves the safety properties of every model with TLAPS. Paths such as `src/core/...` are relative
to the repository.

## Inventory

| Component | State | Operations | Interacts by |
| --- | --- | --- | --- |
| Ticket state machine, `src/core/queueUserStateMachine.ts` | the `QueueUser` row: status, joinedAt, priorityBoost, expiresAt | `transitionQueueUser`: read, decide, guarded update, position, audit record, jobs | called inside a transaction by every request, promotion and by the expiry worker |
| Ticket requests, `src/controllers/v1/queues.controller.ts` | none of their own | join, leave, remove, complete, mark late, rejoin, arrived | one transaction each, then `triggerPromotion` without `await`, cache deletions, emissions |
| Promotion, `triggerPromotion` | none of its own | lock the queue, count, select, serve, again, commit | started by handlers, by `updateQueue` and by the promote worker |
| Settings, same controller | the `Queue` row: serviceSlots, maxSize, graceTime | create, update, delete | `updateQueue` promotes; delete cascades to tickets and audit records |
| Audit log, `src/core/events.ts` | `QueueEvents` rows | one insert per transition | its foreign key locks the `Queue` row |
| Promotion jobs, `src/jobs/promoteIfFreeSlot.ts`, `src/workers/promoteIfFreeSlot.worker.ts` | the job `promote-if-free-slot-<queueId>` | add (deduplicated by id), run, retry, fail for good, remove | added inside the transaction, before its commit |
| Late expiry, `src/jobs/lateExpiry.ts`, `src/workers/lateExpiry.worker.ts`, `lateExpirySafetyNet.worker.ts` | delayed jobs `late-expiry-<queueId>-<userId>` | add when marked late; turn an expired ticket MISSED; scan every 30 s and add again | transition with event MISSED |
| Cache, `src/infra/cache.ts` and the read endpoints | Redis keys with a time to live | cache-aside reads, deletion by pattern after commits (the expiry worker: before its commit) | no operation that writes tickets reads it |
| Redis connection, `src/infra/redis.ts`, `src/workers/start.ts` | one connection | created on first use, which also starts the workers | errors are swallowed |
| Sessions, `src/controllers/v1/auth.controller.ts`, `src/utils/tokens.ts` | `RefreshToken` rows, cached sessions | login, register, refresh with rotation, logout | separate from the queues |
| Notifications, `src/socket.ts`, `src/utils/socketEmitters.ts` | rooms | join and leave a room; emit status, promotion and the whole queue | emitted by handlers after commit, by the expiry worker before it |
| Wiring: `src/index.ts`, routes, middleware, response types | none | | |

What makes the system hard: all of these run concurrently at READ COMMITTED, so every check that is not guarded by a
lock is stale by the time it is used; promotions of different callers run beside each other; jobs are enqueued before
commits; promotions that nobody awaits fail with nobody to notice; the process may stop between any two statements.

What makes each part correct:

- Tickets: every committed change is an edge of the status graph; a late user's boost ends with the next transition;
  a ticket becomes MISSED only when its grace time is over; the audit record says what was written.
- Promotion: nobody is served beyond the slots; nobody waiting is passed over; no free slot stays free while somebody
  waits, whatever fails; a conflict never ends the server.
- Capacity: active tickets stay within maxSize, or at least within a known bound of it.
- Requests: each ends, though they lock tickets and the queue in different orders.
- Late-expiry jobs: an expired ticket does not stay LATE for ever; a job left over from one late period does not end
  the next one early; a late period has a job.
- Cache and notifications: an answer that a handler invalidates does not outlive its deletions; every commit is told to
  the user and to the room of the queue; nobody is told what is rolled back.
- Sessions: refreshes that overlap leave a browser with a token the server knows; a token is rotated when it is due.

`PROJECT.json` lists the hazards of the code one by one, each at its line.

## Modules

| Module | What it is |
| --- | --- |
| `QueueUserStateMachine` | the pure part of the state machine: transitions, columns written, the order of candidates |
| `QueueTransactions` | requests, promotions, workers, locks, jobs and failures, one action per SQL statement |
| `QueueGuarantees` | the properties of `QueueTransactions`, its inductive invariant, the refinement |
| `TicketLifecycle` | abstract specification: what may be committed at all |
| `MCQueueTransactions` | instances for TLC, with one `.cfg` per run |
| `QueueTransactionsProofs` | type correctness |
| `QueueLifecycleProofs` | the inductive invariant, the slots, the refinement |
| `QueueTicketProofs` | boosts, audit records, the order of promotion, the slots without new settings |
| `QueueProgressProofs` | no lost promotion, the bound of the overrun of maxSize |
| `LateExpiryJobs` | the delayed jobs, their worker, the safety net, the start of both; with `MCLateExpiryJobs` |
| `LateExpiryJobsProofs` | the types, the deadlines and the job of the first late period of `LateExpiryJobs` |
| `QueueViews` | what the read endpoints cache and what Socket.IO tells, against the commits; with `MCQueueViews` |
| `QueueViewsProofs` | types, deletions, notifications and the refinement of `QueueViews` |
| `RefreshTokens` | rows, copies in Redis and cookies of the sessions of a user; with `MCRefreshTokens` |
| `RefreshTokensProofs` | types and sessions of `RefreshTokens` |

`QueueTransactions` is the centre. The other three look at a part that it abstracts from, each with its own coarser view
of the transactions: `LateExpiryJobs` has what its `StartExpiryJob` leaves open (when, and whether, the job comes),
`QueueViews` what happens after (and, in the worker, before) each commit, `RefreshTokens` is independent of the queues.

### How QueueTransactions corresponds to the code

A *process* is an activity that holds at most one transaction: an element of `Handlers` is an HTTP request together with
the `triggerPromotion` it starts, `PromoteWorker` and `ExpiryWorker` are the two BullMQ workers (each has concurrency
1). `sess[p]` is where it is (`pc`), what it is doing (`event`, `user`) and what it has read (`seen`, `upd`).

| pc | Statement in the code | Action |
| --- | --- | --- |
| idle | request arrives, job is taken | `JoinQueue` ... `LateArrived`, `UpdateQueue`, `DeleteQueue`, `StartExpiryJob`, `PickPromoteJob` |
| capacity | count of active tickets against maxSize | `CheckCapacity` |
| existing | lookup of the user's ticket in `joinQueue` | `CheckExisting` |
| read | `findUnique` of `transitionQueueUser` and the decision | `ReadTicket` |
| update | `updateMany ... WHERE status = qu.status` | `UpdateTicket` |
| insert | `queueUser.create` | `InsertTicket` |
| log | `logEvent`, then `enqueuePromoteIfFree` | `LogEvent` |
| commit | end of the transaction | `CommitRequest` |
| lock, count, select, serve, finish | `triggerPromotion` | `LockQueue`, `QueueGone`, `CountServing`, `SelectCandidate`, `NobodyWaits`, `Serve`, `FinishPromotion` |
| ack | the worker reports that the job is done | `JobDone` |
| delete, cascade | `deleteMany` and its cascade | `DeleteLock`, `DeleteCascade` |

An error that the code throws is `RequestRejected`: the transaction is rolled back and the request is over.

The database is external and modelled from how the code uses it. `tickets` is what is committed, `draft` what the locker
of a row has written; a process sees its own drafts and the others' commits (READ COMMITTED). An UPDATE waits for the
row's lock and then checks its WHERE clause on the row as it is by then. `FOR UPDATE` and the deletion lock the `Queue`
row exclusively. Inserting a ticket or an audit record takes `FOR KEY SHARE` of it, through the foreign key, and that
conflicts with the exclusive lock: it is why no transition commits while a promotion runs, and why a promotion and a
transition can deadlock. The UPDATE of `updateQueue` waits for exclusive locks only and is one action. (One that renames
the queue changes a column of `@@unique([adminId, name])` and waits for `FOR KEY SHARE` too: the real one may do less
than the action, which no property depends on.) A cycle of waits is broken by aborting either of the two
(`DeadlockVictim`). An open transaction may be closed by Prisma's timeout at any statement (`Timeout`).

An aborted transaction means: an HTTP error for a request and for `updateQueue`, which awaits its promotion; a retry for
the promotion job; the end of the process when the promotion was started without `await`, because Node ends on an
unhandled rejection and the code installs no handler for it. `crashed` records the last. In that case and in `Restart`
the database rolls everything back, BullMQ puts the active job back and another process takes over.

A join takes its joinedAt (`stamp`) before it inserts, and may wait in between: PostgreSQL's default is the time of the
transaction, Prisma's that of the call.

Abstractions. The position that a transition counts goes into its answer, which no later step reads: it is not modelled,
and neither are the second read of the row inside a transition and the lookups of the queue that precede one, which
change nothing (deleting the queue deletes its tickets). Names, servedAt and request payloads are left out; an
administrator who is not the queue's gets an error before any write. Time is counted in ticks, and the grace time in the
same ticks. `StartExpiryJob` may run whenever a committed ticket is LATE and expired; the real job also needs its delay,
or the safety net, to fire, so every real order is among those of the model, and nothing here says that the job comes.
The limit BullMQ puts on stalled jobs is left out. The audit log is reduced to the status named by the newest record of
each ticket.

### How LateExpiryJobs corresponds to the code

Of a ticket only SERVING, LATE and MISSED are told apart (`OTHER` is the rest); `GetServed`, `GetDone` and `RejoinLate`
are the requests and promotions that bring it there. `MarkLate` is `transitionQueueUser` with MARK_LATE up to
`enqueueCheckLateExpiry`, which adds the job *before* the transaction commits (`CommitMark`) or is rolled back
(`AbortMark`). `Add` is BullMQ's `queue.add` with a `jobId`: nothing, while a job of that id exists, in any state. The
worker takes a job that is due (`PickJob`), reads the ticket (`ReadTicket`: not LATE or not expired ends the job),
writes it (`UpdateTicket`), commits (`CommitMissed`) and has the job removed (`JobDone`); a throw is `UpdateRejected` or
`AbortMissed`, and `FailJob` retries it or, after its attempts, keeps it as failed. `NetScan` is the query of the
interval, `NetAdd` the loop that adds jobs without delay. `running` says that this process has used Redis, which is what
starts the workers (`src/infra/redis.ts`); `Restart` clears it, and `FirstUse` or a `MarkLate` sets it again.

A tick is a minute, the unit of the grace time. Transactions end within five seconds, so no tick passes while one is
open. Left out: the back-off between attempts, the time between two scans, and the limit BullMQ puts on stalled jobs.

### How QueueViews corresponds to the code

`version[k]` counts how often the data behind a cache key has changed, and stands for that data: a cached or told value
is the version it was made from. A transaction is one step (`JoinQueue` ... `Promote`, `CommitMissed`), which leaves its
activity a list of effects to perform one by one, exactly as the handler's code lists them: a deletion is two commands
(`LookupKeys`, `UnlinkKeys`: KEYS, then DEL), a user is told in one step (`EmitToUser`), the room in two (`ReadTickets`,
`EmitToQueue`). The order differs between handlers (`DeleteThenTell`, `TellThenDeletePages`, `TellThenDeleteStatus`),
and the expiry worker performs its effects first and commits last. A promotion may start at any time, which includes
when a handler asks for one. Readers get, miss, read the database and set (`CacheGet`, `ReadDatabase`, `CacheSet`);
a key ends with its time to live (`ExpireKey`). Any command of Redis may throw (`RedisFails`), as often as `MaxFaults`
says, and `src/infra/cache.ts` catches every error: a get that fails is a miss, a set leaves the key as it is, and a
KEYS or DEL that fails (`DeletionFails`) leaves the key while the handler goes on. `undeleted` is a history variable: up
to which change a key was left behind by a deletion that failed. The coarse transactions are tied to those of
`QueueTransactions` by `TicketLifecycle`, which both implement (`LifecycleSpec`).

Left out: pages after the first, the counts inside the status of *other* users (a status is stale by its own ticket
only), restarts (what they leave undeleted ends with the life of the key; what they leave untold nobody repairs), and
who is in a room. `queue:<id>` is written and never read, `ticket:user:<id>` deleted and never written.

### How RefreshTokens corresponds to the code

One user, several browsers, several requests in flight. `rows[d]` is the `RefreshToken` row of device `d` (at most one,
by its unique index), `cached[d][t]` the end of the life of the key `refresh:<d>:<t>`, `cookies[c]` what browser `c`
sends. `register` and `login` are their transactions (`login` finds and writes in two statements), `logout` and
`logoutAllDevices` one deletion each, `refresh` one step per await: `CacheGet`, `FindRow`, `CacheSet`, `CacheTTL` or
`StartRotation`, `RotateRow`, `DeleteKey`, `SetNewKey`. Answers arrive in any order (`Answer`) or not at all
(`LoseRequest`), and a refresh sets only one of the two cookies. A token is a function of the user and the second in
which it is made, so two of one instant may be the same (`Mint`). `CacheLife` is a thousand `TokenLife`s, because
`cacheSet` takes seconds and is given milliseconds. The clock jumps between instants at which a comparison changes.

A browser drops a cookie when its maxAge is over (`Kept`). A sign-in sets both cookies, a refresh renews the
refreshToken cookie only, so nobody refreshes for longer than one life after the sign-in, when the deviceId cookie ends
(src/controllers/v1/auth.controller.ts:93). The copy in Redis lives a thousand lives from a moment within that time. At
the default of seven days it therefore never comes near the hour of `ROTATE_THRESHOLD_MS` while a browser can still ask
for it: *no token is ever rotated*, which `rotation_missed` shows against docs/SYSTEM.md:310. The rotation is reached
when the copy is made for less than an hour, which takes a `REFRESH_TOKEN_EXPIRY` (src/utils/tokens.ts:12, read from the
environment) of at most 3.6 seconds; then every refresh rotates. `tokens` checks that configuration, since it is where
refreshes interleave most, and the theorem `SessionsAreKnown` holds for every life and every threshold.

`superseded` is a history variable: the pairs of device and token that another request has replaced or deleted, or that
a later sign-in of the device made old. They are the exception of `SessionKnown`: of two refreshes that rotate, the one
that reads the life of its key after the other has deleted it answers with the old token.

## Runs

Deadlock is checked in every run; `Terminating` lets a behaviour stop when the requests are used up, the clock is at its
bound and nothing is under way.

| Run | Instance | Shows |
| --- | --- | --- |
| `slots` | 3 users, 2 handlers, maxSize none or 2, 5 requests, clock to 2: join, remove, complete, delete | types, slots, nobody passed over by concurrent promotions, the overrun of maxSize below the number of handlers; the inductive invariant and the life cycle while the queue is deleted under transitions and promotions |
| `late` | 2 users, 2 handlers, 4 requests, clock to 2, 1 fault: join, leave, late, arrived | the boost ends, nobody is passed over, boosted users included, the audit record explains the row, the inductive invariant and the life cycle, over two grace periods and through a timeout, a restart or a Redis error |
| `progress` | 2 users, 2 handlers, slots 1 or 2, 4 requests, fair: join, leave, rejoin, complete, update | the inductive invariant, the slots, no forgotten slot and the life cycle under new settings; every request ends, the queue advances |
| `expiry` | 2 users, grace time 1, clock to 3, 2 late periods each, jobs of 2 attempts, 1 fault, fair | a first late period keeps its job, a stale job ends nothing early, an expired ticket leaves LATE |
| `views` | 1 user, 1 slot, 2 handlers, a promotion, the expiry worker, a reader of the status, 3 requests of all nine kinds, 1 Redis error | no right answer survives the deletions of the handler that changes it, unless one of them failed; nothing goes untold, and what is told early is told of a ticket that is still LATE |
| `tokens` | 2 browsers, 2 requests at a time, 4 requests, 1 fault, a life of 3 seconds, instants 0, 2 and 4 | refreshes that overlap and rotate leave no browser with a token that nobody knows |

`leave` and `remove` are the same steps for `QueueTransactions`, as are `rejoin` and `arrived`; each run has one of the
two.

The bounds are on the requests (`MaxRequests`, `MaxCommits`), the clock (`MaxNow`, `Instants`), the late periods
(`MaxPeriods`), the faults (`MaxFaults`) and the attempts of a job (`JobAttempts`, 2 instead of 5 in the passing runs,
so that a fault and a deadlock use them up). Two users make every conflict on a ticket and every deadlock possible; the
third is needed to be passed over. Two handlers and the two workers give up to four open transactions. Five requests are
enough to fill the slots, free one and race two requests for it. In `late`, four requests put a boosted user who joined
later beside a waiting one who joined earlier, by way of a join that commits after its clock was read. In `expiry`, two
late periods and a clock of 3 let the job of the first period run during the second, with a user beside it whose jobs
compete for the worker. In `views`, one user is enough because nothing relates the keys or the messages of two users but
the queue's own, which every change touches; three commits let a second handler change what the first one is still
deleting and a reader cache in between, and one error at any command is what a handler meets at a time (the theorem has
any number), and the key of the status is the one that every handler deletes (the theorem has all six). In `tokens`,
after a sign-in two refreshes rotate at the same time and one request is left; the instants are the sign-in, one at
which all cookies live and one at which those of the first have ended. Users, handlers and browsers are interchangeable,
and the safety runs use that symmetry; the fair ones do not.

`ServingWithinSlots` is true only while nobody lowers serviceSlots: `updateQueue` accepts any positive value, so
docs/INVARIANTS.md:110 ("must never exceed") does not hold across it. What holds across it, and is proved, is
`SlotDiscipline`: nobody is newly served beyond the slots of the moment. `BoundedOverrun` holds while users come in
through `joinQueue` only and maxSize is not changed: a MISSED user who returns through `lateRejoin` or `lateArrived` is
not counted against maxSize at all.

`NoLostPromotion` and `QueueAdvances` are stated of the operations without `deleteQueue`, and the exception is real. A
promotion that a deadlock ends is not missed, because the transition it collided with promotes when it commits. But that
transition may in turn be the victim of a deadlock with the cascade of a deletion, and the deletion the victim of one
with the expiry worker, which promotes nobody: the queue stays, a slot is free, somebody waits, and no promotion comes
until the next request. It takes three users and three requests at a time.

`FirstPeriodHasJob` stops at the first late period because the second may have no job: when the job of the first is
still there, the one of the second is ignored, and the safety net is what ends the period. `ExpiryEnforced` shows that
it does, unless the job has failed for good or no process has used Redis since the last restart. Both exceptions are
needed; `expiry_blocked` is the first, and the list of divergences below has the second.

`InvalidationReachesFresh` is about answers that were right when they were cached, and about keys that a handler is to
delete; the list of divergences below has the others. A deletion that fails leaves a right answer stale, too; that
exception is in the property. `ToldCommitted` has the exception that the expiry worker makes: it tells MISSED before its
commit, which may fail, and the user then has been told what is not so until the job runs again or the user moves.

Runs that refute a statement of the documentation or of the code's intention (`findings` in `PROJECT.json` quotes each):

| Run | Statement | What happens |
| --- | --- | --- |
| `over_capacity` | concurrent requests cannot break capacity | two joins both see room for one |
| `early_missed` | LATE becomes MISSED when `now > expiresAt` | a decision on one late period is applied to the next |
| `crash` | conflicting operations fail safely | a promotion nobody awaits is a deadlock victim |
| `stranded` | correct under server restarts | a restart after the commit of a join, before its promotion |
| `expiry_blocked` | an expired ticket eventually becomes MISSED | a failed job keeps its id, and the safety net's jobs are ignored |
| `rotation_missed` | tokens are rotated below `ROTATE_THRESHOLD_MS` | the life that is compared is that of a copy made for a thousand lives |

Other divergences were met while modelling. Each is visible in one place of the code or takes one request after another,
so no run is spent on it; the properties named here are stated so that they hold with it.

- expiresAt survives MISSED, rejoin, WAITING (docs/INVARIANTS.md:87).
- A MISSED user who joins again keeps the joinedAt of the first join (src/controllers/v1/queues.controller.ts:264) and
  stands before users who came since, where docs/TIME_MODEL.md:54 says "MISSED users can rejoin at the end of the
  queue."
- A promotion that selects while a join has its joinedAt and is not inserted yet serves a user who joined later
  (docs/FAILURE_SCENARIOS.md:110); `PromotionOrder` is about the tickets that are committed.
- `lateRejoin` and `lateArrived` make a MISSED user active without a look at maxSize (docs/SYSTEM.md:27);
  `BoundedOverrun` is about queues without them.
- A rejoin that comes after expiresAt writes MISSED to the ticket and WAITING to the audit log (docs/SYSTEM.md:320); it
  is the exception of `AuditExplains`.
- A LATE user may leave: src/core/queueUserStateMachine.ts:32 has the edge from LATE to CANCELLED, and
  docs/TRANSITIONS.md does not list it, whose line 7 calls every transition that is not listed invalid.
  `TicketLifecycle` has the edges of the code, so `LifecycleSpec` is about the code's table and not about the
  document's.
- After a restart the workers wait for the first use of Redis (src/infra/redis.ts:34, docs/SYSTEM.md:249); `running` is
  the exception of `ExpiryEnforced`.
- `triggerPromotion` deletes no key, so a cached status says WAITING of a user who has been told SERVING; no handler
  deletes `tickets:user:<id>`, since `joinQueue` deletes a key of another name; and a reader that has read before a
  commit caches after the deletions. Each answer is stale until its life ends, 10 to 300 seconds by its key
  (docs/SYSTEM.md:309 has keys "invalidated on state changes").
- The late-expiry worker emits inside its transaction (src/workers/lateExpiry.worker.ts:32), where docs/TIME_MODEL.md:37
  has events emitted after the commit; it is the exception of `ToldCommitted`.
- Outside of the models, `leaveQueue` of `src/socket.ts:36` joins the room it is to leave.

### Fairness

`FairSpec` asks weak fairness of `Step(p)` for each process, of `PickPromoteJob` and of `JobDone`: Node's event loop
and PostgreSQL execute the next statement of every open activity, BullMQ hands jobs to an idle worker, and PostgreSQL
breaks deadlocks. Nobody has to send a request, no fault has to happen and no expiry job has to come. Weak fairness is
enough: a process that waits for a lock may be overtaken, but the requests of an instance are bounded, so it is not
overtaken for ever. In the service, PostgreSQL queues the waiters of a row.

`QueueAdvances` excuses a crash and a fault; `stranded` shows that it has to.

`FairSpec` of `LateExpiryJobs` asks weak fairness of the clock, of the end of open transactions (`CommitMark`), of the
worker (`PickJob` of some user, `WorkerStep`) and of the safety net (`NetScan`, `NetAdd`), which is what a running
process does by itself. Nobody has to mark, rejoin or leave, nothing has to fail, and the first use of Redis after a
restart is not fair: it takes a request.

## Proofs

The theorems about `QueueTransactions` hold for every set of handlers and settings, every finite set of users and every
bound; the assumptions are `ProcessAssumption`, `SettingsAssumption` and `BoundsAssumption` of `QueueTransactions`,
which TLC evaluates in every run. Properties of faults come with them: timeouts, deadlocks, crashes and restarts are
steps like the others.

- `TypeCorrect`: `Spec => []TypeOK`. `TypeOK` alone is not inductive, since an action on `sess[p].user` needs it to be a
  user and not `Nobody`; `TypeInv` adds that of every pc at which a request or a serve is under way.
- `TransactionInvariant`: `Spec => []TransactionInv`. `TransactionInv` has four parts that need one another.
  `LockInv`: who promotes or deletes holds the queue exclusively, who commits a transition shares it, and never both.
  `SessionInv`: a transition that has been decided is an edge of the life cycle from the status that was read, and the
  ticket selected by a promotion still waits. `RowInv`: a locked row is about to make an edge, or, locked by a
  promotion, goes from WAITING to SERVING. `CountInv`: a promotion that counted a free slot still has it, and those it
  has served fit. The last is where the lock matters: the count stays true because nobody else commits a change
  (`LockInv`), and it grows by one per served ticket (lemma `OneMoreServed`).
- `SlotsRespected`: `Spec => SlotDiscipline`. By lemma `CommittedChanges` only four steps change what is committed; a
  request moves its own ticket and never to SERVING (`RequestMoves`), a promotion serves what it locked within the slots
  (`PromotionServes`).
- `LifecycleImplemented`: `Spec => LifecycleSpec`, the refinement of `TicketLifecycle` with the committed statuses, the
  slots and the existence of the queue. Each of the four steps maps to `Move`, `Promote`, `Configure` or `Delete`, or
  stutters.

The theorems of `LateExpiryJobsProofs` hold for every set of users, every grace time of at least a tick, every number of
attempts and every bound (`UsersAssumption`, `GraceAssumption`, `BoundAssumption`).

- `ExpiryTypeCorrect`: `Spec => []TypeOK`; `TypeInv` adds that the worker, unless it is idle, has a user.
- `StaleJobsHarmless`: `Spec => StaleJobHarmless`. `DeadlineInv` is inductive with the types: only a LATE ticket has a
  deadline, and the period that the worker has read has passed its deadline for as long as it is the ticket's last
  (periods only grow, and the clock does). So the worker ends a period early only when it ends one it has not read,
  which is the gap that `early_missed` shows.
- `FirstPeriodWatched`: `Spec => []FirstPeriodHasJob`. `FirstPeriodHasJob` is not inductive: the worker removes a job
  when it is done, so the job of a LATE ticket must not be finished, or come early. `JobInv` says that the first job of
  a ticket is due at its deadline (`BeforeFirstPeriod`, from `markLate` to its commit, then `InFirstPeriod`), that the
  worker which has it finds the ticket expired, and that rows written by `markLate` and the worker exclude each other
  (`LockInv`). It holds while nothing has failed.

`QueueTicketProofs` and `QueueProgressProofs` add to `TransactionInv` what the other properties of the core need.

- `SlotsKept`: `Spec => []ServingWithinSlots`. By `SlotStep`, the lemma behind `SlotsRespected`, only new settings could
  break it.
- `BoostEnds` and `AuditRecordsExplain`, both from `TicketInvariant`. A row is read, decided on and written in different
  statements, so the two properties must hold of every version there is: the committed row, the draft and the update
  that a session has computed (`TicketInv`).
- `OrderOfPromotion`: `Spec => PromotionOrder`. A promotion serves its candidates one by one and commits them together,
  so the order must hold of the locked rows until the commit: `OrderInv` says that what is about to be served is still a
  candidate, and that nobody still waiting is ahead of one already served. The exclusive lock is what keeps the waiting
  rows as they are, `LockInv`.
- `PromotionNeverLost`: `Spec => []NoLostPromotion`. A promotion that has counted no free slot or found nobody waiting
  leaves none behind (`FinishInv`); who promotes holds the lock and who waits for it will promote (`QueueLockInv`); the
  expiry worker only takes LATE tickets to MISSED, which frees nothing (`WorkerInv`). When a deadlock ends a promotion,
  the other side of it is a handler's transition, which promotes after its commit.
- `OverrunBounded`: `Spec => []BoundedOverrun`, by counting: a join that passes the check moves from the room that it saw
  to `Joining`, and one that commits from `Joining` to the active tickets. `JoinInv` says that nothing else makes a
  ticket active.

The theorems of `RefreshTokensProofs` hold for every set of browsers, finite set of handlers, instants and bounds, every
`TokenLife` but 0 and every `RotateThreshold` (`LifeAssumption`; the code has seven days and an hour).

- `SessionTypes`: `Spec => []TypeOK`. That a new device has a number takes `CountInv`: each device was asked for by a
  request of its own, and the logins that are about to create one are counted with them.
- `SessionsAreKnown`: `Spec => []SessionKnown`. `SessionInv` says of each request that is about to answer, and of each
  browser since its answer, that a row or a copy has its token or that the token is superseded (`Known`). That it also
  *lives* is a matter of ages (`FreshInv`): a row lives one life and a copy a thousand from when its token was made, at
  the least (`RowsFresh`, `CopiesFresh`); a sign-in supersedes the older tokens of its device (`Since`), so the token of
  a browser is no older than its deviceId cookie, which lives one life (`DevicesFresh`). Each step of a request is shown
  to be a `StepOf`, and lemma `OneRequest` has the rest.

The theorems of `QueueViewsProofs` hold for every finite set of users and every set of handlers, readers, promotions,
operations and cached keys, and every number of slots (`ActivitiesAssumption`, `ChoicesAssumption`). They follow from one
inductive invariant, `ViewsInv`, whose parts say what the lists of effects still hold for the properties.

- `ViewTypes`: `Spec => []TypeOK`.
- `DeletionsReachFresh`: `Spec => []InvalidationReachesFresh`, from `DeletionInv`: what is fresh and to be swept has its
  deletion in the list of a *handler* (the worker drops its list when it aborts, so its deletions do not count), or had
  one that failed when the key was to be swept up to the same change (`undeleted`; lemma `DeletionFailsKeeps`). A reader
  that caches late caches nothing fresh that is older than the data (`swept <= version`).
- `EverythingTold`: `Spec => []NothingUntold`, from `UserTold` and `RoomTold`. The commit of the worker takes
  `ExpiryInv`: what it is about to commit is still the next version of a LATE ticket, and its user was told it or is
  told it next; it stays so because its ticket is locked (`Held`). For the room, a list is either yet to read the
  tickets and then tell, or has read a version that is new enough (`WillAnnounce`). What a promotion tells is read off
  `PromotionEffects` with the arithmetic of its three effects for each user (`Thirds`).
- `ViewsFollowLifecycle`: `Spec => LifecycleSpec`, which ties the coarse commits to those of `QueueTransactions`. A
  commit of a request or of the worker is a `Move`, the latter by `ExpiryInv`; a promotion is a `Promote` within the
  slots; the deletion is a `Delete`; new settings, which the abstract view of this module does not see, stutter, and so
  does every effect.

Every safety invariant and every safety action property that a passing run checks is thus a theorem, but for
`ToldCommitted`, which TLC alone checks. TLC alone also checks the liveness properties (`RequestsEnd`, `QueueAdvances`,
`ExpiryEnforced`), because they need `ENABLED` and fairness, and finds the behaviours of the runs that refute a
statement.

The inductive invariants were checked by TLC before they were proved. That found the exception described above:
`NoLostPromotion` fails across deletions, in behaviours that the instances of the runs were too small to reach.

## Plan

Done: the state machine, requests, promotions, promotion jobs, failures; their guarantees; the abstract life cycle; the
late-expiry jobs; the cache and the notifications; the sessions; the theorems above.

Next: `ToldCommitted` as a theorem (what a list is yet to tell is committed, or is what the worker holds); a theorem
that bounds what a stale decision can do (the ticket that turns MISSED early is one whose period was read before), and
an abstract specification of the late-expiry jobs that `LateExpiryJobs` implements.

## Not modelled

- Routes, middleware, response and type declarations, password hashing, access tokens: no state that the properties see.
- `createQueue`, beyond the initial state: queues do not interact, and the unique name of an administrator's queue is one
  unguarded check of one administrator.
- The members of the Socket.IO rooms, and what a client misses while it is disconnected: docs/SYSTEM.md calls the
  messages a broadcast and not a source of truth, and no code in `src/` reacts to a member's absence.
- The connection parameters of Redis, and Redis losing data; errors of single commands are faults of the models.
- The position that a transition tells its user: a count of committed rows at that moment, right when it is made and
  promised by no document for later.
- The order in which a room receives two messages: docs/SYSTEM.md:135 tells clients to treat them as hints.
- Seeds, load scripts, unit tests and migrations.
