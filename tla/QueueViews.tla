----------------------------- MODULE QueueViews -----------------------------
(***************************************************************************)
(* What the clients see of one queue: the answers that the read endpoints  *)
(* cache in Redis, and what Socket.IO tells the rooms of the users and of  *)
(* the queue, against the commits of the handlers, of triggerPromotion and *)
(* of the late-expiry worker, and against the cache deletions and          *)
(* emissions that each of them does after (the worker: before) its commit. *)
(*                                                                         *)
(* A transaction is one step here; QueueTransactions has its statements.   *)
(* What is cached or told is represented by the version of the data behind *)
(* it.  triggerPromotion is not among the effects of a handler: a          *)
(* promotion may start at any time, which includes when a handler or a job *)
(* asks for it.  Deletions of keys that nothing reads are left out:        *)
(* queue:<id>, and ticket:user:<id>, where joinQueue means tickets:user.   *)
(***************************************************************************)
EXTENDS QueueUserStateMachine, Sequences

CONSTANTS Users,         \* the users with a ticket
          Handlers,      \* concurrent requests that write
          Readers,       \* concurrent requests that read
          Promotions,    \* concurrent runs of triggerPromotion
          ExpiryWorker,  \* the late-expiry worker
          Nobody,        \* no user
          Operations,    \* the kinds of request the clients send
          CachedKinds,   \* the kinds of key that the readers ask for
          Slots,         \* serviceSlots
          MaxCommits,    \* bound of the committed requests
          MaxFaults      \* bound of the Redis commands that fail

KeyKinds == {"queueStatus", "tickets:user", "queueUsers", "count", "meta", "queues:admin"}
OperationKinds == {"join", "leave", "remove", "complete", "markLate",
                   "lateRejoin", "lateArrived", "update", "delete"}

Activities == Handlers \cup Promotions \cup {ExpiryWorker}

ASSUME ActivitiesAssumption ==
    /\ ExpiryWorker \notin Handlers \cup Promotions
    /\ Handlers \cap Promotions = {}
    /\ Nobody \notin Users
    /\ IsFiniteSet(Users)
ASSUME ChoicesAssumption ==
    /\ Operations \subseteq OperationKinds
    /\ CachedKinds \subseteq KeyKinds
    /\ Slots \in Nat \ {0}
    /\ MaxCommits \in Nat
    /\ MaxFaults \in Nat

\* The keys of the cache; queueUsers stands for its first page.
StatusKey(u)  == <<"queueStatus", u>>
TicketsKey(u) == <<"tickets:user", u>>
PagesKey == <<"queueUsers", Nobody>>
CountKey == <<"count", Nobody>>
MetaKey  == <<"meta", Nobody>>
AdminKey == <<"queues:admin", Nobody>>
Keys == {StatusKey(u) : u \in Users} \cup {TicketsKey(u) : u \in Users}
            \cup {PagesKey, CountKey, MetaKey, AdminKey}

VARIABLES exists,     \* the Queue row exists
          status,     \* status[u]: the committed status of u's ticket
          version,    \* version[k]: how often the data behind key k has changed
          swept,      \* swept[k]: its version after the last commit whose handler is to delete k
          cache,      \* cache[k]: what Redis has under k
          undeleted,  \* undeleted[k]: swept[k] when a command that deletes k last failed
          redisErrors, \* the Redis commands that have failed
          work,       \* work[a]: what activity a has still to do, and has read
          reads,      \* reads[r]: where reader r is
          told,       \* told[u]: the versions of u's ticket told to u's room
          roomTold,   \* the newest snapshot sent to the queue's room
          announced,  \* the version of the queue that the room must get to see
          commits     \* requests committed so far

data  == <<exists, status, version, swept, announced, commits>>
redis == <<cache, undeleted, redisErrors>>
vars  == <<data, redis, work, reads, told, roomTold>>

Entry == [hit : BOOLEAN, version : Nat, fresh : BOOLEAN]

\* Variant of Miss for mutation: a missing value has no version to compare.
MissUnset == [hit |-> FALSE]
Miss == [hit |-> FALSE, version |-> 0, fresh |-> FALSE]

-----------------------------------------------------------------------------
(* Effects: what is left to do for an activity, in the order of the code.  *)

NoKey == <<"none", Nobody>>

Effect == [do : {"del", "unlink", "tellUser", "readQueue", "tellQueue", "commit"},
           key : Keys \cup {NoKey}, user : Users \cup {Nobody}, version : Nat]

Do(what) == [do |-> what, key |-> NoKey, user |-> Nobody, version |-> 0]
TellUser(u, v) == <<[Do("tellUser") EXCEPT !.user = u, !.version = v]>>

\* cacheDel; of a key that no reader fills, it has no effect.
Del(k) == IF k[1] \in CachedKinds THEN <<[Do("del") EXCEPT !.key = k]>> ELSE <<>>

\* emitQueueUpdate reads the tickets outside of any transaction, then emits.
EmitQueueUpdate == <<Do("readQueue"), Do("tellQueue")>>

\* Variant of DeleteThenTell for mutation: the status of the user is not deleted.
DeletePagesOnly(u, v) ==
    Del(PagesKey) \o TellUser(u, v) \o EmitQueueUpdate

\* The deletions and the emission about the ticket of u, at version v, in the
\* order of joinQueue, markComplete, markLate and removeQueueUser ...
DeleteThenTell(u, v) ==
    Del(StatusKey(u)) \o Del(PagesKey) \o TellUser(u, v) \o EmitQueueUpdate

\* ... of leaveQueue and lateRejoin ...
TellThenDeletePages(u, v) ==
    TellUser(u, v) \o Del(PagesKey) \o Del(StatusKey(u)) \o EmitQueueUpdate

\* ... and of lateArrived.
TellThenDeleteStatus(u, v) ==
    TellUser(u, v) \o Del(StatusKey(u)) \o Del(PagesKey) \o EmitQueueUpdate

Rest == [todo |-> <<>>, seen |-> 0]

Work == [todo : Seq(Effect), seen : Nat]

Idle(a) == work[a].todo = <<>>
Next1(a) == Head(work[a].todo)
Pop(a) == work' = [work EXCEPT ![a].todo = Tail(@)]

Read     == [pc : {"idle", "missed", "read"}, key : Keys \cup {NoKey}, version : Nat]
IdleRead == [pc |-> "idle", key |-> NoKey, version |-> 0]

-----------------------------------------------------------------------------
(* Commits. *)

Active(rows)  == {u \in Users : rows[u] \in {"WAITING", "LATE", "SERVING"}}
Serving(rows) == {u \in Users : rows[u] = "SERVING"}

\* The keys whose data a change of the tickets in S to rows changes.
TicketData(S, rows) ==
    (UNION {{StatusKey(u), TicketsKey(u)} : u \in S}) \cup {PagesKey}
        \cup (IF Active(rows) = Active(status) THEN {} ELSE {CountKey, AdminKey})

Changed(keys) == [k \in Keys |-> IF k \in keys THEN version[k] + 1 ELSE version[k]]

\* The late-expiry worker has written the ticket of u and not committed.
Held(u) == \E i \in DOMAIN work[ExpiryWorker].todo :
               /\ work[ExpiryWorker].todo[i].do = "commit"
               /\ work[ExpiryWorker].todo[i].user = u

\* Activity a commits rows, with the keys whose data that changes, of which it
\* is to sweep some, and goes on to the effects.
Commit(a, rows, keys, sweeps, effects) ==
    /\ status' = rows
    /\ version' = Changed(keys)
    /\ swept' = [k \in Keys |-> IF k \in sweeps THEN version[k] + 1 ELSE swept[k]]
    /\ work' = [work EXCEPT ![a] = [todo |-> effects, seen |-> 0]]
    /\ UNCHANGED <<redis, reads, told, roomTold>>

\* A request of kind op moves the ticket of u.
MoveTicket(p, op, u, to, effects) ==
    LET rows == [status EXCEPT ![u] = to]
    IN  /\ op \in Operations
        /\ commits < MaxCommits
        /\ exists
        /\ Idle(p)
        /\ ~Held(u)
        /\ Commit(p, rows, TicketData({u}, rows), {StatusKey(u), PagesKey}, effects)
        /\ announced' = version[PagesKey] + 1
        /\ commits' = commits + 1
        /\ UNCHANGED exists

Edge(u, event, to) == <<status[u], event, to>> \in Transitions

\* The version of u's ticket that the commit makes.
Newer(u) == version[StatusKey(u)] + 1

JoinQueue(p, u) ==
    /\ status[u] \in {"NONE", "CANCELLED", "MISSED"}
    /\ MoveTicket(p, "join", u, "WAITING", DeleteThenTell(u, Newer(u)))

LeaveQueue(p, u) ==
    /\ Edge(u, "LEAVE", "CANCELLED")
    /\ MoveTicket(p, "leave", u, "CANCELLED", TellThenDeletePages(u, Newer(u)))

RemoveQueueUser(p, u) ==
    /\ Edge(u, "LEAVE", "CANCELLED")
    /\ MoveTicket(p, "remove", u, "CANCELLED", DeleteThenTell(u, Newer(u)))

MarkComplete(p, u) ==
    /\ Edge(u, "COMPLETE", "COMPLETED")
    /\ MoveTicket(p, "complete", u, "COMPLETED", DeleteThenTell(u, Newer(u)))

MarkLate(p, u) ==
    /\ Edge(u, "MARK_LATE", "LATE")
    /\ MoveTicket(p, "markLate", u, "LATE", DeleteThenTell(u, Newer(u)))

\* A LATE user who is too late becomes MISSED.
Rejoined(u, to) ==
    /\ Edge(u, "REJOIN", "WAITING")
    /\ to = "WAITING" \/ (to = "MISSED" /\ status[u] = "LATE")

LateRejoin(p, u) ==
    \E to \in {"WAITING", "MISSED"} :
        /\ Rejoined(u, to)
        /\ MoveTicket(p, "lateRejoin", u, to, TellThenDeletePages(u, Newer(u)))

LateArrived(p, u) ==
    \E to \in {"WAITING", "MISSED"} :
        /\ Rejoined(u, to)
        /\ MoveTicket(p, "lateArrived", u, to, TellThenDeleteStatus(u, Newer(u)))

\* updateQueue and deleteQueue delete the keys of the administrator; neither
\* tells anybody.
ChangeQueue(p, op, rows, keys) ==
    /\ op \in Operations
    /\ commits < MaxCommits
    /\ exists
    /\ Idle(p)
    /\ Commit(p, rows, keys, {AdminKey, MetaKey}, Del(AdminKey) \o Del(MetaKey))
    /\ commits' = commits + 1
    /\ UNCHANGED announced

UpdateQueue(p) == /\ ChangeQueue(p, "update", status, {AdminKey, MetaKey})
                  /\ UNCHANGED exists

DeleteQueue(p) == /\ \A u \in Users : ~Held(u)
                  /\ ChangeQueue(p, "delete", [u \in Users |-> "NONE"], Keys)
                  /\ exists' = FALSE

\* The effects of a promotion of S: it tells each user, and the room each time.
PromotionEffects(S) ==
    LET order == CHOOSE s \in [1..Cardinality(S) -> S] : \A u \in S : \E i \in DOMAIN s : s[i] = u
    IN  [i \in 1..(3 * Cardinality(S)) |->
            IF i % 3 = 1
            THEN LET u == order[(i + 2) \div 3] IN TellUser(u, Newer(u))[1]
            ELSE EmitQueueUpdate[IF i % 3 = 2 THEN 1 ELSE 2]]

\* Variant of Promote for mutation: the room is not told.
PromoteSilently(a) ==
    /\ exists
    /\ Idle(a)
    /\ Cardinality(Serving(status)) < Slots
    /\ \E u \in Users :
          LET rows == [status EXCEPT ![u] = "SERVING"]
          IN  /\ status[u] = "WAITING"
              /\ Commit(a, rows, TicketData({u}, rows), {}, TellUser(u, Newer(u)))
    /\ announced' = version[PagesKey] + 1
    /\ UNCHANGED <<exists, commits>>

\* triggerPromotion serves as many of the waiting users as there are slots.
\* It deletes no key.
Promote(a) ==
    LET free    == Slots - Cardinality(Serving(status))
        waiting == {u \in Users : status[u] = "WAITING"}
    IN  /\ exists
        /\ Idle(a)
        /\ free > 0
        /\ \E S \in (SUBSET waiting) \ {{}} :
              LET rows == [u \in Users |-> IF u \in S THEN "SERVING" ELSE status[u]]
              IN  /\ Cardinality(S) = free \/ (S = waiting /\ Cardinality(S) < free)
                  /\ Commit(a, rows, TicketData(S, rows), {}, PromotionEffects(S))
        /\ announced' = version[PagesKey] + 1
        /\ UNCHANGED <<exists, commits>>

-----------------------------------------------------------------------------
(* The late-expiry worker: it tells and deletes before it commits. *)

\* Variant of StartExpiry for mutation: whatever the ticket is by then.
StartAnyExpiry(u) ==
    /\ exists
    /\ Idle(ExpiryWorker)
    /\ work' = [work EXCEPT ![ExpiryWorker].todo =
                   TellUser(u, Newer(u)) \o Del(CountKey) \o Del(StatusKey(u)) \o Del(CountKey)
                       \o <<[Do("commit") EXCEPT !.user = u]>>]
    /\ UNCHANGED <<data, redis, reads, told, roomTold>>

StartExpiry(u) ==
    /\ exists
    /\ Idle(ExpiryWorker)
    /\ status[u] = "LATE"
    /\ work' = [work EXCEPT ![ExpiryWorker].todo =
                   TellUser(u, Newer(u)) \o Del(CountKey) \o Del(StatusKey(u)) \o Del(CountKey)
                       \o <<[Do("commit") EXCEPT !.user = u]>>]
    /\ UNCHANGED <<data, redis, reads, told, roomTold>>

CommitMissed ==
    /\ ~Idle(ExpiryWorker)
    /\ Next1(ExpiryWorker).do = "commit"
    /\ LET u    == Next1(ExpiryWorker).user
           rows == [status EXCEPT ![u] = "MISSED"]
       IN  Commit(ExpiryWorker, rows, TicketData({u}, rows), {}, <<>>)
    /\ UNCHANGED <<exists, announced, commits>>

\* The transaction of the worker fails; its job will run again.
AbortMissed ==
    /\ ~Idle(ExpiryWorker)
    /\ work' = [work EXCEPT ![ExpiryWorker] = Rest]
    /\ UNCHANGED <<data, redis, reads, told, roomTold>>

-----------------------------------------------------------------------------
(* The effects, one await at a time. *)

\* A command of Redis throws.
RedisFails == /\ redisErrors < MaxFaults
              /\ redisErrors' = redisErrors + 1
              /\ UNCHANGED cache

\* cacheDel swallows the error of either of its commands: the key stays, and
\* the caller goes on as if it were gone.
DeletionFails(a) ==
    LET k == Next1(a).key
    IN  /\ RedisFails
        /\ undeleted' = [undeleted EXCEPT ![k] = swept[k]]
        /\ Pop(a)

\* cacheDel looks the keys of its pattern up (KEYS) ...
LookupKeys(a) ==
    /\ ~Idle(a)
    /\ Next1(a).do = "del"
    /\ \/ /\ work' = [work EXCEPT ![a].todo =
                         IF cache[Next1(a).key].hit
                         THEN <<[Next1(a) EXCEPT !.do = "unlink"]>> \o Tail(@) ELSE Tail(@)]
          /\ UNCHANGED redis
       \/ DeletionFails(a)
    /\ UNCHANGED <<data, reads, told, roomTold>>

\* ... and deletes those it has found (DEL).
UnlinkKeys(a) ==
    /\ ~Idle(a)
    /\ Next1(a).do = "unlink"
    /\ \/ /\ cache' = [cache EXCEPT ![Next1(a).key] = Miss]
          /\ Pop(a)
          /\ UNCHANGED <<undeleted, redisErrors>>
       \/ DeletionFails(a)
    /\ UNCHANGED <<data, reads, told, roomTold>>

\* emitUserStatusUpdate, emitPromotion, or the emission of the worker.
EmitToUser(a) ==
    /\ ~Idle(a)
    /\ Next1(a).do = "tellUser"
    /\ told' = [told EXCEPT ![Next1(a).user] = @ \cup {Next1(a).version}]
    /\ Pop(a)
    /\ UNCHANGED <<data, redis, reads, roomTold>>

ReadTickets(a) ==
    /\ ~Idle(a)
    /\ Next1(a).do = "readQueue"
    /\ work' = [work EXCEPT ![a] = [todo |-> Tail(@.todo), seen |-> version[PagesKey]]]
    /\ UNCHANGED <<data, redis, reads, told, roomTold>>

EmitToQueue(a) ==
    /\ ~Idle(a)
    /\ Next1(a).do = "tellQueue"
    /\ roomTold' = IF work[a].seen > roomTold THEN work[a].seen ELSE roomTold
    /\ work' = [work EXCEPT ![a] = [todo |-> Tail(@.todo), seen |-> 0]]
    /\ UNCHANGED <<data, redis, reads, told>>

-----------------------------------------------------------------------------
(* The read endpoints: get, and on a miss read, then set with a time to live. *)

\* A command of a reader fails; cacheGet and cacheSet swallow the error.
ReaderFails == RedisFails /\ UNCHANGED undeleted

\* A key that is not there is a miss, and so is an error.
CacheGet(r, k) ==
    /\ reads[r].pc = "idle"
    /\ k[1] \in CachedKinds
    /\ \/ ~cache[k].hit /\ UNCHANGED redis
       \/ ReaderFails
    /\ reads' = [reads EXCEPT ![r] = [IdleRead EXCEPT !.pc = "missed", !.key = k]]
    /\ UNCHANGED <<data, work, told, roomTold>>

\* A ticket or a queue that is not there is an error, which is not cached; a
\* list is cached even when it is empty.
Readable(k) ==
    /\ \A u \in Users : k = StatusKey(u) => status[u] # "NONE"
    /\ k \in {PagesKey, CountKey, MetaKey} => exists

ReadDatabase(r) ==
    /\ reads[r].pc = "missed"
    /\ reads' = [reads EXCEPT ![r] =
                    IF Readable(@.key) THEN [pc |-> "read", key |-> @.key, version |-> version[@.key]]
                    ELSE IdleRead]
    /\ UNCHANGED <<data, redis, work, told, roomTold>>

CacheSet(r) ==
    LET k == reads[r].key
    IN  /\ reads[r].pc = "read"
        /\ \/ /\ cache' = [cache EXCEPT ![k] = [hit |-> TRUE, version |-> reads[r].version,
                                                fresh |-> reads[r].version = version[k]]]
              /\ UNCHANGED <<undeleted, redisErrors>>
           \/ ReaderFails
        /\ reads' = [reads EXCEPT ![r] = IdleRead]
        /\ UNCHANGED <<data, work, told, roomTold>>

\* The time to live of a key passes.
ExpireKey(k) ==
    /\ cache[k].hit
    /\ cache' = [cache EXCEPT ![k] = Miss]
    /\ UNCHANGED <<data, undeleted, redisErrors, work, reads, told, roomTold>>

-----------------------------------------------------------------------------
Init == /\ exists = TRUE
        /\ status = [u \in Users |-> "NONE"]
        /\ version = [k \in Keys |-> 0]
        /\ swept = [k \in Keys |-> 0]
        /\ cache = [k \in Keys |-> Miss]
        /\ undeleted = [k \in Keys |-> 0]
        /\ redisErrors = 0
        /\ work = [a \in Activities |-> Rest]
        /\ reads = [r \in Readers |-> IdleRead]
        /\ told = [u \in Users |-> {}]
        /\ roomTold = 0
        /\ announced = 0
        /\ commits = 0

\* Every request the bound allows is over.
Terminating == commits = MaxCommits /\ (\A a \in Activities : Idle(a)) /\ UNCHANGED vars

Request(p, u) == \/ JoinQueue(p, u) \/ LeaveQueue(p, u) \/ RemoveQueueUser(p, u)
                 \/ MarkComplete(p, u) \/ MarkLate(p, u)
                 \/ LateRejoin(p, u) \/ LateArrived(p, u)

PerformEffect(a) == \/ LookupKeys(a) \/ UnlinkKeys(a) \/ EmitToUser(a)
                    \/ ReadTickets(a) \/ EmitToQueue(a)

Next == \/ \E p \in Handlers, u \in Users : Request(p, u)
        \/ \E p \in Handlers : UpdateQueue(p) \/ DeleteQueue(p)
        \/ \E a \in Promotions : Promote(a)
        \/ \E u \in Users : StartExpiry(u)
        \/ CommitMissed \/ AbortMissed
        \/ \E a \in Activities : PerformEffect(a)
        \/ \E r \in Readers, k \in Keys : CacheGet(r, k)
        \/ \E r \in Readers : ReadDatabase(r) \/ CacheSet(r)
        \/ \E k \in Keys : ExpireKey(k)
        \/ Terminating

Spec == Init /\ [][Next]_vars

-----------------------------------------------------------------------------
(* Properties. *)

\* Every variable has its type.
TypeOK ==
    /\ exists \in BOOLEAN
    /\ status \in [Users -> AnyStatus]
    /\ version \in [Keys -> Nat]
    /\ swept \in [Keys -> Nat]
    /\ cache \in [Keys -> Entry]
    /\ undeleted \in [Keys -> Nat]
    /\ redisErrors \in Nat
    /\ work \in [Activities -> Work]
    /\ reads \in [Readers -> Read]
    /\ told \in [Users -> SUBSET Nat]
    /\ roomTold \in Nat
    /\ announced \in Nat
    /\ commits \in Nat

\* An answer that was right when it was cached does not survive the deletions
\* of a handler that changes it, but where a command of such a deletion failed
\* (cacheDel swallows the error) after the change: the other stale answers that
\* remain when a handler is done were cached late, by a reader that had read
\* before the commit, or are about a change that deletes no key (a promotion,
\* an expiry).
InvalidationReachesFresh ==
    \A k \in Keys :
        cache[k].hit /\ cache[k].fresh /\ cache[k].version < swept[k]
            => \/ \E a \in Activities : \E i \in DOMAIN work[a].todo :
                     work[a].todo[i].key = k /\ work[a].todo[i].do \in {"del", "unlink"}
               \/ cache[k].version < undeleted[k]

\* Nothing goes untold: once nobody has anything left to do, every change of a
\* ticket was told to its user, and the room of the queue was sent a snapshot
\* that has every change but the expiries, in whatever order they were read.
NothingUntold ==
    exists /\ (\A a \in Activities : Idle(a))
        => /\ \A u \in Users : 1..version[StatusKey(u)] \subseteq told[u]
           /\ roomTold >= announced

\* What a user has been told is committed, or is the MISSED that the worker
\* tells before its commit (docs/TIME_MODEL.md wants all of it after), which
\* may fail: the ticket is then still LATE.
ToldCommitted ==
    \A u \in Users : \A v \in told[u] :
        \/ v <= version[StatusKey(u)]
        \/ v = Newer(u) /\ status[u] = "LATE"

\* The commits follow the life cycle that QueueTransactions implements: what
\* is cached and told here is what is committed there.
Lifecycle == INSTANCE TicketLifecycle WITH slots <- Slots, open <- exists
LifecycleSpec == Lifecycle!Spec
=============================================================================
