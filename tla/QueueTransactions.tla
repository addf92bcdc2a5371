------------------------- MODULE QueueTransactions -------------------------
(***************************************************************************)
(* The requests, promotions and workers of WaitWise that change the        *)
(* tickets of one queue, at the granularity of their SQL statements, over  *)
(* PostgreSQL at READ COMMITTED.                                           *)
(*                                                                         *)
(* A process is an activity of the server that holds at most one           *)
(* transaction: an HTTP handler (its request, then the triggerPromotion it *)
(* starts), the promote-if-free-slot worker, or the late-expiry worker.    *)
(* Each statement is one action; between two statements of a process the   *)
(* others take theirs.                                                     *)
(*                                                                         *)
(* Row locks.  The UPDATE or INSERT of a ticket locks its row until the    *)
(* end of the transaction.  triggerPromotion and deleteQueue lock the      *)
(* Queue row exclusively.  Inserting a ticket or a QueueEvents record makes *)
(* PostgreSQL lock the Queue row it refers to FOR KEY SHARE, which         *)
(* conflicts with the exclusive lock.  draft[u] is the version of row u    *)
(* that its locker wrote and has not committed.                            *)
(***************************************************************************)
EXTENDS QueueUserStateMachine

CONSTANTS Users,           \* the users that ever ask for a ticket
          Handlers,        \* concurrent HTTP requests
          PromoteWorker,   \* the promote-if-free-slot worker
          ExpiryWorker,    \* the late-expiry worker
          Nobody,          \* no user, no process
          Operations,      \* the kinds of request the clients send
          SlotChoices,     \* values of serviceSlots
          MaxSizeChoices,  \* values of maxSize; NoLimit stands for NULL
          GraceChoices,    \* values of graceTime, in ticks
          JobAttempts,     \* attempts of a job before it is failed
          MaxNow,          \* bound of the clock
          MaxRequests,     \* bound of the requests sent
          MaxFaults        \* bound of the timeouts, restarts and Redis errors

Proc == Handlers \cup {PromoteWorker, ExpiryWorker}

OperationKinds == {"join", "leave", "remove", "complete", "markLate",
                   "lateRejoin", "lateArrived", "update", "delete"}

NoLimit == 0     \* maxSize IS NULL

ASSUME ProcessAssumption ==
    /\ PromoteWorker \notin Handlers
    /\ ExpiryWorker \notin Handlers
    /\ PromoteWorker # ExpiryWorker
    /\ Nobody \notin Proc \cup Users
    /\ IsFiniteSet(Users)
    /\ IsFiniteSet(Handlers)
ASSUME SettingsAssumption ==
    /\ Operations \subseteq OperationKinds
    /\ SlotChoices \subseteq Nat \ {0}
    /\ MaxSizeChoices \subseteq Nat
    /\ GraceChoices \subseteq Nat
ASSUME BoundsAssumption ==
    /\ JobAttempts \in Nat \ {0}
    /\ MaxNow \in Nat \ {0}
    /\ MaxRequests \in Nat
    /\ MaxFaults \in Nat

VARIABLES queue,        \* the Queue row
          tickets,      \* tickets[u]: the committed QueueUser row of u
          draft,        \* draft[u]: what the locker of row u sees
          rowLock,      \* rowLock[u]: the process that wrote row u, or Nobody
          queueLock,    \* the process that holds the Queue row exclusively
          keyShare,     \* the processes that hold it FOR KEY SHARE
          sess,         \* sess[p]: where p is and what its request has read
          promoteJob,   \* the BullMQ job promote-if-free-slot-<queueId>
          now,          \* the clock
          requests,     \* requests sent so far
          faults,       \* faults so far
          crashed       \* an unhandled rejection has ended the server

locks == <<rowLock, queueLock, keyShare>>
env   == <<now, requests, faults>>
vars  == <<queue, tickets, draft, locks, sess, promoteJob, env, crashed>>

-----------------------------------------------------------------------------
(* Sessions and jobs. *)

RequestPc   == {"capacity", "existing", "read", "update", "insert", "log", "commit"}
PromotionPc == {"lock", "count", "select", "serve", "finish"}
DeletePc    == {"delete", "cascade"}
Pc == {"idle", "ack"} \cup RequestPc \cup PromotionPc \cup DeletePc

\* What runs in a session: a transition, a join that has not found a ticket,
\* or what brought the process to triggerPromotion or to a delete.
SessionEvents == Events \cup {"NONE", "JOIN", "UPDATE", "DELETE", "JOB"}

Session == [pc : Pc, event : SessionEvents, user : Users \cup {Nobody},
            seen : AnyStatus, upd : Updates, stamp : Nat]

Idle == [pc |-> "idle", event |-> "NONE", user |-> Nobody, seen |-> "NONE",
         upd |-> NoUpdates, stamp |-> 0]

At(p, pc) == sess[p].pc = pc

Goto(p, pc) == sess' = [sess EXCEPT ![p].pc = pc]

Job == [state : {"absent", "queued", "active", "failed"}, attempts : Nat]

NoJob == [state |-> "absent", attempts |-> 0]

\* queue.add with a jobId: ignored while a job of that id exists, a failed
\* one included (removeOnFail is false).
AddJob(job) == IF job = NoJob THEN [state |-> "queued", attempts |-> 0] ELSE job

\* A job whose process threw is retried until its attempts are used up.
RetryJob(job) == [state    |-> IF job.attempts + 1 < JobAttempts THEN "queued" ELSE "failed",
                  attempts |-> job.attempts + 1]

-----------------------------------------------------------------------------
(* Transactions. *)

\* A process reads its own writes, and of the others what they committed.
View(p) == [u \in Users |-> IF rowLock[u] = p THEN draft[u] ELSE tickets[u]]

Unlock(p) == /\ rowLock' = [u \in Users |-> IF rowLock[u] = p THEN Nobody ELSE rowLock[u]]
             /\ queueLock' = IF queueLock = p THEN Nobody ELSE queueLock
             /\ keyShare' = keyShare \ {p}

CommitTx(p) == /\ tickets' = View(p)
               /\ UNCHANGED draft
               /\ Unlock(p)

Rollback(p) == /\ draft' = [u \in Users |-> IF rowLock[u] = p THEN tickets[u] ELSE draft[u]]
               /\ UNCHANGED tickets
               /\ Unlock(p)

Active(rows) == {u \in Users : rows[u].status \in {"WAITING", "LATE", "SERVING"}}
Serving(rows) == {u \in Users : rows[u].status = "SERVING"}

QueueType == [exists : BOOLEAN, serviceSlots : Nat \ {0}, maxSize : Nat,
              graceTime : Nat]

Init == /\ queue \in [exists : {TRUE}, serviceSlots : SlotChoices,
                      maxSize : MaxSizeChoices, graceTime : GraceChoices]
        /\ tickets = [u \in Users |-> NoTicket]
        /\ draft = tickets
        /\ rowLock = [u \in Users |-> Nobody]
        /\ queueLock = Nobody
        /\ keyShare = {}
        /\ sess = [p \in Proc |-> Idle]
        /\ promoteJob = NoJob
        /\ now = 1
        /\ requests = 0
        /\ faults = 0
        /\ crashed = FALSE

-----------------------------------------------------------------------------
(* Requests. *)

\* Handler p receives a request about the ticket of u.
Receive(p, op, pc, event, u) ==
    /\ op \in Operations
    /\ requests < MaxRequests
    /\ At(p, "idle")
    /\ sess' = [sess EXCEPT ![p] = [Idle EXCEPT !.pc = pc, !.event = event, !.user = u]]
    /\ requests' = requests + 1
    /\ UNCHANGED <<queue, tickets, draft, locks, promoteJob, now, faults, crashed>>

JoinQueue(p, u)       == Receive(p, "join", "capacity", "JOIN", u)
LeaveQueue(p, u)      == Receive(p, "leave", "read", "LEAVE", u)
RemoveQueueUser(p, u) == Receive(p, "remove", "read", "LEAVE", u)
MarkComplete(p, u)    == Receive(p, "complete", "read", "COMPLETE", u)
MarkLate(p, u)        == Receive(p, "markLate", "read", "MARK_LATE", u)
LateRejoin(p, u)      == Receive(p, "lateRejoin", "read", "REJOIN", u)
LateArrived(p, u)     == Receive(p, "lateArrived", "read", "REJOIN", u)
DeleteQueue(p)        == Receive(p, "delete", "delete", "DELETE", Nobody)

\* Variant of HasRoom for mutation: one ticket too many.
HasRoomOrIsFull == queue.maxSize = NoLimit \/ Cardinality(Active(tickets)) <= queue.maxSize

\* The check of maxSize in joinQueue counts the committed active tickets.
HasRoom == queue.maxSize = NoLimit \/ Cardinality(Active(tickets)) < queue.maxSize

CheckCapacity(p) ==
    /\ At(p, "capacity")
    /\ queue.exists
    /\ HasRoom
    /\ Goto(p, "existing")
    /\ UNCHANGED <<queue, tickets, draft, locks, promoteJob, env, crashed>>

\* joinQueue looks for an existing ticket: a CANCELLED or MISSED one rejoins,
\* no ticket is a fresh join.  Prisma takes the joinedAt of the new ticket
\* (now() of the schema) before it sends the INSERT.
CheckExisting(p) ==
    /\ At(p, "existing")
    /\ \/ /\ tickets[sess[p].user].status \in {"CANCELLED", "MISSED"}
          /\ sess' = [sess EXCEPT ![p].pc = "read", ![p].event = "REJOIN"]
       \/ /\ tickets[sess[p].user].status = "NONE"
          /\ sess' = [sess EXCEPT ![p].pc = "insert", ![p].stamp = now]
    /\ UNCHANGED <<queue, tickets, draft, locks, promoteJob, env, crashed>>

\* The triples that transitionQueueUser may apply to a row for an event.
Decisions(row, event) ==
    {t \in Transitions : /\ t[1] = row.status /\ t[2] = event
                         /\ ~(t[1] = "LATE" /\ event = "REJOIN" /\ row.expiresAt = NoExpiry)}

\* transitionQueueUser reads the row, decides, and computes the updates.
ReadTicket(p) ==
    LET row == tickets[sess[p].user]
    IN  /\ At(p, "read")
        /\ \E t \in Decisions(row, sess[p].event) :
              sess' = [sess EXCEPT ![p].pc = "update",
                                   ![p].seen = row.status,
                                   ![p].upd = ComputeUpdates(row, t[2], t[3], now,
                                                             queue.graceTime)]
        /\ UNCHANGED <<queue, tickets, draft, locks, promoteJob, env, crashed>>

\* Process p writes row u and keeps it locked.
Write(p, u, row) == /\ draft' = [draft EXCEPT ![u] = row]
                    /\ rowLock' = [rowLock EXCEPT ![u] = p]

\* Variant of UpdateTicket for mutation: no guard on the status.
UpdateUnguarded(p) ==
    LET u == sess[p].user
    IN  /\ At(p, "update")
        /\ rowLock[u] = Nobody
        /\ Write(p, u, ApplyUpdates(tickets[u], sess[p].upd))
        /\ Goto(p, "log")
        /\ UNCHANGED <<queue, tickets, queueLock, keyShare, promoteJob, env, crashed>>

\* updateMany ... WHERE status = qu.status: waits for the row, then finds in
\* it the status that was read, whatever its other columns are by now.
UpdateTicket(p) ==
    LET u == sess[p].user
    IN  /\ At(p, "update")
        /\ rowLock[u] = Nobody
        /\ tickets[u].status = sess[p].seen
        /\ Write(p, u, ApplyUpdates(tickets[u], sess[p].upd))
        /\ Goto(p, "log")
        /\ UNCHANGED <<queue, tickets, queueLock, keyShare, promoteJob, env, crashed>>

\* The fresh ticket of joinQueue: the unique index on userId and queueId makes
\* a second one wait, the foreign key takes the KEY SHARE lock of the queue.
InsertTicket(p) ==
    LET u == sess[p].user
    IN  /\ At(p, "insert")
        /\ rowLock[u] = Nobody
        /\ tickets[u].status = "NONE"
        /\ queue.exists
        /\ queueLock = Nobody
        /\ Write(p, u, [NoTicket EXCEPT !.status = "WAITING",
                                        !.joinedAt = sess[p].stamp,
                                        !.loggedTo = "WAITING"])
        /\ keyShare' = keyShare \cup {p}
        /\ Goto(p, "log")
        /\ UNCHANGED <<queue, tickets, queueLock, promoteJob, env, crashed>>

\* The events after which transitionQueueUser enqueues a promotion.
PromotingEvents == {"MISSED", "COMPLETE", "LEAVE", "REJOIN"}

\* Variant of LogEvent for mutation: QueueEvents without its foreign key.
LogUnlocked(p) ==
    /\ At(p, "log")
    /\ Goto(p, "commit")
    /\ promoteJob' = IF sess[p].event \in PromotingEvents THEN AddJob(promoteJob) ELSE promoteJob
    /\ UNCHANGED <<queue, tickets, draft, locks, env, crashed>>

\* logEvent inserts the audit record, whose foreign key takes the KEY SHARE
\* lock of the queue; then the promotion job is enqueued, still inside the
\* transaction.  An error of Redis is logged and ignored.
LogEvent(p) ==
    /\ At(p, "log")
    /\ queue.exists
    /\ queueLock = Nobody
    /\ keyShare' = keyShare \cup {p}
    /\ Goto(p, "commit")
    /\ \/ /\ sess[p].event \in PromotingEvents
          /\ promoteJob' = AddJob(promoteJob)
          /\ UNCHANGED faults
       \/ /\ sess[p].event \in PromotingEvents
          /\ faults < MaxFaults
          /\ faults' = faults + 1
          /\ UNCHANGED promoteJob
       \/ /\ sess[p].event \notin PromotingEvents
          /\ UNCHANGED <<promoteJob, faults>>
    /\ UNCHANGED <<queue, tickets, draft, rowLock, queueLock, now, requests, crashed>>

\* Variant of AfterCommit for mutation: no triggerPromotion.
AfterCommitStop(p) == Idle

\* A handler goes on to triggerPromotion; the expiry job is over.
AfterCommit(p) ==
    IF p \in Handlers THEN [Idle EXCEPT !.pc = "lock", !.event = sess[p].event] ELSE Idle

CommitRequest(p) ==
    /\ At(p, "commit")
    /\ CommitTx(p)
    /\ sess' = [sess EXCEPT ![p] = AfterCommit(p)]
    /\ UNCHANGED <<queue, promoteJob, env, crashed>>

\* What a request or a worker throws: a queue that is full or gone, a ticket
\* in the wrong status, a row that changed since it was read, a unique or
\* foreign key violation.  The transaction is rolled back.
Throws(p) ==
    LET u == sess[p].user
    IN  \/ At(p, "capacity") /\ ~(queue.exists /\ HasRoom)
        \/ At(p, "existing") /\ tickets[u].status \notin {"NONE", "CANCELLED", "MISSED"}
        \/ At(p, "read") /\ Decisions(tickets[u], sess[p].event) = {}
        \/ At(p, "update") /\ tickets[u].status # sess[p].seen
        \/ At(p, "insert") /\ tickets[u].status # "NONE"
        \/ sess[p].pc \in {"insert", "log", "delete"} /\ ~queue.exists

\* Variant of RequestRejected for mutation: the error is swallowed and the
\* request tries for ever.
RetryForEver(p) ==
    /\ Throws(p)
    /\ Rollback(p)
    /\ UNCHANGED <<queue, sess, promoteJob, env, crashed>>

RequestRejected(p) ==
    /\ Throws(p)
    /\ Rollback(p)
    /\ sess' = [sess EXCEPT ![p] = Idle]
    /\ UNCHANGED <<queue, promoteJob, env, crashed>>

-----------------------------------------------------------------------------
(* The late-expiry worker. *)

\* A job, or the job the safety net adds in its place, finds u LATE and
\* expired; it may run at any time, so a job that comes early is a no-op.
StartExpiryJob(u) ==
    /\ At(ExpiryWorker, "idle")
    /\ tickets[u].status = "LATE"
    /\ tickets[u].expiresAt # NoExpiry
    /\ tickets[u].expiresAt <= now
    /\ sess' = [sess EXCEPT ![ExpiryWorker] =
                   [Idle EXCEPT !.pc = "read", !.event = "MISSED", !.user = u]]
    /\ UNCHANGED <<queue, tickets, draft, locks, promoteJob, env, crashed>>

-----------------------------------------------------------------------------
(* triggerPromotion, from a handler, updateQueue or the worker. *)

PickPromoteJob ==
    /\ At(PromoteWorker, "idle")
    /\ promoteJob.state = "queued"
    /\ promoteJob' = [promoteJob EXCEPT !.state = "active"]
    /\ sess' = [sess EXCEPT ![PromoteWorker] = [Idle EXCEPT !.pc = "lock", !.event = "JOB"]]
    /\ UNCHANGED <<queue, tickets, draft, locks, env, crashed>>

\* A handler is done when its promotion is; the worker still has to remove
\* the job.
AfterPromotion(p) == IF p = PromoteWorker THEN [Idle EXCEPT !.pc = "ack"] ELSE Idle

\* SELECT ... FOR UPDATE waits for every other lock of the Queue row.
LockQueue(p) ==
    /\ At(p, "lock")
    /\ queue.exists
    /\ queueLock = Nobody
    /\ keyShare = {}
    /\ queueLock' = p
    /\ sess' = [sess EXCEPT ![p] = [Idle EXCEPT !.pc = "count", !.event = sess[p].event]]
    /\ UNCHANGED <<queue, tickets, draft, rowLock, keyShare, promoteJob, env, crashed>>

\* "if (!queue) return []".
QueueGone(p) ==
    /\ At(p, "lock")
    /\ ~queue.exists
    /\ sess' = [sess EXCEPT ![p] = AfterPromotion(p)]
    /\ UNCHANGED <<queue, tickets, draft, locks, promoteJob, env, crashed>>

\* Variant of CountServing for mutation: the count is read outside the
\* transaction, without what it has served so far.
CountCommitted(p) ==
    /\ At(p, "count")
    /\ Goto(p, IF Cardinality(Serving(tickets)) < queue.serviceSlots
               THEN "select" ELSE "finish")
    /\ UNCHANGED <<queue, tickets, draft, locks, promoteJob, env, crashed>>

\* The loop goes on while fewer are served, its own included, than slots.
CountServing(p) ==
    /\ At(p, "count")
    /\ Goto(p, IF Cardinality(Serving(View(p))) < queue.serviceSlots
               THEN "select" ELSE "finish")
    /\ UNCHANGED <<queue, tickets, draft, locks, promoteJob, env, crashed>>

SelectCandidate(p) ==
    /\ At(p, "select")
    /\ \E u \in Candidates(View(p)) :
          sess' = [sess EXCEPT ![p].pc = "serve", ![p].user = u, ![p].seen = "WAITING"]
    /\ UNCHANGED <<queue, tickets, draft, locks, promoteJob, env, crashed>>

NobodyWaits(p) ==
    /\ At(p, "select")
    /\ Candidates(View(p)) = {}
    /\ Goto(p, "finish")
    /\ UNCHANGED <<queue, tickets, draft, locks, promoteJob, env, crashed>>

\* transitionQueueUser with SERVE; its audit record needs no other lock than
\* the one that p holds, which also keeps every other transition of the
\* candidate from committing since it was selected (SessionInv).
Serve(p) ==
    LET u == sess[p].user
    IN  /\ At(p, "serve")
        /\ rowLock[u] = Nobody
        /\ tickets[u].status = sess[p].seen
        /\ Write(p, u, ApplyUpdates(tickets[u],
                          ComputeUpdates(tickets[u], "SERVE", "SERVING", now, queue.graceTime)))
        /\ Goto(p, "count")
        /\ UNCHANGED <<queue, tickets, queueLock, keyShare, promoteJob, env, crashed>>

FinishPromotion(p) ==
    /\ At(p, "finish")
    /\ CommitTx(p)
    /\ sess' = [sess EXCEPT ![p] = AfterPromotion(p)]
    /\ UNCHANGED <<queue, promoteJob, env, crashed>>

\* The worker reports completion and BullMQ removes the job.
JobDone ==
    /\ At(PromoteWorker, "ack")
    /\ promoteJob' = NoJob
    /\ sess' = [sess EXCEPT ![PromoteWorker] = Idle]
    /\ UNCHANGED <<queue, tickets, draft, locks, env, crashed>>

-----------------------------------------------------------------------------
(* updateQueue and deleteQueue. *)

\* Variant of UpdateQueue for mutation: new settings do not promote.
UpdateSettingsOnly(p) ==
    /\ "update" \in Operations
    /\ requests < MaxRequests
    /\ At(p, "idle")
    /\ queue.exists
    /\ queueLock = Nobody
    /\ \E s \in SlotChoices : queue' = [queue EXCEPT !.serviceSlots = s]
    /\ requests' = requests + 1
    /\ UNCHANGED <<tickets, draft, locks, sess, promoteJob, now, faults, crashed>>

\* The UPDATE waits for an exclusive lock but not for KEY SHARE ones; a
\* setting that is absent or not positive keeps its value.  (One that renames
\* the queue writes a column of @@unique([adminId, name]) and so waits for
\* KEY SHARE too: what it may do is among what is modelled.)
UpdateQueue(p) ==
    /\ "update" \in Operations
    /\ requests < MaxRequests
    /\ At(p, "idle")
    /\ queue.exists
    /\ queueLock = Nobody
    /\ \E s \in SlotChoices \cup {queue.serviceSlots},
          m \in (MaxSizeChoices \ {NoLimit}) \cup {queue.maxSize},
          g \in (GraceChoices \ {0}) \cup {queue.graceTime} :
          queue' = [queue EXCEPT !.serviceSlots = s, !.maxSize = m, !.graceTime = g]
    /\ sess' = [sess EXCEPT ![p] = [Idle EXCEPT !.pc = "lock", !.event = "UPDATE"]]
    /\ requests' = requests + 1
    /\ UNCHANGED <<tickets, draft, locks, promoteJob, now, faults, crashed>>

\* Variant of DeleteLock for mutation: the tickets have no foreign key, and
\* the lock waits for nobody who inserts one.
DeleteUnlocked(p) ==
    /\ At(p, "delete")
    /\ queue.exists
    /\ queueLock = Nobody
    /\ queueLock' = p
    /\ Goto(p, "cascade")
    /\ UNCHANGED <<queue, tickets, draft, rowLock, keyShare, promoteJob, env, crashed>>

\* deleteMany locks the Queue row exclusively and then deletes, by cascade,
\* the tickets that are committed, waiting for those that are locked.
DeleteLock(p) ==
    /\ At(p, "delete")
    /\ queue.exists
    /\ queueLock = Nobody
    /\ keyShare = {}
    /\ queueLock' = p
    /\ Goto(p, "cascade")
    /\ UNCHANGED <<queue, tickets, draft, rowLock, keyShare, promoteJob, env, crashed>>

Exists(u) == tickets[u].status # "NONE"

DeleteCascade(p) ==
    /\ At(p, "cascade")
    /\ \A u \in Users : Exists(u) => rowLock[u] = Nobody
    /\ queue' = [queue EXCEPT !.exists = FALSE]
    /\ tickets' = [u \in Users |-> NoTicket]
    /\ draft' = [u \in Users |-> IF Exists(u) THEN NoTicket ELSE draft[u]]
    /\ Unlock(p)
    /\ sess' = [sess EXCEPT ![p] = Idle]
    /\ UNCHANGED <<promoteJob, env, crashed>>

-----------------------------------------------------------------------------
(* Failures. *)

\* The Node process ends: PostgreSQL rolls every transaction back and BullMQ
\* puts the active job back; another Node process takes over.
StopServer ==
    /\ draft' = tickets
    /\ rowLock' = [u \in Users |-> Nobody]
    /\ queueLock' = Nobody
    /\ keyShare' = {}
    /\ sess' = [p \in Proc |-> Idle]
    /\ promoteJob' = IF promoteJob.state = "active" THEN [promoteJob EXCEPT !.state = "queued"]
                     ELSE promoteJob
    /\ UNCHANGED <<queue, tickets>>

\* A promotion started without await rejects with nobody to catch it, which
\* ends the process.
Uncaught(p) == sess[p].pc \in PromotionPc /\ p \in Handlers /\ sess[p].event # "UPDATE"

\* PostgreSQL or Prisma aborts the transaction of p: the caller of a request
\* or of updateQueue gets an error, a job is retried.
Abort(p) ==
    \/ /\ Uncaught(p)
       /\ StopServer
       /\ crashed' = TRUE
    \/ /\ ~Uncaught(p)
       /\ Rollback(p)
       /\ sess' = [sess EXCEPT ![p] = Idle]
       /\ promoteJob' = IF p = PromoteWorker THEN RetryJob(promoteJob) ELSE promoteJob
       /\ UNCHANGED <<queue, crashed>>

\* p's statement waits for a lock that q holds.
WaitsFor(p, q) ==
    \/ sess[p].pc \in {"update", "insert", "serve"} /\ rowLock[sess[p].user] = q
    \/ At(p, "log") /\ queueLock = q
    \/ At(p, "cascade") /\ \E u \in Users : Exists(u) /\ rowLock[u] = q

\* PostgreSQL finds the cycle and aborts one of the two.
DeadlockVictim(p) ==
    /\ \E q \in Proc \ {p} : WaitsFor(p, q) /\ WaitsFor(q, p)
    /\ Abort(p)
    /\ UNCHANGED env

\* An interactive transaction that is open for 5 seconds is closed by Prisma.
Timeout(p) ==
    /\ faults < MaxFaults
    /\ sess[p].pc \in RequestPc \cup PromotionPc
    /\ Abort(p)
    /\ faults' = faults + 1
    /\ UNCHANGED <<now, requests>>

\* The server is stopped and started from outside.
Restart ==
    /\ faults < MaxFaults
    /\ StopServer
    /\ faults' = faults + 1
    /\ UNCHANGED <<now, requests, crashed>>

Tick == /\ now < MaxNow
        /\ now' = now + 1
        /\ UNCHANGED <<queue, tickets, draft, locks, sess, promoteJob, requests, faults, crashed>>

\* Every request the bounds allow is over and no job is left.
Terminating == /\ requests = MaxRequests
               /\ now = MaxNow
               /\ \A p \in Proc : At(p, "idle")
               /\ UNCHANGED vars

-----------------------------------------------------------------------------
Request(p, u) == \/ JoinQueue(p, u) \/ LeaveQueue(p, u) \/ RemoveQueueUser(p, u)
                 \/ MarkComplete(p, u) \/ MarkLate(p, u)
                 \/ LateRejoin(p, u) \/ LateArrived(p, u)

Transition(p) == \/ CheckCapacity(p) \/ CheckExisting(p) \/ ReadTicket(p)
                 \/ UpdateTicket(p) \/ InsertTicket(p) \/ LogEvent(p)
                 \/ CommitRequest(p) \/ RequestRejected(p)

Promotion(p) == \/ LockQueue(p) \/ QueueGone(p) \/ CountServing(p)
                \/ SelectCandidate(p) \/ NobodyWaits(p) \/ Serve(p) \/ FinishPromotion(p)

Deletion(p) == DeleteLock(p) \/ DeleteCascade(p)

\* What the runtime and the database do for p without anybody asking.
Step(p) == Transition(p) \/ Promotion(p) \/ Deletion(p) \/ DeadlockVictim(p)

Next == \/ \E p \in Handlers, u \in Users : Request(p, u)
        \/ \E p \in Handlers : UpdateQueue(p) \/ DeleteQueue(p)
        \/ \E p \in Proc : Step(p)
        \/ \E u \in Users : StartExpiryJob(u)
        \/ PickPromoteJob \/ JobDone
        \/ \E p \in Proc : Timeout(p)
        \/ Restart
        \/ Tick
        \/ Terminating

Spec == Init /\ [][Next]_vars

\* Statements are executed, jobs are taken and deadlocks are broken; nobody
\* has to send a request, and neither faults nor expiry jobs have to happen.
Fairness == /\ \A p \in Proc : WF_vars(Step(p))
            /\ WF_vars(PickPromoteJob)
            /\ WF_vars(JobDone)

FairSpec == Spec /\ Fairness
=============================================================================
