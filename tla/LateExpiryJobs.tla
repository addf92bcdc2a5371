--------------------------- MODULE LateExpiryJobs ---------------------------
(***************************************************************************)
(* The delayed jobs that turn an expired LATE ticket MISSED: the job       *)
(* late-expiry-<queueId>-<userId> that markLate adds inside its            *)
(* transaction, the worker that runs the jobs one at a time, the safety    *)
(* net that scans for expired tickets, and the start of both with the      *)
(* first use of Redis.                                                     *)
(*                                                                         *)
(* One queue.  Of a ticket only what the jobs see is kept: whether it is   *)
(* SERVING, LATE or MISSED, or anything else (OTHER), and expiresAt while  *)
(* it is LATE.  A tick of the clock is the unit of graceTime, a minute;    *)
(* transactions, which Prisma closes after 5 seconds, are shorter.         *)
(***************************************************************************)
EXTENDS Integers, FiniteSets

CONSTANTS Users,        \* the users with a ticket of the queue
          Nobody,       \* no user
          Grace,        \* graceTime of the queue, in ticks
          JobAttempts,  \* "attempts" of a job
          MaxNow,       \* bound of the clock
          MaxPeriods,   \* bound of the late periods of a ticket
          MaxFaults     \* bound of the aborted transactions, Redis errors and restarts

ASSUME UsersAssumption == IsFiniteSet(Users) /\ Nobody \notin Users
ASSUME GraceAssumption == Grace \in Nat \ {0} /\ JobAttempts \in Nat \ {0}
ASSUME BoundAssumption == MaxNow \in Nat /\ MaxPeriods \in Nat /\ MaxFaults \in Nat

VARIABLES status,     \* status[u]: the committed status of u's ticket
          expiresAt,  \* expiresAt[u]: its deadline while it is LATE, else 0
          marking,    \* the users whose row an open markLate has written
          periods,    \* periods[u]: late periods of u so far
          job,        \* job[u]: the job of u in Redis
          worker,     \* what the worker is doing
          todo,       \* the tickets that the safety net has still to add
          running,    \* the workers of this server process have started
          now,
          faults

tickets == <<status, expiresAt, marking, periods>>
vars    == <<tickets, job, worker, todo, running, now, faults>>

\* due is the time from which the job may run; a failed job is kept.
Job   == [state : {"absent", "waiting", "active", "failed"}, due : Nat, attempts : Nat]
NoJob == [state |-> "absent", due |-> 0, attempts |-> 0]

\* period: the late period of the ticket that the worker has read.
Worker     == [pc : {"idle", "read", "update", "commit", "done"},
               user : Users \cup {Nobody}, period : Nat]
IdleWorker == [pc |-> "idle", user |-> Nobody, period |-> 0]

Expired(u) == status[u] = "LATE" /\ expiresAt[u] <= now

\* Nobody has the row of u locked.
Unlocked(u) == u \notin marking /\ ~(worker.pc = "commit" /\ worker.user = u)

Init == /\ status = [u \in Users |-> "OTHER"]
        /\ expiresAt = [u \in Users |-> 0]
        /\ marking = {}
        /\ periods = [u \in Users |-> 0]
        /\ job = [u \in Users |-> NoJob]
        /\ worker = IdleWorker
        /\ todo = {}
        /\ running = FALSE
        /\ now = 1
        /\ faults = 0

-----------------------------------------------------------------------------
(* Other transactions that move a ticket. *)

\* The user joins or rejoins and is promoted.
GetServed(u) ==
    /\ status[u] \in {"OTHER", "MISSED"}
    /\ status' = [status EXCEPT ![u] = "SERVING"]
    /\ UNCHANGED <<expiresAt, marking, periods, job, worker, todo, running, now, faults>>

\* leaveQueue, removeQueueUser or markComplete.
GetDone(u) ==
    /\ status[u] \in {"SERVING", "LATE"}
    /\ Unlocked(u)
    /\ status' = [status EXCEPT ![u] = "OTHER"]
    /\ expiresAt' = [expiresAt EXCEPT ![u] = 0]
    /\ UNCHANGED <<marking, periods, job, worker, todo, running, now, faults>>

\* lateRejoin or lateArrived: back to WAITING, or MISSED when it is too late.
RejoinLate(u) ==
    /\ status[u] = "LATE"
    /\ Unlocked(u)
    /\ status' = [status EXCEPT ![u] = IF now > expiresAt[u] THEN "MISSED" ELSE "OTHER"]
    /\ expiresAt' = [expiresAt EXCEPT ![u] = 0]
    /\ UNCHANGED <<marking, periods, job, worker, todo, running, now, faults>>

-----------------------------------------------------------------------------
(* enqueueCheckLateExpiry and markLate. *)

\* queue.add with a jobId does nothing while a job of that id exists,
\* whatever its state.
Add(jobs, u, due) ==
    IF jobs[u] = NoJob
    THEN [jobs EXCEPT ![u] = [state |-> "waiting", due |-> due, attempts |-> 0]]
    ELSE jobs

\* An error of Redis is caught: no job is added, the caller goes on.
Enqueue(u, due) ==
    \/ /\ job' = Add(job, u, due)
       /\ UNCHANGED faults
    \/ /\ faults < MaxFaults
       /\ faults' = faults + 1
       /\ UNCHANGED job

\* Variant of MarkLate for mutation: the job is added without its delay.
MarkLateUndelayed(u) ==
    /\ status[u] = "SERVING"
    /\ Unlocked(u)
    /\ periods[u] < MaxPeriods
    /\ now + Grace <= MaxNow
    /\ marking' = marking \cup {u}
    /\ Enqueue(u, now)
    /\ running' = TRUE
    /\ UNCHANGED <<status, expiresAt, periods, worker, todo, now>>

\* The transition writes the row and adds the job, which is the first use of
\* Redis if there was none, before it commits.
MarkLate(u) ==
    /\ status[u] = "SERVING"
    /\ Unlocked(u)
    /\ periods[u] < MaxPeriods
    /\ now + Grace <= MaxNow
    /\ marking' = marking \cup {u}
    /\ Enqueue(u, now + Grace)
    /\ running' = TRUE
    /\ UNCHANGED <<status, expiresAt, periods, worker, todo, now>>

\* No tick has passed since MarkLate computed the deadline.
CommitMark(u) ==
    /\ u \in marking
    /\ marking' = marking \ {u}
    /\ status' = [status EXCEPT ![u] = "LATE"]
    /\ expiresAt' = [expiresAt EXCEPT ![u] = now + Grace]
    /\ periods' = [periods EXCEPT ![u] = @ + 1]
    /\ UNCHANGED <<job, worker, todo, running, now, faults>>

\* The transaction is aborted; the job stays.
AbortMark(u) ==
    /\ u \in marking
    /\ faults < MaxFaults
    /\ marking' = marking \ {u}
    /\ faults' = faults + 1
    /\ UNCHANGED <<status, expiresAt, periods, job, worker, todo, running, now>>

-----------------------------------------------------------------------------
(* The worker. *)

PickJob(u) ==
    /\ running
    /\ worker.pc = "idle"
    /\ job[u].state = "waiting"
    /\ job[u].due <= now
    /\ job' = [job EXCEPT ![u].state = "active"]
    /\ worker' = [IdleWorker EXCEPT !.pc = "read", !.user = u]
    /\ UNCHANGED <<tickets, todo, running, now, faults>>

\* Variant of ReadTicket for mutation: the deadline is not looked at again.
ReadLate ==
    /\ worker.pc = "read"
    /\ worker' = [worker EXCEPT !.pc = IF status[worker.user] = "LATE" THEN "update" ELSE "done",
                                !.period = periods[worker.user]]
    /\ UNCHANGED <<tickets, job, todo, running, now, faults>>

\* A ticket that is not LATE, or not expired, ends the job.
ReadTicket ==
    /\ worker.pc = "read"
    /\ worker' = [worker EXCEPT !.pc = IF Expired(worker.user) THEN "update" ELSE "done",
                                !.period = periods[worker.user]]
    /\ UNCHANGED <<tickets, job, todo, running, now, faults>>

\* transitionQueueUser: the ticket must still be LATE when it is written.
UpdateTicket ==
    /\ worker.pc = "update"
    /\ Unlocked(worker.user)
    /\ status[worker.user] = "LATE"
    /\ worker' = [worker EXCEPT !.pc = "commit"]
    /\ UNCHANGED <<tickets, job, todo, running, now, faults>>

CommitMissed ==
    /\ worker.pc = "commit"
    /\ status' = [status EXCEPT ![worker.user] = "MISSED"]
    /\ expiresAt' = [expiresAt EXCEPT ![worker.user] = 0]
    /\ worker' = [worker EXCEPT !.pc = "done"]
    /\ UNCHANGED <<marking, periods, job, todo, running, now, faults>>

\* A job that threw is run again, up to its attempts, and then kept as failed.
\* The back-off between attempts is left out.
FailJob ==
    LET u == worker.user
    IN  /\ job' = [job EXCEPT ![u] = [state    |-> IF @.attempts + 1 < JobAttempts
                                                   THEN "waiting" ELSE "failed",
                                      due      |-> @.due,
                                      attempts |-> @.attempts + 1]]
        /\ worker' = IdleWorker
        /\ UNCHANGED <<tickets, todo, running, now>>

\* "Illegal transition" or "State changed concurrently".
UpdateRejected ==
    /\ worker.pc = "update"
    /\ Unlocked(worker.user)
    /\ status[worker.user] # "LATE"
    /\ FailJob
    /\ UNCHANGED faults

\* The database fails the worker's transaction.
AbortMissed ==
    /\ worker.pc \in {"read", "update", "commit"}
    /\ faults < MaxFaults
    /\ FailJob
    /\ faults' = faults + 1

\* Variant of JobDone for mutation: removeOnComplete is not set.
JobKept ==
    /\ worker.pc = "done"
    /\ job' = [job EXCEPT ![worker.user].state = "completed"]
    /\ worker' = IdleWorker
    /\ UNCHANGED <<tickets, todo, running, now, faults>>

\* BullMQ removes a completed job; until then its id is taken.
JobDone ==
    /\ worker.pc = "done"
    /\ job' = [job EXCEPT ![worker.user] = NoJob]
    /\ worker' = IdleWorker
    /\ UNCHANGED <<tickets, todo, running, now, faults>>

-----------------------------------------------------------------------------
(* The safety net, the runtime and the clock. *)

\* setInterval: reads the expired tickets ...
NetScan ==
    /\ running
    /\ todo' = todo \cup {u \in Users : Expired(u)}
    /\ UNCHANGED <<tickets, job, worker, running, now, faults>>

\* ... and adds a job without delay for each.
NetAdd(u) ==
    /\ u \in todo
    /\ Enqueue(u, now)
    /\ todo' = todo \ {u}
    /\ UNCHANGED <<tickets, worker, running, now>>

\* Any request that reads the cache makes the first use of Redis.
FirstUse ==
    /\ ~running
    /\ running' = TRUE
    /\ UNCHANGED <<tickets, job, worker, todo, now, faults>>

\* The server stops and starts: open transactions are rolled back, the active
\* job goes back to the queue, the workers wait for the first use of Redis.
Restart ==
    /\ faults < MaxFaults
    /\ faults' = faults + 1
    /\ marking' = {}
    /\ worker' = IdleWorker
    /\ job' = [u \in Users |-> IF job[u].state = "active"
                               THEN [job[u] EXCEPT !.state = "waiting"] ELSE job[u]]
    /\ todo' = {}
    /\ running' = FALSE
    /\ UNCHANGED <<status, expiresAt, periods, now>>

Tick ==
    /\ now < MaxNow
    /\ marking = {}
    /\ worker.pc \notin {"update", "commit"}
    /\ now' = now + 1
    /\ UNCHANGED <<tickets, job, worker, todo, running, faults>>

-----------------------------------------------------------------------------
Next == \/ \E u \in Users : \/ GetServed(u) \/ GetDone(u) \/ RejoinLate(u)
                            \/ MarkLate(u) \/ CommitMark(u) \/ AbortMark(u)
                            \/ PickJob(u) \/ NetAdd(u)
        \/ ReadTicket \/ UpdateTicket \/ CommitMissed \/ JobDone
        \/ UpdateRejected \/ AbortMissed
        \/ NetScan \/ FirstUse \/ Restart \/ Tick

Spec == Init /\ [][Next]_vars

WorkerStep == ReadTicket \/ UpdateTicket \/ UpdateRejected \/ CommitMissed \/ JobDone

\* Time passes, open transactions end, a started worker takes the jobs that
\* are due and the safety net keeps scanning.  No request has to come: the
\* first use of Redis after a restart is not fair.
Fairness == /\ WF_vars(Tick)
            /\ \A u \in Users : WF_vars(CommitMark(u)) /\ WF_vars(NetAdd(u))
            /\ WF_vars(\E u \in Users : PickJob(u))
            /\ WF_vars(WorkerStep)
            /\ WF_vars(NetScan)

FairSpec == Spec /\ Fairness

-----------------------------------------------------------------------------
(* Properties. *)

\* Every variable has its type.
TypeOK ==
    /\ status \in [Users -> {"OTHER", "SERVING", "LATE", "MISSED"}]
    /\ expiresAt \in [Users -> Nat]
    /\ marking \in SUBSET Users
    /\ periods \in [Users -> Nat]
    /\ job \in [Users -> Job]
    /\ worker \in Worker
    /\ todo \in SUBSET Users
    /\ running \in BOOLEAN
    /\ now \in Nat
    /\ faults \in Nat

\* The first late period of a ticket is watched by its job to the end: without
\* faults, a LATE ticket has no job only if it has been late before, when the
\* job of the earlier period made queue.add ignore the new one.
FirstPeriodHasJob ==
    \A u \in Users :
        status[u] = "LATE" /\ periods[u] = 1 /\ faults = 0 => job[u].state # "absent"

\* A job left over from an earlier period does not end the next one early: the
\* worker turns the period it has read MISSED only when that has expired.
StaleJobHarmless ==
    [][\A u \in Users :
          /\ worker.pc = "commit" /\ worker.user = u
          /\ status'[u] # status[u]
          /\ worker.period = periods[u]
          => expiresAt[u] <= now]_vars

\* docs/INVARIANTS.md, "Status must eventually transition to MISSED": an
\* expired ticket does not stay LATE, whatever jobs were skipped as duplicates,
\* came early or were lost, as long as the workers run and its job has not
\* failed for good.
ExpiryEnforced ==
    \A u \in Users :
        Expired(u) ~> (status[u] # "LATE" \/ job[u].state = "failed" \/ ~running)

-----------------------------------------------------------------------------
(* What the documents say and the code does not keep. *)

\* The same of a job that has failed: its id keeps the safety net out.
ExpiryEnforcedAfterFailure ==
    \A u \in Users : Expired(u) ~> (status[u] # "LATE" \/ ~running)
=============================================================================
