------------------------- MODULE QueueProgressProofs -------------------------
(***************************************************************************)
(* Two invariants of QueueTransactions that speak of what processes are    *)
(* about to do: a free slot always has somebody who is going to fill it,   *)
(* and joins that overtake each other overrun maxSize by a bounded number. *)
(***************************************************************************)
EXTENDS QueueTicketProofs

-----------------------------------------------------------------------------
(* What the processes are. *)

ActiveStatus == {"WAITING", "LATE", "SERVING"}

\* The promotion worker only promotes, and while it does its job is active;
\* the late-expiry worker only takes LATE tickets to MISSED.
WorkerInv ==
    /\ sess[PromoteWorker].pc \in PromotionPc \cup {"idle", "ack"}
    /\ ~At(PromoteWorker, "idle") => promoteJob.state = "active"
    /\ sess[ExpiryWorker].pc \in {"idle", "read", "update", "log", "commit"}
    /\ ~At(ExpiryWorker, "idle") => sess[ExpiryWorker].event = "MISSED"
    /\ At(ExpiryWorker, "update") => /\ sess[ExpiryWorker].seen = "LATE"
                                     /\ sess[ExpiryWorker].upd.status = "MISSED"
    /\ \A u \in Users : rowLock[u] = ExpiryWorker
           => tickets[u].status = "LATE" /\ draft[u].status = "MISSED"

\* Only promotions and deletions hold the Queue row exclusively, and without
\* a request for it nothing is deleted.
QueueLockInv ==
    /\ queueLock # Nobody => Promoting(queueLock) \/ At(queueLock, "cascade")
    /\ "delete" \notin Operations => /\ queue.exists
                                     /\ \A p \in Proc : sess[p].pc \notin DeletePc

\* A promotion that is about to commit leaves no slot free for a waiting ticket.
FinishInv ==
    \A p \in Proc : At(p, "finish") =>
        ~(Cardinality(Serving(View(p))) < queue.serviceSlots) \/ Candidates(View(p)) = {}

ProgressInv == WorkerInv /\ QueueLockInv /\ FinishInv

\* A ticket that is not active is only made active by a join or a rejoin.
JoinInv ==
    /\ \A p \in Proc : sess[p].event \in {"JOIN", "REJOIN"} => p \in Handlers
    /\ \A p \in Proc : sess[p].pc \in {"capacity", "existing", "insert"} => sess[p].event = "JOIN"
    /\ \A p \in Proc : At(p, "update") => sess[p].event = "REJOIN" \/ sess[p].seen \in ActiveStatus
    /\ \A p \in Proc, u \in Users : rowLock[u] = p /\ sess[p].pc \in {"log", "commit"}
           => sess[p].event \in {"JOIN", "REJOIN"} \/ tickets[u].status \in ActiveStatus

-----------------------------------------------------------------------------
(* More frames. *)

\* A row that stays locked stays as it is committed.
LEMMA LockedRowsStay ==
    ASSUME TypeInv, [Next]_vars, NEW p \in Proc, NEW u \in Users,
           rowLock[u] = p, rowLock'[u] = p
    PROVE  tickets'[u].status = tickets[u].status
<1>n. Nobody \notin Proc
  BY ProcessAssumption
<1>1. CASE UNCHANGED <<queue, tickets>>
  BY <1>1
<1>2. ASSUME NEW q \in Proc, CommitRequest(q) \/ FinishPromotion(q)
      PROVE  tickets'[u].status = tickets[u].status
  BY <1>2, <1>n DEF CommitRequest, FinishPromotion, CommitTx, Unlock, View
<1>3. ASSUME NEW q \in Proc, DeleteCascade(q)
      PROVE  tickets'[u].status = tickets[u].status
  BY <1>3, <1>n DEF DeleteCascade, Exists, NoTicket
<1>4. ASSUME NEW q \in Handlers, UpdateQueue(q) PROVE tickets'[u].status = tickets[u].status
  BY <1>4 DEF UpdateQueue
<1> QED
  BY <1>1, <1>2, <1>3, <1>4, CommittedChanges

\* The promotion job changes by AddJob, by its worker, or when the worker ends.
LEMMA JobChanges ==
    ASSUME TypeInv, [Next]_vars
    PROVE  \/ promoteJob' \in {promoteJob, AddJob(promoteJob)}
           \/ PickPromoteJob
           \/ /\ sess'[PromoteWorker] = Idle
              /\ \/ DeadlockVictim(PromoteWorker) \/ Timeout(PromoteWorker) \/ Restart
                 \/ \E q \in Proc : Uncaught(q) /\ Abort(q)
                 \/ JobDone
<1> DEFINE Ended == /\ sess'[PromoteWorker] = Idle
                    /\ \/ DeadlockVictim(PromoteWorker) \/ Timeout(PromoteWorker) \/ Restart
                       \/ \E q \in Proc : Uncaught(q) /\ Abort(q)
                       \/ JobDone
<1>s. sess \in [Proc -> Session] /\ PromoteWorker \in Proc
  BY DEF TypeInv, TypeOK, Proc
<1>1. ASSUME NEW q \in Proc, DeadlockVictim(q) \/ Timeout(q)
      PROVE  promoteJob' = promoteJob \/ Ended
  <2>1. Abort(q)
    BY <1>1 DEF DeadlockVictim, Timeout
  <2>2. CASE Uncaught(q)
    BY <1>s, <2>1, <2>2 DEF Abort, StopServer
  <2>3. CASE ~Uncaught(q)
    BY <1>s, <1>1, <2>1, <2>3 DEF Abort
  <2> QED
    BY <2>2, <2>3
<1>2. ASSUME NEW q \in Proc, Step(q)
      PROVE  promoteJob' \in {promoteJob, AddJob(promoteJob)} \/ Ended
  <2>1. Transition(q) => promoteJob' \in {promoteJob, AddJob(promoteJob)}
    BY DEF Transition, CheckCapacity, CheckExisting, ReadTicket, UpdateTicket, InsertTicket,
       LogEvent, CommitRequest, RequestRejected
  <2>2. Promotion(q) => promoteJob' = promoteJob
    BY DEF Promotion, LockQueue, QueueGone, CountServing, SelectCandidate, NobodyWaits, Serve,
       FinishPromotion
  <2>3. Deletion(q) => promoteJob' = promoteJob
    BY DEF Deletion, DeleteLock, DeleteCascade
  <2> QED
    BY <1>1, <1>2, <2>1, <2>2, <2>3 DEF Step
<1>3. ASSUME NEW q \in Handlers,
             UpdateQueue(q) \/ DeleteQueue(q) \/ \E u \in Users : Request(q, u)
      PROVE  promoteJob' = promoteJob
  BY <1>3 DEF UpdateQueue, DeleteQueue, Request, JoinQueue, LeaveQueue, RemoveQueueUser,
     MarkComplete, MarkLate, LateRejoin, LateArrived, Receive
<1>4. (\E u \in Users : StartExpiryJob(u)) \/ Tick \/ Terminating \/ UNCHANGED vars
          => promoteJob' = promoteJob
  BY DEF StartExpiryJob, Tick, Terminating, vars
<1>5. JobDone \/ Restart => Ended
  BY <1>s DEF JobDone, Restart, StopServer
<1> HIDE DEF Ended
<1>6. promoteJob' \in {promoteJob, AddJob(promoteJob)} \/ PickPromoteJob \/ Ended
  BY <1>1, <1>2, <1>3, <1>4, <1>5 DEF Next
<1> QED
  BY <1>6 DEF Ended

\* The Queue row is locked by LockQueue and DeleteLock and released at the end.
LEMMA QueueLockChanges ==
    ASSUME TypeInv, [Next]_vars
    PROVE  \/ queueLock' = Nobody
           \/ queueLock' = queueLock
           \/ \E p \in Proc : queueLock' = p /\ (LockQueue(p) \/ DeleteLock(p))
<1> DEFINE Released == queueLock' = Nobody \/ queueLock' = queueLock
<1>1. ASSUME NEW q \in Proc, CommitTx(q) \/ Rollback(q) PROVE Released
  BY <1>1 DEF CommitTx, Rollback, Unlock
<1>2. StopServer => Released
  BY DEF StopServer
<1>3. ASSUME NEW q \in Proc, Abort(q) PROVE Released
  BY <1>1, <1>2, <1>3 DEF Abort
<1>4. ASSUME NEW q \in Proc, Step(q)
      PROVE  Released \/ (queueLock' = q /\ (LockQueue(q) \/ DeleteLock(q)))
  <2>1. Transition(q) => Released
    BY <1>1 DEF Transition, CheckCapacity, CheckExisting, ReadTicket, UpdateTicket, InsertTicket,
       LogEvent, CommitRequest, RequestRejected, locks
  <2>2. Promotion(q) => Released \/ (queueLock' = q /\ LockQueue(q))
    BY <1>1 DEF Promotion, LockQueue, QueueGone, CountServing, SelectCandidate, NobodyWaits,
       Serve, FinishPromotion, locks
  <2>3. Deletion(q) => Released \/ (queueLock' = q /\ DeleteLock(q))
    BY DEF Deletion, DeleteLock, DeleteCascade, Unlock
  <2> QED
    BY <1>3, <1>4, <2>1, <2>2, <2>3 DEF Step, DeadlockVictim
<1>5. ASSUME NEW q \in Handlers,
             UpdateQueue(q) \/ DeleteQueue(q) \/ \E u \in Users : Request(q, u)
      PROVE  Released
  BY <1>5 DEF UpdateQueue, DeleteQueue, Request, JoinQueue, LeaveQueue, RemoveQueueUser,
     MarkComplete, MarkLate, LateRejoin, LateArrived, Receive, locks
<1>6. (\E u \in Users : StartExpiryJob(u)) \/ PickPromoteJob \/ JobDone \/ Tick \/ Terminating
          \/ UNCHANGED vars => Released
  BY DEF StartExpiryJob, PickPromoteJob, JobDone, Tick, Terminating, vars, locks
<1>7. (\E q \in Proc : Timeout(q)) \/ Restart => Released
  BY <1>2, <1>3 DEF Timeout, Restart
<1> HIDE DEF Released
<1>8. Released \/ \E p \in Proc : queueLock' = p /\ (LockQueue(p) \/ DeleteLock(p))
  BY <1>4, <1>5, <1>6, <1>7 DEF Next
<1> QED
  BY <1>8 DEF Released

\* Where the statements of a transition and of a promotion are taken.
LEMMA Enabled ==
    ASSUME NEW p \in Proc
    PROVE  /\ Transition(p) => sess[p].pc \in RequestPc \cup {"delete"}
           /\ Promotion(p) => sess[p].pc \in PromotionPc
           /\ Deletion(p) => sess[p].pc \in DeletePc
<1>1. Transition(p) => sess[p].pc \in RequestPc \cup {"delete"}
  BY DEF Transition, CheckCapacity, CheckExisting, ReadTicket, UpdateTicket, InsertTicket,
     LogEvent, CommitRequest, RequestRejected, Throws, At, RequestPc
<1>2. Promotion(p) => sess[p].pc \in PromotionPc
  BY DEF Promotion, LockQueue, QueueGone, CountServing, SelectCandidate, NobodyWaits,
     Serve, FinishPromotion, At, PromotionPc
<1>3. Deletion(p) => sess[p].pc \in DeletePc
  BY DEF Deletion, DeleteLock, DeleteCascade, At, DeletePc
<1> QED
  BY <1>1, <1>2, <1>3

-----------------------------------------------------------------------------
(* ProgressInv is inductive. *)

LEMMA WorkerStep ==
    ASSUME TypeInv, TransactionInv, WorkerInv, [Next]_vars
    PROVE  WorkerInv'
<1> DEFINE P == PromoteWorker
           E == ExpiryWorker
<1>w. /\ P \in Proc /\ E \in Proc /\ P # E /\ P \notin Handlers /\ E \notin Handlers
      /\ Idle.pc = "idle"
  BY ProcessAssumption DEF Proc, Idle
<1>p. ~Transition(P) /\ ~Deletion(P) /\ ~Promotion(E) /\ ~Deletion(E)
  BY <1>w, Enabled DEF WorkerInv, PromotionPc, RequestPc, DeletePc
<1>1. sess'[P].pc \in PromotionPc \cup {"idle", "ack"}
  <2>1. Promotion(P) => sess'[P].pc \in PromotionPc \cup {"ack"}
    BY <1>w, Continues DEF Promotion, PromotionPc
  <2>2. PickPromoteJob => sess'[P].pc \in PromotionPc
    BY <1>w, Starts DEF PromotionPc
  <2> QED
    BY <1>w, <1>p, <2>1, <2>2, OwnSteps DEF WorkerInv
<1>2. sess'[P].pc = "idle" \/ promoteJob'.state = "active"
  <2>1. CASE PickPromoteJob
    BY <2>1 DEF PickPromoteJob, TypeInv, TypeOK, Job
  <2>2. CASE sess'[P] = Idle
    BY <1>w, <2>2
  <2>3. CASE ~PickPromoteJob /\ sess'[P] # Idle
    <3>1. sess[P].pc # "idle" \/ sess'[P] = sess[P]
      BY <1>w, <1>p, <2>3, Enabled, OwnSteps DEF PromotionPc
    <3>2. sess[P].pc = "idle" \/ promoteJob.state = "active"
      BY DEF WorkerInv, At
    <3>3. promoteJob.state = "active" => promoteJob'.state = "active"
      BY <2>3, JobChanges DEF AddJob, NoJob
    <3> QED
      BY <3>1, <3>2, <3>3
  <2> QED
    BY <2>1, <2>2, <2>3
<1>3. sess'[E].pc \in {"idle", "read", "update", "log", "commit"}
  <2>1. Transition(E) => sess'[E].pc \in {"idle", "read", "update", "log", "commit"}
    <3>1. sess[E].pc \in {"idle", "read", "update", "log", "commit"}
      BY DEF WorkerInv
    <3>2. ~CheckCapacity(E) /\ ~CheckExisting(E) /\ ~InsertTicket(E)
      BY <3>1 DEF CheckCapacity, CheckExisting, InsertTicket, At
    <3> QED
      BY <1>w, <3>2, Continues DEF Transition
  <2> QED
    BY <1>w, <1>p, <2>1, Starts, OwnSteps DEF WorkerInv
<1>4. sess'[E].pc = "idle" \/ sess'[E].event = "MISSED"
  <2>1. Transition(E) => sess'[E] = Idle \/ sess'[E].event = sess[E].event
    <3>1. ~CheckExisting(E)
      BY DEF WorkerInv, CheckExisting, At
    <3> QED
      BY <1>w, <3>1, Continues DEF Transition, Same
  <2>2. Transition(E) => sess[E].pc # "idle"
    BY <1>w, Enabled DEF RequestPc
  <2> QED
    BY <1>w, <1>p, <2>1, <2>2, Starts, OwnSteps DEF WorkerInv, At
<1>5. ASSUME sess'[E].pc = "update"
      PROVE  sess'[E].seen = "LATE" /\ sess'[E].upd.status = "MISSED"
  <2>1. CASE sess'[E] = sess[E]
    BY <1>5, <2>1 DEF WorkerInv, At
  <2>2. CASE ReadTicket(E)
    <3> DEFINE row == tickets[sess[E].user]
    <3>1. sess[E].event = "MISSED"
      BY <2>2 DEF ReadTicket, WorkerInv, At
    <3>2. PICK t \in Decisions(row, "MISSED") :
             sess' = [sess EXCEPT ![E].pc = "update",
                                  ![E].seen = row.status,
                                  ![E].upd = ComputeUpdates(row, t[2], t[3], now, queue.graceTime)]
      BY <2>2, <3>1 DEF ReadTicket
    <3>3. row.status = "LATE" /\ t[2] = "MISSED" /\ t[3] = "MISSED"
      BY DEF Decisions, Transitions
    <3>4. ComputeUpdates(row, t[2], t[3], now, queue.graceTime).status = "MISSED"
      BY <3>3 DEF ComputeUpdates
    <3>5. /\ sess'[E].seen = row.status
          /\ sess'[E].upd = ComputeUpdates(row, t[2], t[3], now, queue.graceTime)
      BY <1>w, <3>2 DEF TypeInv, TypeOK, Session
    <3> QED
      BY <3>3, <3>4, <3>5
  <2> QED
    BY <1>w, <1>5, <2>1, <2>2, UpdateReached DEF At
<1>6. ASSUME NEW u \in Users, rowLock'[u] = E
      PROVE  tickets'[u].status = "LATE" /\ draft'[u].status = "MISSED"
  <2>1. CASE rowLock[u] = E /\ draft'[u] = draft[u]
    BY <1>w, <1>6, <2>1, LockedRowsStay DEF WorkerInv
  <2>2. CASE Writes(E, u)
    <3>1. UpdateTicket(E) /\ sess[E].user = u
      BY <2>2 DEF Writes, InsertTicket, Serve, WorkerInv, At
    <3>2. /\ draft'[u] = ApplyUpdates(tickets[u], sess[E].upd)
          /\ tickets'[u].status = "LATE"
      BY <3>1 DEF UpdateTicket, Write, WorkerInv, TypeInv, TypeOK
    <3>3. tickets[u] \in Ticket /\ sess[E].upd \in Updates
      BY <1>w DEF TypeInv, TypeOK, Session
    <3>4. sess[E].upd.status = "MISSED"
      BY <3>1 DEF UpdateTicket, WorkerInv
    <3> QED
      BY <3>2, <3>3, <3>4, ApplyUpdatesType
  <2> QED
    BY <1>w, <1>6, <2>1, <2>2, RowSources
<1> QED
  BY <1>1, <1>2, <1>3, <1>4, <1>5, <1>6 DEF WorkerInv, At

\* The end of q's transaction releases the Queue row.
LEMMA LockReleased ==
    ASSUME TypeInv, [Next]_vars, NEW q \in Proc, queueLock = q, queueLock' = q
    PROVE  /\ ~FinishPromotion(q) /\ ~DeleteCascade(q)
           /\ sess'[q] # Idle \/ (q = PromoteWorker /\ JobDone) \/ sess'[q] = sess[q]
              \/ Transition(q) \/ QueueGone(q)
<1>n. q # Nobody
  BY ProcessAssumption
<1>1. ~FinishPromotion(q) /\ ~DeleteCascade(q)
  BY <1>n DEF FinishPromotion, CommitTx, DeleteCascade, Unlock
<1>2. ~Restart
  BY <1>n DEF Restart, StopServer
<1>3. ASSUME NEW r \in Proc, Uncaught(r) PROVE ~Abort(r)
  BY <1>n, <1>3 DEF Abort, StopServer
<1>4. ~Abort(q)
  BY <1>n, <1>3 DEF Abort, Rollback, Unlock
<1>5. ~DeadlockVictim(q) /\ ~Timeout(q)
  BY <1>4 DEF DeadlockVictim, Timeout
<1>6. (Promotion(q) => QueueGone(q) \/ sess'[q] # Idle) /\ (Deletion(q) => sess'[q] # Idle)
  <2>1. Idle.pc = "idle"
    BY DEF Idle
  <2> QED
    BY <1>1, <2>1, Continues DEF Promotion, Deletion
<1>7. /\ q \in Handlers => \/ ~(UpdateQueue(q) \/ DeleteQueue(q) \/ \E u \in Users : Request(q, u))
                           \/ sess'[q] # Idle
      /\ q = ExpiryWorker => ~(\E u \in Users : StartExpiryJob(u)) \/ sess'[q] # Idle
      /\ q = PromoteWorker => ~PickPromoteJob \/ sess'[q] # Idle
  BY Starts DEF Idle
<1> QED
  BY <1>1, <1>2, <1>3, <1>5, <1>6, <1>7, OwnSteps

LEMMA QueueLockStep ==
    ASSUME TypeInv, TransactionInv, QueueLockInv, [Next]_vars
    PROVE  QueueLockInv'
<1>1. ASSUME NEW q \in Proc, queueLock' = q
      PROVE  sess'[q].pc \in {"count", "select", "serve", "finish", "cascade"}
  <2>1. CASE LockQueue(q) \/ DeleteLock(q)
    BY <2>1, Continues
  <2>2. CASE queueLock = q
    <3>1. sess[q].pc \in {"count", "select", "serve", "finish", "cascade"}
      BY <2>2, ProcessAssumption DEF QueueLockInv, Promoting, At
    <3>2. ~Transition(q) /\ ~QueueGone(q) /\ ~(q = PromoteWorker /\ JobDone)
      BY <3>1, Enabled DEF RequestPc, QueueGone, JobDone, At
    <3>3. /\ q \in Handlers => ~(UpdateQueue(q) \/ DeleteQueue(q) \/ \E u \in Users : Request(q, u))
          /\ q = ExpiryWorker => ~(\E u \in Users : StartExpiryJob(u))
          /\ q = PromoteWorker => ~PickPromoteJob
      BY <3>1, Starts DEF At
    <3>4. /\ Promotion(q) => sess'[q].pc \in {"count", "select", "serve", "finish"}
          /\ Deletion(q) => sess'[q].pc = "cascade"
      BY <1>1, <2>2, <3>2, Continues, LockReleased DEF Promotion, Deletion
    <3> QED
      BY <1>1, <2>2, <3>1, <3>2, <3>3, <3>4, LockReleased, OwnSteps
  <2> QED
    BY <1>1, <2>1, <2>2, QueueLockChanges, ProcessAssumption
<1>2. ASSUME "delete" \notin Operations
      PROVE  queue'.exists /\ \A p \in Proc : sess'[p].pc \notin DeletePc
  <2>0. /\ queue.exists /\ \A p \in Proc : sess[p].pc \notin DeletePc
        /\ Idle.pc = "idle"
    BY <1>2 DEF QueueLockInv, Idle
  <2>1. ASSUME NEW p \in Proc PROVE sess'[p].pc \notin DeletePc
    <3>1. ~Deletion(p) /\ ~DeleteQueue(p)
      BY <1>2, <2>0, Enabled DEF DeleteQueue, Receive
    <3>2. Transition(p) \/ Promotion(p) => sess'[p].pc \notin DeletePc
      BY <2>0, Continues DEF Transition, Promotion, DeletePc
    <3> QED
      BY <2>0, <3>1, <3>2, Starts, OwnSteps DEF DeletePc
  <2>2. queue'.exists
    <3>1. \A p \in Proc : ~DeleteCascade(p)
      BY <2>0, Enabled DEF Deletion
    <3>2. \A p \in Handlers : UpdateQueue(p) => queue'.exists = queue.exists
      BY DEF UpdateQueue, TypeInv, TypeOK, QueueType
    <3> QED
      BY <2>0, <3>1, <3>2, CommittedChanges, RequestMoves, PromotionServes
  <2> QED
    BY <2>1, <2>2
<1>3. queueLock' \in Proc \cup {Nobody}
  BY TypeStep DEF TypeInv, TypeOK
<1> QED
  BY <1>1, <1>2, <1>3 DEF QueueLockInv, Promoting, At

LEMMA FinishStep ==
    ASSUME TypeInv, TransactionInv, FinishInv, [Next]_vars
    PROVE  FinishInv'
<1> SUFFICES ASSUME NEW p \in Proc, At(p, "finish")'
             PROVE  \/ ~(Cardinality(Serving(View(p)'))  < queue'.serviceSlots)
                    \/ Candidates(View(p)') = {}
  BY DEF FinishInv, Serving
<1>0. Promoting(p)' /\ sess'[p].pc = "finish" /\ Idle.pc = "idle"
  BY DEF Promoting, At, Idle
<1>1. CASE sess'[p] = sess[p]
  <2>1. Promoting(p) /\ ~Serve(p) /\ At(p, "finish")
    BY <1>0, <1>1, Continues DEF Promoting, At
  <2>2. View(p)' = View(p) /\ UNCHANGED queue
    BY <1>0, <2>1, PromotionAlone DEF View
  <2> QED
    BY <2>1, <2>2 DEF FinishInv
<1>2. CASE CountServing(p)
  <2>1. View(p)' = View(p) /\ UNCHANGED queue
    BY <1>2 DEF CountServing, View, locks
  <2>2. ~(Cardinality(Serving(View(p))) < queue.serviceSlots)
    BY <1>0, <1>2, Continues
  <2> QED
    BY <2>1, <2>2
<1>3. CASE NobodyWaits(p)
  BY <1>3 DEF NobodyWaits, View, locks
<1>4. /\ ~Transition(p) /\ ~Deletion(p)
      /\ Promotion(p) => CountServing(p) \/ NobodyWaits(p)
  BY <1>0, Continues DEF Transition, Promotion, Deletion
<1> QED
  BY <1>0, <1>1, <1>2, <1>3, <1>4, Starts, OwnSteps

\* The workers, the lock of the Queue row and the last check of a promotion
\* are as ProgressInv says.
THEOREM ProgressInvariant == Spec => []ProgressInv
<1>1. Init => ProgressInv
  <2> SUFFICES ASSUME Init PROVE ProgressInv
    OBVIOUS
  <2>0. /\ PromoteWorker \in Proc /\ ExpiryWorker \in Proc /\ ExpiryWorker # Nobody
        /\ \A p \in Proc : sess[p].pc = "idle"
    BY ProcessAssumption DEF Init, Idle, Proc
  <2>1. WorkerInv
    BY <2>0 DEF Init, WorkerInv, At
  <2>2. QueueLockInv
    BY <2>0 DEF Init, QueueLockInv, DeletePc
  <2>3. FinishInv
    BY <2>0 DEF FinishInv, At
  <2> QED
    BY <2>1, <2>2, <2>3 DEF ProgressInv
<1>2. TypeInv /\ TransactionInv /\ ProgressInv /\ [Next]_vars => ProgressInv'
  BY WorkerStep, QueueLockStep, FinishStep DEF ProgressInv
<1> QED
  BY <1>1, <1>2, TypeInvariant, TransactionInvariant, PTL DEF Spec

-----------------------------------------------------------------------------
(* A free slot is never left to itself. *)

\* Faults are counted, and a crash is not undone.
LEMMA FaultsGrow ==
    ASSUME TypeInv, [Next]_vars, faults' = 0, ~crashed'
    PROVE  /\ faults = 0 /\ ~crashed
           /\ ~Restart /\ \A p \in Proc : ~Timeout(p)
           /\ \A p \in Proc : Uncaught(p) => ~Abort(p)
<1>t. faults \in Nat /\ faults' = 0
  BY DEF TypeInv, TypeOK
<1>1. ~Restart /\ \A p \in Proc : ~Timeout(p)
  <2>1. faults' # faults + 1
    BY <1>t
  <2> QED
    BY <2>1 DEF Restart, Timeout
<1>2. \A p \in Proc : Uncaught(p) => ~Abort(p)
  BY DEF Abort
<1>3. ASSUME NEW p \in Proc, Step(p)
      PROVE  (faults' = faults \/ faults' = faults + 1) /\ (crashed => crashed')
  <2>1. DeadlockVictim(p) => UNCHANGED faults /\ (crashed => crashed')
    BY DEF DeadlockVictim, Abort, env
  <2>2. LogEvent(p) => (faults' = faults \/ faults' = faults + 1) /\ UNCHANGED crashed
    BY DEF LogEvent
  <2>3. Transition(p) => LogEvent(p) \/ UNCHANGED <<faults, crashed>>
    BY DEF Transition, CheckCapacity, CheckExisting, ReadTicket, UpdateTicket, InsertTicket,
       CommitRequest, RequestRejected, env
  <2>4. Promotion(p) => UNCHANGED <<faults, crashed>>
    BY DEF Promotion, LockQueue, QueueGone, CountServing, SelectCandidate, NobodyWaits, Serve,
       FinishPromotion, env
  <2>5. Deletion(p) => UNCHANGED <<faults, crashed>>
    BY DEF Deletion, DeleteLock, DeleteCascade, env
  <2> QED
    BY <1>3, <2>1, <2>2, <2>3, <2>4, <2>5 DEF Step
<1>4. ASSUME NEW q \in Handlers,
             UpdateQueue(q) \/ DeleteQueue(q) \/ \E u \in Users : Request(q, u)
      PROVE  UNCHANGED <<faults, crashed>>
  BY <1>4 DEF UpdateQueue, DeleteQueue, Request, JoinQueue, LeaveQueue, RemoveQueueUser,
     MarkComplete, MarkLate, LateRejoin, LateArrived, Receive
<1>5. (\E u \in Users : StartExpiryJob(u)) \/ PickPromoteJob \/ JobDone \/ Tick \/ Terminating
          \/ UNCHANGED vars => UNCHANGED <<faults, crashed>>
  BY DEF StartExpiryJob, PickPromoteJob, JobDone, Tick, Terminating, vars, env
<1>6. (faults' = faults \/ faults' = faults + 1) /\ (crashed => crashed')
  BY <1>1, <1>3, <1>4, <1>5 DEF Next
<1>7. faults = 0
  BY <1>t, <1>6
<1> QED
  BY <1>1, <1>2, <1>6, <1>7

\* Whoever was going to promote still is, or leaves it to the process that a
\* deadlock made it give way to.
LEMMA PromiseKept ==
    ASSUME TypeInv, TransactionInv, ProgressInv, [Next]_vars, "delete" \notin Operations,
           faults' = 0, ~crashed', NEW p \in Proc, WillPromote(p), FreeSlot,
           UNCHANGED <<queue, tickets>>
    PROVE  \E q \in Proc : WillPromote(q)'
<1>0. /\ \/ sess[p].pc \in {"lock", "count", "select", "serve"}
         \/ sess[p].pc = "finish" /\ \E u \in Users : rowLock[u] = p
         \/ p \in Handlers /\ sess[p].pc \in {"log", "commit"}
      /\ Idle.pc = "idle"
  BY DEF WillPromote, At, Idle
<1>g. /\ sess'[p].pc \in {"lock", "count", "select", "serve"} => WillPromote(p)'
      /\ sess'[p].pc = "finish" /\ (\E u \in Users : rowLock'[u] = p) => WillPromote(p)'
      /\ p \in Handlers /\ sess'[p].pc \in {"log", "commit"} => WillPromote(p)'
  BY DEF WillPromote, At
<1>v. queue.exists /\ (\A u \in Users : rowLock[u] # p) =>
          /\ Cardinality(Serving(View(p))) < queue.serviceSlots
          /\ Candidates(View(p)) # {}
  <2>1. (\A u \in Users : rowLock[u] # p) => View(p) = tickets
    BY DEF View, TypeInv, TypeOK
  <2> QED
    BY <2>1 DEF FreeSlot
<1>1. CASE sess'[p] = sess[p]
  <2>1. CASE sess[p].pc = "finish"
    <3>1. PICK u \in Users : rowLock[u] = p
      BY <1>0, <2>1
    <3>2. ~CommitRequest(p) /\ ~FinishPromotion(p) /\ sess'[p] # Idle
      BY <1>0, <1>1, <2>1, Continues DEF CommitRequest, At
    <3>3. rowLock'[u] = p
      BY <3>1, <3>2, RowsKept
    <3> QED
      BY <1>1, <1>g, <2>1, <3>3
  <2> QED
    BY <1>0, <1>1, <1>g, <2>1
<1>2. CASE DeadlockVictim(p)
  <2>1. PICK q \in Proc \ {p} : WaitsFor(p, q) /\ WaitsFor(q, p)
    BY <1>2 DEF DeadlockVictim
  <2>2. sess'[q] = sess[q]
    BY <1>2, <2>1, FaultsGrow DEF DeadlockVictim, Abort, TypeInv, TypeOK
  <2>3. sess[q].pc \in {"update", "insert", "serve", "log", "cascade"}
    BY <2>1 DEF WaitsFor, At
  <2>4. CASE sess[p].pc = "serve"
    <3> DEFINE u == sess[p].user
    <3>1. /\ u \in Users /\ rowLock[u] = q /\ tickets[u].status = "WAITING"
          /\ Promoting(p)
      BY <2>1, <2>4 DEF WaitsFor, TransactionInv, SessionInv, At, Promoting, TypeInv, UserKnown
    <3>2. ~Promoting(q)
      BY <2>1, <3>1, Exclusion DEF TransactionInv
    <3>3. sess[q].pc = "log"
      BY <2>1, <2>3, <3>1, <3>2 DEF TransactionInv, RowInv
    <3>4. q \in Handlers
      BY <2>1, <3>1, <3>3 DEF ProgressInv, WorkerInv, PromotionPc, Proc
    <3> QED
      BY <2>2, <3>3, <3>4, <2>1 DEF WillPromote, At
  <2>5. CASE sess[p].pc = "log"
    <3>1. queueLock = q /\ q # Nobody
      BY <2>1, <2>5, ProcessAssumption DEF WaitsFor, At
    <3>2. sess[q].pc \in {"count", "select", "serve", "finish"}
      BY <2>1, <3>1 DEF ProgressInv, QueueLockInv, Promoting, At, DeletePc
    <3> QED
      BY <2>1, <2>2, <2>3, <3>2 DEF WillPromote
  <2> QED
    BY <1>0, <2>1, <2>4, <2>5 DEF WaitsFor, At
<1>3. CASE Transition(p)
  <2>1. p \in Handlers /\ sess[p].pc \in {"log", "commit"}
    BY <1>0, <1>3, Enabled DEF RequestPc
  <2>2. LogEvent(p) \/ CommitRequest(p)
    BY <1>3, <2>1 DEF Transition, CheckCapacity, CheckExisting, ReadTicket, UpdateTicket,
       InsertTicket, RequestRejected, Throws, FreeSlot, At
  <2> QED
    BY <1>g, <2>1, <2>2, Continues
<1>4. CASE Promotion(p)
  <2>1. CASE CountServing(p) \/ NobodyWaits(p)
    <3>1. UNCHANGED rowLock
      BY <2>1 DEF CountServing, NobodyWaits, locks
    <3>2. sess'[p].pc = "select" \/ (sess'[p].pc = "finish" /\ \E u \in Users : rowLock[u] = p)
      BY <1>v, <2>1, Continues DEF NobodyWaits, FreeSlot
    <3> QED
      BY <1>g, <3>1, <3>2
  <2>2. CASE LockQueue(p) \/ SelectCandidate(p) \/ Serve(p)
    BY <1>g, <2>2, Continues
  <2>3. ~QueueGone(p)
    BY DEF QueueGone, FreeSlot
  <2>4. ~FinishPromotion(p)
    <3> SUFFICES ASSUME FinishPromotion(p) PROVE FALSE
      OBVIOUS
    <3>1. PICK u \in Users : rowLock[u] = p
      BY <1>0 DEF FinishPromotion, At
    <3>2. tickets[u].status = "WAITING" /\ tickets'[u].status = "SERVING"
      BY <3>1, PromotionServes
    <3> QED
      BY <3>2
  <2> QED
    BY <1>4, <2>1, <2>2, <2>3, <2>4 DEF Promotion
<1>5. ~Deletion(p)
  BY Enabled DEF ProgressInv, QueueLockInv
<1>6. ~(p = PromoteWorker /\ JobDone)
  BY <1>0 DEF JobDone, At
<1> QED
  BY <1>0, <1>1, <1>2, <1>3, <1>4, <1>5, <1>6, FaultsGrow, Starts, OwnSteps DEF At

\* LATE -> MISSED changes neither who is served nor who waits.
LEMMA ExpiryIsNeutral ==
    ASSUME TypeInv, TransactionInv, ProgressInv, CommitRequest(ExpiryWorker), FreeSlot'
    PROVE  FreeSlot
<1>1. \A u \in Users : tickets'[u] = tickets[u]
                       \/ (tickets[u].status = "LATE" /\ tickets'[u].status = "MISSED")
  BY DEF CommitRequest, CommitTx, View, ProgressInv, WorkerInv
<1>2. Serving(tickets') = Serving(tickets)
  BY <1>1 DEF Serving
<1>3. DOMAIN tickets = Users /\ DOMAIN tickets' = Users /\ UNCHANGED queue
  BY DEF CommitRequest, CommitTx, View, TypeInv, TypeOK
<1>4. Candidates(tickets') = Candidates(tickets)
  <2>1. \A u \in Users : /\ tickets'[u].status = "WAITING" <=> tickets[u].status = "WAITING"
                         /\ tickets'[u].status = "WAITING" => tickets'[u] = tickets[u]
    BY <1>1
  <2> QED
    BY <1>3, <2>1 DEF Candidates
<1> QED
  BY <1>2, <1>3, <1>4 DEF FreeSlot, Serving

LEMMA NoLostStep ==
    ASSUME TypeInv, TransactionInv, ProgressInv, ProgressInv', NoLostPromotion, [Next]_vars
    PROVE  NoLostPromotion'
<1> SUFFICES ASSUME FreeSlot', ~crashed', faults' = 0, "delete" \notin Operations
             PROVE  promoteJob'.state = "queued" \/ \E q \in Proc : WillPromote(q)'
  BY DEF NoLostPromotion
<1>w. /\ PromoteWorker \in Proc /\ ExpiryWorker \in Proc
      /\ PromoteWorker # ExpiryWorker /\ Idle.pc = "idle"
  BY ProcessAssumption DEF Proc, Idle
<1>1. ASSUME FreeSlot PROVE promoteJob.state = "queued" \/ \E q \in Proc : WillPromote(q)
  BY <1>1, FaultsGrow DEF NoLostPromotion
<1>2. CASE UNCHANGED <<queue, tickets>>
  <2>1. FreeSlot
    BY <1>2 DEF FreeSlot, Serving
  <2>2. CASE \E q \in Proc : WillPromote(q)
    BY <1>2, <2>1, <2>2, PromiseKept
  <2>3. CASE promoteJob.state = "queued"
    <3>1. CASE PickPromoteJob
      <4>1. sess'[PromoteWorker].pc = "lock"
        BY <1>w, <3>1, Starts
      <4> QED
        BY <1>w, <4>1 DEF WillPromote
    <3>2. CASE ~PickPromoteJob
      <4>1. At(PromoteWorker, "idle")
        BY <2>3 DEF ProgressInv, WorkerInv
      <4>2. ~JobDone /\ ~DeadlockVictim(PromoteWorker)
        BY <4>1 DEF JobDone, DeadlockVictim, WaitsFor, At
      <4>3. promoteJob' \in {promoteJob, AddJob(promoteJob)}
        BY <1>w, <3>2, <4>2, JobChanges, FaultsGrow
      <4> QED
        BY <2>3, <4>3 DEF AddJob, NoJob
    <3> QED
      BY <3>1, <3>2
  <2> QED
    BY <1>1, <2>1, <2>2, <2>3
<1>3. ASSUME NEW p \in Proc, CommitRequest(p)
      PROVE  promoteJob'.state = "queued" \/ \E q \in Proc : WillPromote(q)'
  <2>1. CASE p \in Handlers
    <3>1. sess'[p].pc = "lock"
      BY <1>3, <2>1, Continues
    <3> QED
      BY <3>1 DEF WillPromote
  <2>2. CASE p = ExpiryWorker
    <3>1. FreeSlot /\ UNCHANGED promoteJob
      BY <1>3, <2>2, ExpiryIsNeutral DEF CommitRequest
    <3>2. ASSUME NEW q \in Proc, WillPromote(q) PROVE WillPromote(q)'
      <4>1. q # p
        BY <1>w, <2>2, <3>2, ProcessAssumption DEF WillPromote, ProgressInv, WorkerInv, At
      <4>2. sess'[q] = sess[q]
        BY <1>3, <4>1 DEF CommitRequest, TypeInv, TypeOK
      <4>3. \A u \in Users : rowLock[u] = q => rowLock'[u] = q
        BY <1>3, <4>1 DEF CommitRequest, CommitTx, Unlock
      <4> QED
        BY <3>2, <4>2, <4>3 DEF WillPromote, At
    <3> QED
      BY <1>1, <3>1, <3>2
  <2>3. p # PromoteWorker
    BY <1>3 DEF CommitRequest, At, ProgressInv, WorkerInv, PromotionPc
  <2> QED
    BY <2>1, <2>2, <2>3 DEF Proc
<1>4. ASSUME NEW p \in Proc, FinishPromotion(p) PROVE FALSE
  <2>1. tickets' = View(p) /\ UNCHANGED queue /\ At(p, "finish")
    BY <1>4 DEF FinishPromotion, CommitTx
  <2>2. \/ ~(Cardinality(Serving(View(p))) < queue.serviceSlots)
        \/ Candidates(View(p)) = {}
    BY <2>1 DEF ProgressInv, FinishInv
  <2>3. Cardinality(Serving(tickets')) < queue'.serviceSlots /\ Candidates(tickets') # {}
    BY DEF FreeSlot, Serving
  <2> QED
    BY <2>1, <2>2, <2>3
<1>5. ASSUME NEW p \in Proc, DeleteCascade(p) PROVE FALSE
  BY <1>5 DEF DeleteCascade, ProgressInv, QueueLockInv, DeletePc, At
<1>6. ASSUME NEW p \in Handlers, UpdateQueue(p) PROVE \E q \in Proc : WillPromote(q)'
  <2>1. p \in Proc /\ sess'[p].pc = "lock"
    BY <1>6, Starts DEF Proc
  <2> QED
    BY <2>1 DEF WillPromote
<1> QED
  BY <1>2, <1>3, <1>4, <1>5, <1>6, CommittedChanges

\* Without faults, crashes and deletions, a slot is never free for a waiting
\* ticket unless some process is going to promote or a job for it is queued,
\* whatever requests, settings, expiries and deadlocks interleave.
THEOREM PromotionNeverLost == Spec => []NoLostPromotion
<1>1. Init => NoLostPromotion
  <2> SUFFICES ASSUME Init PROVE NoLostPromotion
    OBVIOUS
  <2>1. Candidates(tickets) = {}
    BY DEF Init, Candidates, NoTicket
  <2> QED
    BY <2>1 DEF NoLostPromotion, FreeSlot
<1>2. TypeInv /\ TransactionInv /\ ProgressInv /\ ProgressInv' /\ NoLostPromotion /\ [Next]_vars
        => NoLostPromotion'
  BY NoLostStep
<1> QED
  BY <1>1, <1>2, TypeInvariant, TransactionInvariant, ProgressInvariant, PTL DEF Spec

-----------------------------------------------------------------------------
(* The overrun of maxSize. *)

LEMMA JoinStep ==
    ASSUME TypeInv, TransactionInv, JoinInv, [Next]_vars
    PROVE  JoinInv'
<1>i. Idle.pc = "idle" /\ Idle.event = "NONE"
  BY DEF Idle
<1>1. ASSUME NEW p \in Proc, sess'[p].event \in {"JOIN", "REJOIN"} PROVE p \in Handlers
  <2>1. Transition(p) => p \in Handlers
    <3>1. CheckExisting(p) => p \in Handlers
      BY DEF CheckExisting, At, JoinInv
    <3>2. Transition(p) /\ ~CheckExisting(p) => sess'[p] = Idle \/ sess'[p].event = sess[p].event
      BY Continues DEF Transition, Same
    <3> QED
      BY <1>1, <1>i, <3>1, <3>2 DEF JoinInv
  <2>2. Promotion(p) \/ Deletion(p) => p \in Handlers
    <3>1. Promotion(p) => sess'[p].event \in {"NONE", sess[p].event}
      BY <1>i, Continues DEF Promotion, Same
    <3>2. Deletion(p) => sess'[p].event \in {"NONE", sess[p].event}
      BY <1>i, Continues DEF Deletion, Same
    <3> QED
      BY <1>1, <3>1, <3>2 DEF JoinInv
  <2> QED
    BY <1>1, <1>i, <2>1, <2>2, Starts, OwnSteps DEF JoinInv
<1>2. ASSUME NEW p \in Proc, sess'[p].pc \in {"capacity", "existing", "insert"}
      PROVE  sess'[p].event = "JOIN"
  <2>1. Transition(p) => sess'[p].event = "JOIN"
    <3>1. Transition(p) => (CheckCapacity(p) \/ CheckExisting(p)) /\ Same(p)
      BY <1>2, <1>i, Continues DEF Transition
    <3> QED
      BY <3>1 DEF Same, CheckCapacity, CheckExisting, JoinInv, At
  <2>2. ~Promotion(p) /\ ~Deletion(p)
    BY <1>2, <1>i, Continues DEF Promotion, Deletion
  <2> QED
    BY <1>2, <1>i, <2>1, <2>2, Starts, OwnSteps DEF JoinInv
<1>3. ASSUME NEW p \in Proc, sess'[p].pc = "update", sess'[p].event # "REJOIN"
      PROVE  sess'[p].seen \in ActiveStatus
  <2>1. CASE sess'[p] = sess[p]
    BY <1>3, <2>1 DEF JoinInv, At
  <2>2. CASE ReadTicket(p)
    <3>1. PICK t \in Decisions(tickets[sess[p].user], sess[p].event) : TRUE
      BY <2>2 DEF ReadTicket
    <3>2. sess[p].event # "REJOIN" /\ sess'[p].seen = tickets[sess[p].user].status
      BY <1>3, <2>2, Continues
    <3> QED
      BY <3>1, <3>2 DEF Decisions, Transitions, ActiveStatus
  <2> QED
    BY <1>3, <2>1, <2>2, UpdateReached DEF At
<1>4. ASSUME NEW p \in Proc, NEW u \in Users, rowLock'[u] = p, sess'[p].pc \in {"log", "commit"}
      PROVE  sess'[p].event \in {"JOIN", "REJOIN"} \/ tickets'[u].status \in ActiveStatus
  <2>1. CASE rowLock[u] = p
    <3>1. tickets'[u].status = tickets[u].status
      BY <1>4, <2>1, LockedRowsStay
    <3>2. sess[p].pc \in {"log", "commit", "count", "select", "serve", "finish"}
      BY <2>1 DEF TransactionInv, RowInv, Promoting
    <3>3. ~Promotion(p) /\ ~Deletion(p)
      BY <1>4, <1>i, Continues DEF Promotion, Deletion
    <3>4. Transition(p) => sess[p].pc = "log" /\ Same(p)
      <4>1. Transition(p) => LogEvent(p) \/ UpdateTicket(p) \/ InsertTicket(p)
        BY <1>4, <1>i, Continues DEF Transition
      <4>2. ~UpdateTicket(p) /\ ~InsertTicket(p)
        BY <3>2 DEF UpdateTicket, InsertTicket, At
      <4> QED
        BY <4>1, <4>2, Continues DEF LogEvent, At
    <3>5. sess'[p].event = sess[p].event /\ sess[p].pc \in {"log", "commit"}
      BY <1>4, <1>i, <3>3, <3>4, Starts, OwnSteps DEF Same
    <3> QED
      BY <2>1, <3>1, <3>5 DEF JoinInv
  <2>2. CASE Writes(p, u)
    <3>1. UpdateTicket(p) \/ InsertTicket(p)
      BY <1>4, <2>2, Continues DEF Writes
    <3>2. UpdateTicket(p) => \/ sess[p].event = "REJOIN"
                             \/ tickets[u].status \in ActiveStatus /\ tickets' = tickets
      BY <2>2 DEF UpdateTicket, Writes, JoinInv
    <3>3. InsertTicket(p) => sess[p].event = "JOIN"
      BY DEF InsertTicket, JoinInv, At
    <3>4. sess'[p].event = sess[p].event
      BY <3>1, Continues DEF Same
    <3> QED
      BY <3>1, <3>2, <3>3, <3>4
  <2> QED
    BY <1>4, <2>1, <2>2, RowSources
<1> QED
  BY <1>1, <1>2, <1>3, <1>4 DEF JoinInv, At

\* Only a join that has passed the check of maxSize becomes a joining one.
LEMMA JoiningGrows ==
    ASSUME TypeInv, TransactionInv, JoinInv, [Next]_vars, OnlyJoinsAdd,
           NEW p \in Joining', p \notin Joining
    PROVE  CheckCapacity(p)
<1>0. /\ p \in Proc /\ p \in Handlers
      /\ sess'[p].event \in {"JOIN", "REJOIN"} /\ sess'[p].pc \in RequestPc \ {"capacity"}
      /\ Idle.pc = "idle" /\ Idle.pc \notin RequestPc
  BY DEF Joining, Proc, Idle, RequestPc
<1>1. sess[p].event \notin {"JOIN", "REJOIN"} \/ sess[p].pc \notin RequestPc \ {"capacity"}
  BY <1>0 DEF Joining
<1>2. sess'[p] # sess[p] /\ sess'[p] # Idle
  BY <1>0, <1>1
<1>3. ~Promotion(p) /\ ~Deletion(p)
  BY <1>0, Continues DEF Promotion, Deletion, RequestPc
<1>4. ~UpdateQueue(p) /\ ~DeleteQueue(p) /\ ~\E u \in Users : Request(p, u)
  BY <1>0, Starts DEF RequestPc, OnlyJoinsAdd
<1>5. Transition(p)
  BY <1>0, <1>2, <1>3, <1>4, OwnSteps, ProcessAssumption
<1>6. ~CheckExisting(p)
  <2>1. CheckExisting(p) => sess[p].pc = "existing" /\ sess[p].event = "JOIN"
    BY <1>0 DEF CheckExisting, At, JoinInv
  <2> QED
    BY <1>1, <2>1 DEF RequestPc
<1>7. ~(ReadTicket(p) \/ UpdateTicket(p) \/ InsertTicket(p) \/ LogEvent(p))
  <2>1. ReadTicket(p) \/ UpdateTicket(p) \/ InsertTicket(p) \/ LogEvent(p)
            => sess[p].pc \in RequestPc \ {"capacity"} /\ sess'[p].event = sess[p].event
    BY <1>0, Continues DEF ReadTicket, UpdateTicket, InsertTicket, LogEvent, At, RequestPc, Same
  <2> QED
    BY <1>0, <1>1, <2>1
<1>8. ~CommitRequest(p) /\ ~RequestRejected(p)
  BY <1>0, <1>2, Continues DEF RequestPc
<1> QED
  BY <1>5, <1>6, <1>7, <1>8 DEF Transition

\* The sets that are counted are finite.
LEMMA FiniteCounts ==
    /\ IsFiniteSet(Active(tickets)) /\ Cardinality(Active(tickets)) \in Nat
    /\ IsFiniteSet(Active(tickets')) /\ Cardinality(Active(tickets')) \in Nat
    /\ IsFiniteSet(Joining) /\ Cardinality(Joining) \in Nat
    /\ IsFiniteSet(Joining') /\ Cardinality(Joining') \in Nat
    /\ Cardinality(Joining') <= Cardinality(Handlers)
    /\ Cardinality(Handlers) \in Nat
<1>1. /\ Active(tickets) \in SUBSET Users /\ Active(tickets') \in SUBSET Users
      /\ Joining \in SUBSET Handlers /\ Joining' \in SUBSET Handlers
  BY DEF Active, Joining
<1> QED
  BY <1>1, FS_Subset, FS_CardinalityType, ProcessAssumption

LEMMA OverrunStep ==
    ASSUME TypeInv, TransactionInv, JoinInv, BoundedOverrun, [Next]_vars
    PROVE  BoundedOverrun'
<1> DEFINE a  == Cardinality(Active(tickets))
           a2 == Cardinality(Active(tickets'))
           j  == Cardinality(Joining)
           j2 == Cardinality(Joining')
           h  == Cardinality(Handlers)
<1> SUFFICES ASSUME queue'.maxSize # NoLimit, OnlyJoinsAdd
             PROVE  a2 + j2 <= queue'.maxSize + h - 1
  BY DEF BoundedOverrun, Active
<1>1. \A p \in Handlers : ~UpdateQueue(p)
  BY DEF UpdateQueue, OnlyJoinsAdd
<1>2. queue'.maxSize = queue.maxSize
  <2>1. \A p \in Proc : DeleteCascade(p) => queue'.maxSize = queue.maxSize
    BY DEF DeleteCascade, TypeInv, TypeOK, QueueType
  <2> QED
    BY <1>1, <2>1, CommittedChanges, RequestMoves, PromotionServes
<1>3. /\ a \in Nat /\ a2 \in Nat /\ j \in Nat /\ j2 \in Nat /\ h \in Nat
      /\ j2 <= h /\ queue.maxSize \in Nat
      /\ a + j <= queue.maxSize + h - 1
  BY <1>2, FiniteCounts DEF BoundedOverrun, TypeInv, TypeOK, QueueType
<1>4. a2 <= a /\ j2 <= j => a2 + j2 <= queue'.maxSize + h - 1
  BY <1>2, <1>3
<1>5. CASE \E p \in Proc : CheckCapacity(p)
  <2>1. a2 = a /\ a < queue.maxSize
    BY <1>2, <1>5 DEF CheckCapacity, HasRoom
  <2> HIDE DEF a, a2, j, j2, h
  <2> QED
    BY <1>2, <1>3, <2>1
<1>6. CASE ~\E p \in Proc : CheckCapacity(p)
  <2>1. Joining' \subseteq Joining
    BY <1>6, JoiningGrows DEF Joining, Proc
  <2>2. j2 <= j
    BY <2>1, FiniteCounts, FS_Subset
  <2>3. ASSUME Active(tickets') \subseteq Active(tickets) PROVE a2 <= a
    BY <2>3, FiniteCounts, FS_Subset
  <2>4. CASE UNCHANGED <<queue, tickets>>
    BY <1>4, <2>2, <2>4, <1>3
  <2>5. CASE \E p \in Proc : FinishPromotion(p)
    <3>1. Active(tickets') \subseteq Active(tickets)
      BY <2>5, PromotionServes DEF Active
    <3> QED
      BY <1>4, <2>2, <2>3, <3>1
  <2>6. CASE \E p \in Proc : DeleteCascade(p)
    <3>1. Active(tickets') \subseteq Active(tickets)
      BY <2>6 DEF DeleteCascade, Active, NoTicket
    <3> QED
      BY <1>4, <2>2, <2>3, <3>1
  <2>7. ASSUME NEW p \in Proc, CommitRequest(p) PROVE a2 + j2 <= queue'.maxSize + h - 1
    <3>1. \A u \in Users : tickets'[u] = IF rowLock[u] = p THEN draft[u] ELSE tickets[u]
      BY <2>7 DEF CommitRequest, CommitTx, View
    <3>2. CASE p \in Joining
      <4>1. p \notin Joining'
        BY <2>7, <3>2, Continues DEF Joining, RequestPc
      <4>2. IsFiniteSet(Joining \ {p}) /\ Cardinality(Joining \ {p}) = j - 1
        BY <3>2, FiniteCounts, FS_RemoveElement
      <4>3. j2 <= j - 1
        BY <2>1, <4>1, <4>2, FS_Subset
      <4>4. Active(tickets') \subseteq Active(tickets) \cup {sess[p].user}
        BY <2>7, RequestMoves DEF Active
      <4>5. /\ IsFiniteSet(Active(tickets) \cup {sess[p].user})
            /\ Cardinality(Active(tickets) \cup {sess[p].user}) <= a + 1
            /\ Cardinality(Active(tickets) \cup {sess[p].user}) \in Nat
        <5>1. /\ IsFiniteSet(Active(tickets) \cup {sess[p].user})
              /\ Cardinality(Active(tickets) \cup {sess[p].user}) \in {a, a + 1}
          BY FiniteCounts, FS_AddElement
        <5> HIDE DEF a
        <5> QED
          BY <1>3, <5>1
      <4>6. a2 <= a + 1
        BY <4>4, <4>5, FiniteCounts, FS_Subset
      <4> HIDE DEF a, a2, j, j2, h
      <4> QED
        BY <1>2, <1>3, <4>3, <4>6
    <3>3. CASE p \notin Joining
      <4>1. sess[p].event \notin {"JOIN", "REJOIN"} /\ sess[p].pc = "commit"
        BY <2>7, <3>3 DEF Joining, JoinInv, CommitRequest, At, RequestPc
      <4>2. \A u \in Users : rowLock[u] = p => tickets[u].status \in ActiveStatus
        BY <4>1 DEF JoinInv
      <4>3. Active(tickets') \subseteq Active(tickets)
        BY <3>1, <4>2 DEF Active, ActiveStatus
      <4> QED
        BY <1>4, <2>2, <2>3, <4>3
    <3> QED
      BY <3>2, <3>3
  <2> QED
    BY <1>1, <2>4, <2>5, <2>6, <2>7, CommittedChanges
<1> QED
  BY <1>5, <1>6

\* Joins that check maxSize and insert in different statements overrun it by
\* less than the number of handlers, those that are still joining included,
\* as long as nothing else adds active tickets or lowers maxSize.
THEOREM OverrunBounded == Spec => []BoundedOverrun
<1>1. Init => JoinInv
  BY ProcessAssumption DEF Init, JoinInv, At, Idle
<1>2. Init => BoundedOverrun
  <2> SUFFICES ASSUME Init, queue.maxSize # NoLimit
               PROVE  Cardinality(Active(tickets)) + Cardinality(Joining)
                          <= queue.maxSize + Cardinality(Handlers) - 1
    BY DEF BoundedOverrun
  <2>1. Active(tickets) = {} /\ Joining = {}
    BY DEF Init, Active, NoTicket, Joining, Idle, Proc
  <2>2. queue.maxSize \in Nat \ {0} /\ Cardinality(Handlers) \in Nat
    BY SettingsAssumption, FiniteCounts DEF Init, NoLimit
  <2>3. Cardinality(Active(tickets)) = 0 /\ Cardinality(Joining) = 0
    BY <2>1, FS_EmptySet
  <2> QED
    BY <2>2, <2>3
<1>3. TypeInv /\ TransactionInv /\ JoinInv /\ [Next]_vars => JoinInv'
  BY JoinStep
<1>4. TypeInv /\ TransactionInv /\ JoinInv /\ BoundedOverrun /\ [Next]_vars => BoundedOverrun'
  BY OverrunStep
<1> QED
  BY <1>1, <1>2, <1>3, <1>4, TypeInvariant, TransactionInvariant, PTL DEF Spec
=============================================================================
