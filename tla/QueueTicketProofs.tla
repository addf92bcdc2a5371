-------------------------- MODULE QueueTicketProofs --------------------------
(***************************************************************************)
(* What the tickets of QueueTransactions keep: a boost only while they     *)
(* wait, an audit record that explains them, and the order in which they   *)
(* are promoted.                                                           *)
(***************************************************************************)
EXTENDS QueueLifecycleProofs

-----------------------------------------------------------------------------
(* Frames: who changes sessions and rows. *)

\* Only p moves its session, except that any failure may make it idle.
LEMMA OwnSteps ==
    ASSUME TypeInv, [Next]_vars, NEW p \in Proc
    PROVE  \/ sess'[p] = sess[p]
           \/ /\ sess'[p] = Idle
              /\ \/ DeadlockVictim(p) \/ Timeout(p) \/ Restart
                 \/ \E q \in Proc : Uncaught(q) /\ Abort(q)
                 \/ p = PromoteWorker /\ JobDone
           \/ Transition(p) \/ Promotion(p) \/ Deletion(p)
           \/ p \in Handlers /\ (UpdateQueue(p) \/ DeleteQueue(p) \/ \E u \in Users : Request(p, u))
           \/ p = ExpiryWorker /\ \E u \in Users : StartExpiryJob(u)
           \/ p = PromoteWorker /\ PickPromoteJob
<1>s. sess \in [Proc -> Session]
  BY DEF TypeInv, TypeOK
<1> DEFINE Ended == /\ sess'[p] = Idle
                    /\ \/ DeadlockVictim(p) \/ Timeout(p) \/ Restart
                       \/ \E q \in Proc : Uncaught(q) /\ Abort(q)
                       \/ p = PromoteWorker /\ JobDone
<1>a. ASSUME NEW q \in Proc, Abort(q)
      PROVE  IF Uncaught(q) THEN sess'[p] = Idle ELSE sess'[p] = IF p = q THEN Idle ELSE sess[p]
  BY <1>s, <1>a DEF Abort, StopServer
<1>1. ASSUME NEW q \in Handlers, NEW u \in Users, Request(q, u), q # p PROVE sess'[p] = sess[p]
  BY <1>s, <1>1 DEF Request, JoinQueue, LeaveQueue, RemoveQueueUser, MarkComplete, MarkLate,
     LateRejoin, LateArrived, Receive
<1>2. ASSUME NEW q \in Handlers, UpdateQueue(q) \/ DeleteQueue(q), q # p
      PROVE  sess'[p] = sess[p]
  BY <1>s, <1>2 DEF UpdateQueue, DeleteQueue, Receive
<1>3. ASSUME NEW q \in Proc, Transition(q), q # p PROVE sess'[p] = sess[p]
  BY <1>s, <1>3 DEF Transition, CheckCapacity, CheckExisting, ReadTicket, UpdateTicket,
     InsertTicket, LogEvent, CommitRequest, RequestRejected, Goto
<1>4. ASSUME NEW q \in Proc, Promotion(q), q # p PROVE sess'[p] = sess[p]
  BY <1>s, <1>4 DEF Promotion, LockQueue, QueueGone, CountServing, SelectCandidate,
     NobodyWaits, Serve, FinishPromotion, Goto
<1>5. ASSUME NEW q \in Proc, Deletion(q), q # p PROVE sess'[p] = sess[p]
  BY <1>s, <1>5 DEF Deletion, DeleteLock, DeleteCascade, Goto
<1>6. (\E u \in Users : StartExpiryJob(u)) /\ p # ExpiryWorker => sess'[p] = sess[p]
  BY <1>s DEF StartExpiryJob
<1>7. PickPromoteJob /\ p # PromoteWorker => sess'[p] = sess[p]
  BY <1>s DEF PickPromoteJob
<1>8. JobDone => sess'[p] = sess[p] \/ Ended
  BY <1>s DEF JobDone
<1>9. ASSUME NEW q \in Proc, DeadlockVictim(q) \/ Timeout(q) PROVE sess'[p] = sess[p] \/ Ended
  <2>1. Abort(q)
    BY <1>9 DEF DeadlockVictim, Timeout
  <2> QED
    BY <1>9, <1>a, <2>1
<1>10. Restart => Ended
  BY DEF Restart, StopServer
<1>11. Tick \/ Terminating \/ UNCHANGED vars => sess'[p] = sess[p]
  BY DEF Tick, Terminating, vars
<1> HIDE DEF Ended
<1>12. \/ sess'[p] = sess[p] \/ Ended
       \/ Transition(p) \/ Promotion(p) \/ Deletion(p)
       \/ p \in Handlers /\ (UpdateQueue(p) \/ DeleteQueue(p) \/ \E u \in Users : Request(p, u))
       \/ p = ExpiryWorker /\ \E u \in Users : StartExpiryJob(u)
       \/ p = PromoteWorker /\ PickPromoteJob
  BY <1>1, <1>2, <1>3, <1>4, <1>5, <1>6, <1>7, <1>8, <1>9, <1>10, <1>11 DEF Next, Step
<1> QED
  BY <1>12 DEF Ended

\* Where a request or a job starts.
LEMMA Starts ==
    ASSUME TypeInv, NEW p \in Proc
    PROVE  /\ \A u \in Users : Request(p, u) =>
                  /\ At(p, "idle")
                  /\ sess'[p].event \in {"JOIN", "LEAVE", "COMPLETE", "MARK_LATE", "REJOIN"}
                  /\ sess'[p].pc = IF sess'[p].event = "JOIN" THEN "capacity" ELSE "read"
                  /\ sess'[p].event = "REJOIN"
                         => "lateRejoin" \in Operations \/ "lateArrived" \in Operations
           /\ UpdateQueue(p) => At(p, "idle") /\ sess'[p].pc = "lock" /\ sess'[p].event = "UPDATE"
           /\ DeleteQueue(p) => At(p, "idle") /\ sess'[p].pc = "delete"
           /\ \A u \in Users : StartExpiryJob(u) /\ p = ExpiryWorker =>
                  At(p, "idle") /\ sess'[p].pc = "read" /\ sess'[p].event = "MISSED"
           /\ PickPromoteJob /\ p = PromoteWorker =>
                  At(p, "idle") /\ sess'[p].pc = "lock" /\ sess'[p].event = "JOB"
<1>s. sess \in [Proc -> Session]
  BY DEF TypeInv, TypeOK
<1>1. ASSUME NEW op, NEW pc, NEW event, NEW u, Receive(p, op, pc, event, u)
      PROVE  At(p, "idle") /\ sess'[p].pc = pc /\ sess'[p].event = event /\ op \in Operations
  BY <1>s, <1>1 DEF Receive, Idle
<1>2. ASSUME NEW u \in Users, Request(p, u)
      PROVE  /\ At(p, "idle")
             /\ sess'[p].event \in {"JOIN", "LEAVE", "COMPLETE", "MARK_LATE", "REJOIN"}
             /\ sess'[p].pc = IF sess'[p].event = "JOIN" THEN "capacity" ELSE "read"
             /\ sess'[p].event = "REJOIN"
                    => "lateRejoin" \in Operations \/ "lateArrived" \in Operations
  BY <1>1, <1>2 DEF Request, JoinQueue, LeaveQueue, RemoveQueueUser, MarkComplete, MarkLate,
     LateRejoin, LateArrived
<1>3. UpdateQueue(p) => At(p, "idle") /\ sess'[p].pc = "lock" /\ sess'[p].event = "UPDATE"
  BY <1>s DEF UpdateQueue, Idle
<1>4. DeleteQueue(p) => At(p, "idle") /\ sess'[p].pc = "delete"
  BY <1>1 DEF DeleteQueue
<1>5. ASSUME NEW u \in Users, StartExpiryJob(u), p = ExpiryWorker
      PROVE  At(p, "idle") /\ sess'[p].pc = "read" /\ sess'[p].event = "MISSED"
  BY <1>s, <1>5 DEF StartExpiryJob, Idle
<1>6. ASSUME PickPromoteJob, p = PromoteWorker
      PROVE  At(p, "idle") /\ sess'[p].pc = "lock" /\ sess'[p].event = "JOB"
  BY <1>s, <1>6 DEF PickPromoteJob, Idle
<1> QED
  BY <1>2, <1>3, <1>4, <1>5, <1>6

\* What runs in p, and for whom, stays.
Same(p) == /\ sess'[p].event = sess[p].event
           /\ sess'[p].user = sess[p].user
           /\ sess'[p].seen = sess[p].seen

\* Where a transition, a promotion or a deletion goes on.
LEMMA Continues ==
    ASSUME TypeInv, NEW p \in Proc
    PROVE  /\ CheckCapacity(p) => sess'[p].pc = "existing" /\ Same(p)
           /\ CheckExisting(p) =>
                  \/ sess'[p].pc = "read" /\ sess'[p].event = "REJOIN"
                     /\ sess'[p].user = sess[p].user
                  \/ sess'[p].pc = "insert" /\ Same(p)
           /\ ReadTicket(p) => /\ sess'[p].pc = "update" /\ sess'[p].event = sess[p].event
                               /\ sess'[p].user = sess[p].user
                               /\ sess'[p].seen = tickets[sess[p].user].status
           /\ UpdateTicket(p) \/ InsertTicket(p) => sess'[p].pc = "log" /\ Same(p)
           /\ LogEvent(p) => sess'[p].pc = "commit" /\ Same(p)
           /\ CommitRequest(p) => IF p \in Handlers
                                  THEN sess'[p].pc = "lock" /\ sess'[p].event = sess[p].event
                                  ELSE sess'[p] = Idle
           /\ RequestRejected(p) => sess'[p] = Idle
           /\ LockQueue(p) => sess'[p].pc = "count" /\ sess'[p].event = sess[p].event
           /\ QueueGone(p) \/ FinishPromotion(p) =>
                  IF p = PromoteWorker THEN sess'[p].pc = "ack" /\ sess'[p].event = "NONE"
                  ELSE sess'[p] = Idle
           /\ CountServing(p) =>
                  /\ sess'[p].pc = IF Cardinality(Serving(View(p))) < queue.serviceSlots
                                   THEN "select" ELSE "finish"
                  /\ Same(p)
           /\ SelectCandidate(p) => sess'[p].pc = "serve" /\ sess'[p].event = sess[p].event
           /\ NobodyWaits(p) => sess'[p].pc = "finish" /\ Same(p)
           /\ Serve(p) => sess'[p].pc = "count" /\ Same(p)
           /\ DeleteLock(p) => sess'[p].pc = "cascade" /\ Same(p)
           /\ DeleteCascade(p) => sess'[p] = Idle
<1>s. sess \in [Proc -> Session] /\ sess[p] \in Session
  BY DEF TypeInv, TypeOK
<1>1. ASSUME NEW pc, Goto(p, pc) PROVE sess'[p].pc = pc /\ Same(p)
  BY <1>s, <1>1 DEF Goto, Session, Same
<1>2. CheckExisting(p) =>
          \/ sess'[p].pc = "read" /\ sess'[p].event = "REJOIN" /\ sess'[p].user = sess[p].user
          \/ sess'[p].pc = "insert" /\ Same(p)
  <2>1. sess' = [sess EXCEPT ![p].pc = "read", ![p].event = "REJOIN"] =>
            sess'[p].pc = "read" /\ sess'[p].event = "REJOIN" /\ sess'[p].user = sess[p].user
    BY <1>s DEF Session
  <2>2. sess' = [sess EXCEPT ![p].pc = "insert", ![p].stamp = now] =>
            sess'[p].pc = "insert" /\ Same(p)
    BY <1>s DEF Session, Same
  <2> QED
    BY <2>1, <2>2 DEF CheckExisting
<1>3. ReadTicket(p) => /\ sess'[p].pc = "update" /\ sess'[p].event = sess[p].event
                       /\ sess'[p].user = sess[p].user
                       /\ sess'[p].seen = tickets[sess[p].user].status
  BY <1>s DEF ReadTicket, Session
<1>4. SelectCandidate(p) => sess'[p].pc = "serve" /\ sess'[p].event = sess[p].event
  BY <1>s DEF SelectCandidate, Session
<1>5. LockQueue(p) => sess'[p].pc = "count" /\ sess'[p].event = sess[p].event
  BY <1>s DEF LockQueue, Idle
<1>6. CommitRequest(p) => IF p \in Handlers
                          THEN sess'[p].pc = "lock" /\ sess'[p].event = sess[p].event
                          ELSE sess'[p] = Idle
  BY <1>s DEF CommitRequest, AfterCommit, Idle
<1>7. QueueGone(p) \/ FinishPromotion(p) =>
           IF p = PromoteWorker THEN sess'[p].pc = "ack" /\ sess'[p].event = "NONE"
           ELSE sess'[p] = Idle
  BY <1>s DEF QueueGone, FinishPromotion, AfterPromotion, Idle
<1>8. /\ RequestRejected(p) => sess'[p] = Idle
      /\ DeleteCascade(p) => sess'[p] = Idle
  BY <1>s DEF RequestRejected, DeleteCascade
<1>9. /\ CheckCapacity(p) => sess'[p].pc = "existing" /\ Same(p)
      /\ UpdateTicket(p) \/ InsertTicket(p) => sess'[p].pc = "log" /\ Same(p)
      /\ LogEvent(p) => sess'[p].pc = "commit" /\ Same(p)
      /\ NobodyWaits(p) => sess'[p].pc = "finish" /\ Same(p)
      /\ Serve(p) => sess'[p].pc = "count" /\ Same(p)
      /\ DeleteLock(p) => sess'[p].pc = "cascade" /\ Same(p)
  BY <1>1 DEF CheckCapacity, UpdateTicket, InsertTicket, LogEvent, NobodyWaits, Serve, DeleteLock
<1>10. CountServing(p) =>
           /\ sess'[p].pc = IF Cardinality(Serving(View(p))) < queue.serviceSlots
                            THEN "select" ELSE "finish"
           /\ Same(p)
  BY <1>1 DEF CountServing
<1> QED
  BY <1>2, <1>3, <1>4, <1>5, <1>6, <1>7, <1>8, <1>9, <1>10

\* The statements that write a row.
Writes(p, u) == (UpdateTicket(p) \/ InsertTicket(p) \/ Serve(p)) /\ sess[p].user = u

\* A row is written by such a statement of its new locker, or released, or
\* deleted with the queue.
LEMMA RowSources ==
    ASSUME TypeInv, [Next]_vars, NEW u \in Users
    PROVE  /\ tickets'[u] \in {tickets[u], draft[u], NoTicket}
           /\ \/ draft'[u] \in {draft[u], tickets[u], NoTicket}
              \/ \E p \in Proc : Writes(p, u)
           /\ \A p \in Proc : rowLock'[u] = p =>
                  \/ rowLock[u] = p /\ draft'[u] = draft[u]
                  \/ Writes(p, u)
<1> DEFINE Sources ==
             /\ tickets'[u] \in {tickets[u], draft[u], NoTicket}
             /\ \/ draft'[u] \in {draft[u], tickets[u], NoTicket}
                \/ \E p \in Proc : Writes(p, u)
             /\ \A p \in Proc : rowLock'[u] = p =>
                    \/ rowLock[u] = p /\ draft'[u] = draft[u]
                    \/ Writes(p, u)
<1>t. /\ tickets \in [Users -> Ticket] /\ draft \in [Users -> Ticket]
      /\ rowLock \in [Users -> Proc \cup {Nobody}]
  BY DEF TypeInv, TypeOK
<1>n. Nobody \notin Proc
  BY ProcessAssumption
<1>1. UNCHANGED <<tickets, draft, rowLock>> => Sources
  OBVIOUS
<1>2. ASSUME NEW q \in Proc, CommitTx(q) \/ Rollback(q) PROVE Sources
  BY <1>2, <1>t, <1>n DEF CommitTx, Rollback, Unlock, View
<1>3. StopServer => Sources
  BY <1>n DEF StopServer
<1>4. ASSUME NEW q \in Proc, DeleteCascade(q) PROVE Sources
  BY <1>4, <1>n DEF DeleteCascade, Unlock, Exists
<1>5. ASSUME NEW q \in Proc, UpdateTicket(q) \/ InsertTicket(q) \/ Serve(q) PROVE Sources
  <2>1. PICK row : Write(q, sess[q].user, row)
    BY <1>5 DEF UpdateTicket, InsertTicket, Serve
  <2>2. UNCHANGED tickets
    BY <1>5 DEF UpdateTicket, InsertTicket, Serve
  <2>3. CASE sess[q].user = u
    <3>1. Writes(q, u) /\ rowLock'[u] = q
      BY <1>5, <1>t, <2>1, <2>3 DEF Writes, Write
    <3> QED
      BY <2>2, <3>1
  <2>4. CASE sess[q].user # u
    BY <1>t, <2>1, <2>2, <2>4 DEF Write
  <2> QED
    BY <2>3, <2>4
<1>6. ASSUME NEW q \in Proc, Abort(q) PROVE Sources
  BY <1>2, <1>3, <1>6 DEF Abort
<1>7. ASSUME NEW q \in Proc, Step(q) PROVE Sources
  <2>1. Transition(q) => Sources
    BY <1>1, <1>2, <1>5 DEF Transition, CheckCapacity, CheckExisting, ReadTicket,
       LogEvent, CommitRequest, RequestRejected, locks
  <2>2. Promotion(q) => Sources
    BY <1>1, <1>2, <1>5 DEF Promotion, LockQueue, QueueGone, CountServing, SelectCandidate,
       NobodyWaits, FinishPromotion, locks
  <2>3. Deletion(q) => Sources
    BY <1>1, <1>4 DEF Deletion, DeleteLock
  <2> QED
    BY <1>6, <1>7, <2>1, <2>2, <2>3 DEF Step, DeadlockVictim
<1>8. (\E q \in Handlers : UpdateQueue(q) \/ DeleteQueue(q) \/ \E w \in Users : Request(q, w))
        => Sources
  BY <1>1 DEF UpdateQueue, DeleteQueue, Request, JoinQueue, LeaveQueue, RemoveQueueUser,
     MarkComplete, MarkLate, LateRejoin, LateArrived, Receive, locks
<1>9. (\E w \in Users : StartExpiryJob(w)) \/ PickPromoteJob \/ JobDone \/ Tick \/ Terminating
          \/ UNCHANGED vars => Sources
  BY <1>1 DEF StartExpiryJob, PickPromoteJob, JobDone, Tick, Terminating, vars, locks
<1>10. (\E q \in Proc : Timeout(q)) \/ Restart => Sources
  BY <1>3, <1>6 DEF Timeout, Restart
<1> HIDE DEF Sources
<1>11. Sources
  BY <1>7, <1>8, <1>9, <1>10 DEF Next
<1> QED
  BY <1>11 DEF Sources

-----------------------------------------------------------------------------
(* Service slots, while nobody changes them. *)

LEMMA ServingStep ==
    ASSUME TypeInv, TransactionInv, ServingWithinSlots, [Next]_vars
    PROVE  ServingWithinSlots'
<1> SUFFICES ASSUME "update" \notin Operations
             PROVE  Cardinality(Serving(tickets')) <= queue'.serviceSlots
  BY DEF ServingWithinSlots, Serving
<1>1. queue'.serviceSlots = queue.serviceSlots
  <2>1. \A p \in Handlers : ~UpdateQueue(p)
    BY DEF UpdateQueue
  <2>2. \A p \in Proc : DeleteCascade(p) => queue'.serviceSlots = queue.serviceSlots
    BY DEF DeleteCascade, TypeInv, TypeOK, QueueType
  <2> QED
    BY <2>1, <2>2, RequestMoves, PromotionServes, CommittedChanges
<1>2. CASE Serving(tickets') \subseteq Serving(tickets)
  <2>1. IsFiniteSet(Serving(tickets)) /\ IsFiniteSet(Serving(tickets'))
    BY FS_Subset, ProcessAssumption DEF Serving
  <2>2. Cardinality(Serving(tickets')) <= Cardinality(Serving(tickets))
    BY <1>2, <2>1, FS_Subset
  <2>3. /\ Cardinality(Serving(tickets)) \in Nat /\ Cardinality(Serving(tickets')) \in Nat
        /\ queue.serviceSlots \in Nat
    BY <2>1, FS_CardinalityType DEF TypeInv, TypeOK, QueueType
  <2> QED
    BY <1>1, <2>2, <2>3 DEF ServingWithinSlots
<1> QED
  BY <1>2, SlotStep

\* Nobody is served beyond the service slots, whatever promotions, requests,
\* deletions and failures interleave, unless the administrator changes them.
THEOREM SlotsKept == Spec => []ServingWithinSlots
<1>1. Init => ServingWithinSlots
  <2> SUFFICES ASSUME Init PROVE ServingWithinSlots
    OBVIOUS
  <2>1. Serving(tickets) = {}
    BY DEF Init, Serving, NoTicket
  <2>2. queue.serviceSlots \in Nat
    BY SettingsAssumption DEF Init
  <2> QED
    BY <2>1, <2>2, FS_EmptySet DEF ServingWithinSlots
<1>2. TypeInv /\ TransactionInv /\ ServingWithinSlots /\ [Next]_vars => ServingWithinSlots'
  BY ServingStep
<1> QED
  BY <1>1, <1>2, TypeInvariant, TransactionInvariant, PTL DEF Spec

-----------------------------------------------------------------------------
(* Boosts and audit records. *)

\* A row, or the columns that an update is going to write.
RowOK(r) == /\ r.priorityBoost = 1 => r.status = "WAITING"
            /\ \/ r.loggedTo = r.status
               \/ r.loggedTo = "WAITING" /\ r.status = "MISSED"

TicketInv == /\ \A u \in Users : RowOK(tickets[u]) /\ RowOK(draft[u])
             /\ \A p \in Proc : At(p, "update") => RowOK(sess[p].upd)

\* What transitionQueueUser computes for a row is consistent.
LEMMA UpdatesOK ==
    ASSUME NEW row \in Ticket, NEW event, NEW t \in Decisions(row, event),
           NEW clock \in Nat, NEW graceTime \in Nat
    PROVE  RowOK(ComputeUpdates(row, t[2], t[3], clock, graceTime))
<1>1. t \in Transitions /\ t[1] = row.status /\ t[2] = event
  BY DEF Decisions
<1>2. row.status = "LATE" /\ t[2] = "REJOIN" => t[3] = "WAITING"
  BY <1>1 DEF Transitions
<1> QED
  BY <1>2 DEF ComputeUpdates, RowOK

\* Writing consistent columns over a ticket makes it consistent.
LEMMA RowOKApplied ==
    ASSUME NEW row \in Ticket, NEW upd \in Updates, RowOK(upd)
    PROVE  RowOK(ApplyUpdates(row, upd))
  BY DEF RowOK, ApplyUpdates, Ticket, Updates, Keep

LEMMA WritesOK ==
    ASSUME TypeInv, TransactionInv, TicketInv, NEW p \in Proc, NEW u \in Users, Writes(p, u)
    PROVE  RowOK(draft'[u])
<1>0. /\ sess[p] \in Session /\ tickets[u] \in Ticket /\ draft \in [Users -> Ticket]
      /\ sess[p].user = u
  BY DEF TypeInv, TypeOK, Writes
<1>1. CASE UpdateTicket(p)
  <2>1. draft'[u] = ApplyUpdates(tickets[u], sess[p].upd)
    BY <1>0, <1>1 DEF UpdateTicket, Write
  <2>2. sess[p].upd \in Updates /\ RowOK(sess[p].upd)
    BY <1>0, <1>1 DEF Session, UpdateTicket, TicketInv
  <2> QED
    BY <1>0, <2>1, <2>2, RowOKApplied
<1>2. CASE InsertTicket(p)
  <2>1. draft'[u] = [NoTicket EXCEPT !.status = "WAITING", !.joinedAt = sess[p].stamp,
                                     !.loggedTo = "WAITING"]
    BY <1>0, <1>2 DEF InsertTicket, Write
  <2> QED
    BY <2>1 DEF NoTicket, RowOK
<1>3. CASE Serve(p)
  <2> DEFINE upd == ComputeUpdates(tickets[u], "SERVE", "SERVING", now, queue.graceTime)
  <2>1. draft'[u] = ApplyUpdates(tickets[u], upd)
    BY <1>0, <1>3 DEF Serve, Write
  <2>2. upd \in Updates
    BY <1>0, ComputeUpdatesType DEF Status, TypeInv, TypeOK, QueueType
  <2>3. RowOK(upd)
    BY DEF ComputeUpdates, RowOK
  <2> QED
    BY <1>0, <2>1, <2>2, <2>3, RowOKApplied
<1> QED
  BY <1>1, <1>2, <1>3 DEF Writes

\* Only ReadTicket brings a process to its UPDATE.
LEMMA UpdateReached ==
    ASSUME TypeInv, [Next]_vars, NEW p \in Proc, At(p, "update")'
    PROVE  sess'[p] = sess[p] \/ ReadTicket(p)
<1>s. sess[p] \in Session /\ sess'[p].pc = "update" /\ Idle.pc = "idle"
  BY DEF TypeInv, TypeOK, At, Idle
<1>1. Transition(p) => ReadTicket(p)
  BY <1>s, Continues DEF Transition
<1>2. ~Promotion(p) /\ ~Deletion(p)
  BY <1>s, Continues DEF Promotion, Deletion
<1> QED
  BY <1>s, <1>1, <1>2, Starts, OwnSteps

LEMMA TicketStep ==
    ASSUME TypeInv, TransactionInv, TicketInv, [Next]_vars
    PROVE  TicketInv'
<1>1. ASSUME NEW u \in Users PROVE RowOK(tickets'[u]) /\ RowOK(draft'[u])
  <2>1. RowOK(NoTicket)
    BY DEF RowOK, NoTicket
  <2> QED
    BY <2>1, RowSources, WritesOK DEF TicketInv
<1>2. ASSUME NEW p \in Proc, At(p, "update")' PROVE RowOK(sess'[p].upd)
  <2>1. CASE sess'[p] = sess[p]
    BY <1>2, <2>1 DEF TicketInv, At
  <2>2. CASE ReadTicket(p)
    <3> DEFINE row == tickets[sess[p].user]
    <3>1. row \in Ticket
      BY <2>2 DEF ReadTicket, At, RequestPc, TypeInv, TypeOK, UserKnown
    <3>2. PICK t \in Decisions(row, sess[p].event) :
             sess' = [sess EXCEPT ![p].pc = "update",
                                  ![p].seen = row.status,
                                  ![p].upd = ComputeUpdates(row, t[2], t[3], now, queue.graceTime)]
      BY <2>2 DEF ReadTicket
    <3>3. sess'[p].upd = ComputeUpdates(row, t[2], t[3], now, queue.graceTime)
      BY <3>2 DEF TypeInv, TypeOK, Session
    <3> QED
      BY <3>1, <3>3, UpdatesOK DEF TypeInv, TypeOK, QueueType
  <2> QED
    BY <1>2, <2>1, <2>2, UpdateReached
<1> QED
  BY <1>1, <1>2 DEF TicketInv, RowOK

\* Committed and uncommitted rows, and the updates that are about to be
\* written, are consistent.
THEOREM TicketInvariant == Spec => []TicketInv
<1>1. Init => TicketInv
  BY DEF Init, TicketInv, RowOK, NoTicket, At, Idle
<1>2. TypeInv /\ TransactionInv /\ TicketInv /\ [Next]_vars => TicketInv'
  BY TicketStep
<1> QED
  BY <1>1, <1>2, TypeInvariant, TransactionInvariant, PTL DEF Spec

\* Only a waiting ticket has a boost: every transition of any request, worker
\* or promotion, on whatever version of the row it decided, resets it.
THEOREM BoostEnds == Spec => []BoostOnlyWaiting
<1>1. TicketInv => BoostOnlyWaiting
  BY DEF TicketInv, RowOK, BoostOnlyWaiting
<1> QED
  BY <1>1, TicketInvariant, PTL

\* The newest audit record explains the status of every ticket, although the
\* record is written from a decision that other requests may overtake.
THEOREM AuditRecordsExplain == Spec => []AuditExplains
<1>1. TicketInv => AuditExplains
  BY DEF TicketInv, RowOK, AuditExplains
<1> QED
  BY <1>1, TicketInvariant, PTL

-----------------------------------------------------------------------------
(* The order of promotion. *)

\* A process keeps the rows it wrote until its transaction ends.
LEMMA RowsKept ==
    ASSUME TypeInv, [Next]_vars, NEW p \in Proc, NEW u \in Users, rowLock[u] = p
    PROVE  \/ rowLock'[u] = p /\ draft'[u] = draft[u]
           \/ sess'[p] = Idle
           \/ CommitRequest(p) \/ FinishPromotion(p)
<1> DEFINE Kept == \/ rowLock'[u] = p /\ draft'[u] = draft[u]
                   \/ sess'[p] = Idle
                   \/ CommitRequest(p) \/ FinishPromotion(p)
<1>n. /\ Nobody \notin Proc /\ draft \in [Users -> Ticket] /\ rowLock \in [Users -> Proc \cup {Nobody}]
      /\ sess \in [Proc -> Session]
  BY ProcessAssumption DEF TypeInv, TypeOK
<1>1. UNCHANGED <<draft, rowLock>> => Kept
  OBVIOUS
<1>2. ASSUME NEW q \in Proc, q # p, CommitTx(q) \/ Rollback(q) PROVE Kept
  BY <1>2 DEF CommitTx, Rollback, Unlock
<1>3. StopServer => Kept
  BY DEF StopServer
<1>4. ASSUME NEW q \in Proc, Abort(q) PROVE Kept
  <2>1. CASE Uncaught(q)
    BY <1>3, <1>4, <2>1 DEF Abort
  <2>2. CASE ~Uncaught(q) /\ q = p
    BY <1>4, <1>n, <2>2 DEF Abort
  <2>3. CASE ~Uncaught(q) /\ q # p
    BY <1>2, <1>4, <2>3 DEF Abort
  <2> QED
    BY <2>1, <2>2, <2>3
<1>5. ASSUME NEW q \in Proc, DeleteCascade(q) PROVE Kept
  <2>1. CASE q = p
    BY <1>5, <1>n, <2>1 DEF DeleteCascade
  <2>2. CASE q # p
    BY <1>5, <1>n, <2>2 DEF DeleteCascade, Unlock
  <2> QED
    BY <2>1, <2>2
<1>6. ASSUME NEW q \in Proc, UpdateTicket(q) \/ InsertTicket(q) \/ Serve(q) PROVE Kept
  <2>1. PICK row : Write(q, sess[q].user, row) /\ rowLock[sess[q].user] = Nobody
    BY <1>6 DEF UpdateTicket, InsertTicket, Serve
  <2> QED
    BY <1>n, <2>1 DEF Write
<1>7. ASSUME NEW q \in Proc, RequestRejected(q) PROVE Kept
  <2>1. q # p => Kept
    BY <1>2, <1>7 DEF RequestRejected
  <2>2. sess'[q] = Idle
    BY <1>7, <1>n DEF RequestRejected
  <2> QED
    BY <2>1, <2>2
<1>8. ASSUME NEW q \in Proc, CommitRequest(q) \/ FinishPromotion(q) PROVE Kept
  BY <1>2, <1>8 DEF CommitRequest, FinishPromotion
<1>9. ASSUME NEW q \in Proc, Step(q) PROVE Kept
  <2>1. Transition(q) => Kept
    BY <1>1, <1>6, <1>7, <1>8 DEF Transition, CheckCapacity, CheckExisting, ReadTicket,
       LogEvent, locks
  <2>2. Promotion(q) => Kept
    BY <1>1, <1>6, <1>8 DEF Promotion, LockQueue, QueueGone, CountServing, SelectCandidate,
       NobodyWaits, locks
  <2>3. Deletion(q) => Kept
    BY <1>1, <1>5 DEF Deletion, DeleteLock
  <2> QED
    BY <1>4, <1>9, <2>1, <2>2, <2>3 DEF Step, DeadlockVictim
<1>10. (\E q \in Handlers : UpdateQueue(q) \/ DeleteQueue(q) \/ \E w \in Users : Request(q, w))
         => Kept
  BY <1>1 DEF UpdateQueue, DeleteQueue, Request, JoinQueue, LeaveQueue, RemoveQueueUser,
     MarkComplete, MarkLate, LateRejoin, LateArrived, Receive, locks
<1>11. (\E w \in Users : StartExpiryJob(w)) \/ PickPromoteJob \/ JobDone \/ Tick \/ Terminating
           \/ UNCHANGED vars => Kept
  BY <1>1 DEF StartExpiryJob, PickPromoteJob, JobDone, Tick, Terminating, vars, locks
<1>12. (\E q \in Proc : Timeout(q)) \/ Restart => Kept
  BY <1>3, <1>4 DEF Timeout, Restart
<1> HIDE DEF Kept
<1>13. Kept
  BY <1>9, <1>10, <1>11, <1>12 DEF Next
<1> QED
  BY <1>13 DEF Kept

\* While p promotes, only p moves, and it changes what it sees by serving.
LEMMA PromotionAlone ==
    ASSUME TypeInv, TransactionInv, [Next]_vars, NEW p \in Proc, Promoting(p), Promoting(p)'
    PROVE  /\ UNCHANGED <<queue, tickets>>
           /\ \A u \in Users :
                 View(p)'[u] = View(p)[u] \/ (Serve(p) /\ sess[p].user = u /\ rowLock'[u] = p)
           /\ \A u \in Users : rowLock[u] = p => rowLock'[u] = p
           /\ \A u \in Users : rowLock'[u] = p => rowLock[u] = p \/ (Serve(p) /\ sess[p].user = u)
<1>s. /\ sess[p].pc \in {"count", "select", "serve", "finish"} /\ sess[p] \in Session
      /\ sess'[p].pc \in {"count", "select", "serve", "finish"}
      /\ Idle.pc = "idle"
  BY DEF Promoting, TypeInv, TypeOK, Idle
<1>1. ~FinishPromotion(p) /\ sess'[p] # Idle
  BY <1>s, Continues
<1>2. ~CommitRequest(p) /\ ~UpdateTicket(p) /\ ~InsertTicket(p) /\ ~DeleteCascade(p)
  BY <1>s DEF CommitRequest, UpdateTicket, InsertTicket, DeleteCascade, At
<1>3. UNCHANGED <<queue, tickets>>
  <2>1. ASSUME NEW q \in Proc, q # p
        PROVE  ~CommitRequest(q) /\ ~FinishPromotion(q) /\ ~DeleteCascade(q)
    BY <2>1, Exclusion
    DEF TransactionInv, CommitRequest, FinishPromotion, DeleteCascade, Promoting, At
  <2>2. \A q \in Handlers : ~UpdateQueue(q)
    BY ProcessAssumption DEF UpdateQueue, TransactionInv, LockInv
  <2> QED
    BY <1>1, <1>2, <2>1, <2>2, CommittedChanges
<1>4. ASSUME NEW u \in Users
      PROVE  /\ rowLock[u] = p => rowLock'[u] = p /\ draft'[u] = draft[u]
             /\ rowLock'[u] = p => rowLock[u] = p \/ (Serve(p) /\ sess[p].user = u)
  <2>1. rowLock[u] = p => rowLock'[u] = p /\ draft'[u] = draft[u]
    BY <1>1, <1>2, RowsKept
  <2>2. rowLock'[u] = p => rowLock[u] = p \/ Writes(p, u)
    BY RowSources
  <2> QED
    BY <1>2, <2>1, <2>2 DEF Writes
<1>5. ASSUME NEW u \in Users
      PROVE  View(p)'[u] = View(p)[u] \/ (Serve(p) /\ sess[p].user = u /\ rowLock'[u] = p)
  BY <1>3, <1>4 DEF View
<1> QED
  BY <1>3, <1>4, <1>5

\* What the order of promotions rests on: nobody who is visible to a promotion
\* as waiting is ahead of those it selected and served.
OrderInv ==
    /\ \A p \in Proc : At(p, "serve") => sess[p].user \in Candidates(View(p))
    /\ \A p \in Proc, u, w \in Users :
          Promoting(p) /\ rowLock[u] = p /\ View(p)[w].status = "WAITING"
              => ~Ahead(tickets[w], tickets[u])

\* How a process comes to serve a candidate, and to promote.
LEMMA PromotionReached ==
    ASSUME TypeInv, [Next]_vars, NEW p \in Proc
    PROVE  /\ At(p, "serve")' => sess'[p] = sess[p] \/ SelectCandidate(p)
           /\ Promoting(p)' => Promoting(p) \/ LockQueue(p)
<1>s. sess[p] \in Session /\ Idle.pc = "idle"
  BY DEF TypeInv, TypeOK, Idle
<1>1. /\ Transition(p) => sess'[p].pc \notin {"count", "select", "serve", "finish"}
      /\ Deletion(p) => sess'[p].pc \notin {"count", "select", "serve", "finish"}
  BY <1>s, Continues DEF Transition, Deletion
<1>2. /\ Promotion(p) /\ sess'[p].pc = "serve" => SelectCandidate(p)
      /\ Promotion(p) => Promoting(p) \/ LockQueue(p) \/ QueueGone(p)
      /\ QueueGone(p) => sess'[p].pc \notin {"count", "select", "serve", "finish"}
  <2>1. Promotion(p) /\ sess'[p].pc = "serve" => SelectCandidate(p)
    BY <1>s, Continues DEF Promotion
  <2>2. Promotion(p) => Promoting(p) \/ LockQueue(p) \/ QueueGone(p)
    BY DEF Promotion, Promoting, CountServing, SelectCandidate, NobodyWaits, Serve,
       FinishPromotion, At
  <2>3. QueueGone(p) => sess'[p].pc \notin {"count", "select", "serve", "finish"}
    BY <1>s, Continues
  <2> QED
    BY <2>1, <2>2, <2>3
<1> QED
  BY <1>s, <1>1, <1>2, Starts, OwnSteps DEF At, Promoting

LEMMA OrderStep ==
    ASSUME TypeInv, TransactionInv, TransactionInv', OrderInv, [Next]_vars
    PROVE  OrderInv'
<1>1. ASSUME NEW p \in Proc, At(p, "serve")'
      PROVE  sess'[p].user \in Candidates(View(p)')
  <2>0. Promoting(p)'
    BY <1>1 DEF At, Promoting
  <2>1. CASE sess'[p] = sess[p]
    <3>1. At(p, "serve") /\ Promoting(p)
      BY <1>1, <2>1 DEF At, Promoting
    <3>2. ~Serve(p)
      BY <2>1, <3>1, Continues DEF At
    <3>3. View(p)' = View(p)
      BY <2>0, <3>1, <3>2, PromotionAlone DEF View
    <3> QED
      BY <2>1, <3>1, <3>3 DEF OrderInv
  <2>2. CASE SelectCandidate(p)
    <3>1. View(p)' = View(p)
      BY <2>2 DEF SelectCandidate, View, locks
    <3>2. sess'[p].user \in Candidates(View(p))
      BY <2>2 DEF SelectCandidate, TypeInv, TypeOK, Session
    <3> QED
      BY <3>1, <3>2
  <2> QED
    BY <1>1, <2>1, <2>2, PromotionReached
<1>2. ASSUME NEW p \in Proc, NEW u \in Users, NEW w \in Users,
             Promoting(p)', rowLock'[u] = p, View(p)'[w].status = "WAITING"
      PROVE  ~Ahead(tickets'[w], tickets'[u])
  <2>1. CASE LockQueue(p)
    <3>1. rowLock[u] = p /\ At(p, "lock")
      BY <1>2, <2>1 DEF LockQueue
    <3> QED
      BY <3>1 DEF TransactionInv, RowInv, Promoting, At
  <2>2. CASE Promoting(p)
    <3>1. tickets' = tickets
      BY <1>2, <2>2, PromotionAlone
    <3>2. \A v \in Users : rowLock'[v] = p => draft'[v].status = "SERVING"
      BY <1>2 DEF TransactionInv, RowInv, Promoting
    <3>3. rowLock'[w] # p
      BY <1>2, <3>2 DEF View
    <3>4. rowLock[w] # p /\ View(p)[w] = tickets[w] /\ tickets[w].status = "WAITING"
      BY <1>2, <2>2, <3>1, <3>3, PromotionAlone DEF View
    <3>5. CASE rowLock[u] = p
      BY <2>2, <3>1, <3>4, <3>5 DEF OrderInv
    <3>6. CASE Serve(p) /\ sess[p].user = u
      <4>1. At(p, "serve") /\ rowLock[u] = Nobody /\ u \in Candidates(View(p))
        BY <3>6 DEF Serve, OrderInv
      <4>2. View(p)[u] = tickets[u]
        BY <4>1, ProcessAssumption DEF View
      <4>3. ~Ahead(View(p)[w], View(p)[u])
        BY <3>4, <4>1 DEF Candidates, View
      <4> QED
        BY <3>1, <3>4, <4>2, <4>3
    <3> QED
      BY <1>2, <2>2, <3>5, <3>6, PromotionAlone
  <2> QED
    BY <1>2, <2>1, <2>2, PromotionReached
<1> QED
  BY <1>1, <1>2 DEF OrderInv

LEMMA OrderKept ==
    ASSUME TypeInv, TransactionInv, OrderInv, [Next]_vars, NEW u \in Users, NEW w \in Users,
           tickets[u].status = "WAITING", tickets'[u].status = "SERVING",
           tickets[w].status = "WAITING", tickets'[w].status = "WAITING"
    PROVE  ~Ahead(tickets[w], tickets[u])
<1>1. ASSUME NEW p \in Proc PROVE ~CommitRequest(p) /\ ~DeleteCascade(p)
  <2>1. ~CommitRequest(p)
    BY RequestMoves DEF Lifecycle!Edges
  <2>2. ~DeleteCascade(p)
    BY DEF DeleteCascade, NoTicket
  <2> QED
    BY <2>1, <2>2
<1>2. \A p \in Handlers : ~UpdateQueue(p)
  BY DEF UpdateQueue
<1>3. PICK p \in Proc : FinishPromotion(p)
  BY <1>1, <1>2, CommittedChanges
<1>4. Promoting(p) /\ tickets' = View(p)
  BY <1>3 DEF FinishPromotion, CommitTx, Promoting, At
<1>5. rowLock[u] = p
  BY <1>4 DEF View
<1> QED
  BY <1>4, <1>5 DEF OrderInv

\* No waiting ticket is passed over by a promotion, in the order of the rows
\* at its commit, whatever requests change them while it selects and serves.
THEOREM OrderOfPromotion == Spec => PromotionOrder
<1>1. Init => OrderInv
  BY DEF Init, OrderInv, At, Promoting, Idle
<1>2. TypeInv /\ TransactionInv /\ TransactionInv' /\ OrderInv /\ [Next]_vars => OrderInv'
  BY OrderStep
<1>3. TypeInv /\ TransactionInv /\ OrderInv /\ [Next]_vars
        => [\A u, w \in Users :
              /\ tickets[u].status = "WAITING" /\ tickets'[u].status = "SERVING"
              /\ tickets[w].status = "WAITING" /\ tickets'[w].status = "WAITING"
              => ~Ahead(tickets[w], tickets[u])]_vars
  BY OrderKept
<1> QED
  BY <1>1, <1>2, <1>3, TypeInvariant, TransactionInvariant, PTL DEF Spec, PromotionOrder
=============================================================================
