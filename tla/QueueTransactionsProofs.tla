---------------------- MODULE QueueTransactionsProofs ----------------------
(***************************************************************************)
(* Theorems about QueueTransactions for any users, handlers and bounds.    *)
(***************************************************************************)
EXTENDS QueueGuarantees, FiniteSetTheorems, TLAPS

-----------------------------------------------------------------------------
(* Types of the operators of the state machine. *)

\* The updates computed for a legal transition are well typed.
LEMMA ComputeUpdatesType ==
    ASSUME NEW qu \in Ticket, NEW event, NEW next \in Status,
           NEW clock \in Nat, NEW graceTime \in Nat
    PROVE  ComputeUpdates(qu, event, next, clock, graceTime) \in Updates
  BY DEF ComputeUpdates, Updates, Ticket, Status, AnyStatus, NoExpiry, Keep, CheckIfMissed

\* Writing well-typed updates over a ticket gives a ticket with their status.
LEMMA ApplyUpdatesType ==
    ASSUME NEW row \in Ticket, NEW upd \in Updates
    PROVE  /\ ApplyUpdates(row, upd) \in Ticket
           /\ ApplyUpdates(row, upd).status = upd.status
  BY DEF ApplyUpdates, Updates, Ticket, Keep

\* The decisions for a row are transitions between statuses.
LEMMA DecisionsType ==
    ASSUME NEW row, NEW event, NEW t \in Decisions(row, event)
    PROVE  t[3] \in Status
  BY DEF Decisions, Transitions, Status

LEMMA Constants ==
    /\ NoTicket \in Ticket
    /\ NoUpdates \in Updates
    /\ Idle \in Session
    /\ NoJob \in Job
  BY DEF NoTicket, Ticket, NoUpdates, Updates, Idle, Session, NoJob, Job, AnyStatus,
         NoExpiry, Keep, Pc, SessionEvents

\* Moving to another program counter keeps the type of the sessions.
LEMMA GotoType ==
    ASSUME NEW p \in Proc, NEW pc \in Pc, sess \in [Proc -> Session], Goto(p, pc)
    PROVE  sess' \in [Proc -> Session]
  BY DEF Goto, Session

\* The end of a transaction keeps the types of rows and locks.
LEMMA EndOfTransactionType ==
    ASSUME TypeOK, NEW p \in Proc, CommitTx(p) \/ Rollback(p)
    PROVE  /\ tickets' \in [Users -> Ticket]
           /\ draft' \in [Users -> Ticket]
           /\ rowLock' \in [Users -> Proc \cup {Nobody}]
           /\ queueLock' \in Proc \cup {Nobody}
           /\ keyShare' \in SUBSET Proc
  BY DEF TypeOK, CommitTx, Rollback, Unlock, View

\* A write keeps the types of rows and locks.
LEMMA WriteType ==
    ASSUME TypeOK, NEW p \in Proc, NEW u \in Users, NEW row \in Ticket, Write(p, u, row)
    PROVE  /\ draft' \in [Users -> Ticket]
           /\ rowLock' \in [Users -> Proc \cup {Nobody}]
  BY DEF TypeOK, Write

LEMMA StopServerType ==
    ASSUME TypeOK, StopServer
    PROVE  /\ queue' \in QueueType
           /\ tickets' \in [Users -> Ticket]
           /\ draft' \in [Users -> Ticket]
           /\ rowLock' \in [Users -> Proc \cup {Nobody}]
           /\ queueLock' \in Proc \cup {Nobody}
           /\ keyShare' \in SUBSET Proc
           /\ sess' \in [Proc -> Session]
           /\ promoteJob' \in Job
  BY Constants DEF TypeOK, StopServer, Job

-----------------------------------------------------------------------------
(* Type correctness. *)

\* A transition, and the promotion of a candidate, are about some user.
UserKnown ==
    \A p \in Proc : sess[p].pc \in RequestPc \cup {"serve"} => sess[p].user \in Users

TypeInv == TypeOK /\ UserKnown

LEMMA TypeInit == Init => TypeInv
<1> SUFFICES ASSUME Init PROVE TypeInv
  OBVIOUS
<1>1. queue \in QueueType
  BY SettingsAssumption DEF Init, QueueType
<1>2. TypeOK
  BY <1>1, Constants, BoundsAssumption DEF Init, TypeOK
<1>3. UserKnown
  BY DEF Init, UserKnown, Idle, RequestPc
<1> QED
  BY <1>2, <1>3 DEF TypeInv

LEMMA ReceiveType ==
    ASSUME TypeInv, NEW p \in Handlers, NEW u \in Users, Request(p, u)
    PROVE  TypeInv'
<1>1. PICK op \in OperationKinds, pc \in {"capacity", "read"},
           event \in Events \cup {"JOIN"} : Receive(p, op, pc, event, u)
  BY DEF Request, JoinQueue, LeaveQueue, RemoveQueueUser, MarkComplete, MarkLate,
         LateRejoin, LateArrived, OperationKinds, Events
<1>2. p \in Proc
  BY DEF Proc
<1>3. [Idle EXCEPT !.pc = pc, !.event = event, !.user = u] \in Session
  BY Constants DEF Session, Pc, RequestPc, SessionEvents
<1>4. TypeOK'
  BY <1>1, <1>2, <1>3 DEF TypeInv, TypeOK, Receive, locks
<1>5. UserKnown'
  BY <1>1, <1>2 DEF TypeInv, TypeOK, UserKnown, Receive, Idle
<1> QED
  BY <1>4, <1>5 DEF TypeInv

LEMMA TransitionType ==
    ASSUME TypeInv, NEW p \in Proc, Transition(p)
    PROVE  TypeInv'
<1> USE DEF TypeInv
<1> DEFINE u == sess[p].user
<1>u. sess[p] \in Session /\ (sess[p].pc \in RequestPc => u \in Users)
  BY DEF TypeOK, UserKnown
<1>1. CASE CheckCapacity(p)
  <2>1. Goto(p, "existing")
    BY <1>1 DEF CheckCapacity
  <2>2. sess' \in [Proc -> Session]
    BY <2>1, GotoType DEF TypeOK, Pc, RequestPc
  <2>3. TypeOK'
    BY <1>1, <2>2 DEF TypeOK, CheckCapacity, locks, env
  <2>4. UserKnown'
    BY <1>1, <2>1, <1>u DEF TypeOK, UserKnown, CheckCapacity, At, Goto, RequestPc
  <2> QED
    BY <2>3, <2>4
<1>2. CASE CheckExisting(p)
  <2>1. PICK pc \in {"read", "insert"}, event \in {"REJOIN", sess[p].event}, stamp \in Nat :
           sess' = [sess EXCEPT ![p] = [sess[p] EXCEPT !.pc = pc, !.event = event,
                                                       !.stamp = stamp]]
    <3>1. CASE sess' = [sess EXCEPT ![p].pc = "read", ![p].event = "REJOIN"]
      <4>1. sess[p].stamp \in Nat
        BY <1>u DEF Session
      <4>2. sess' = [sess EXCEPT ![p] = [sess[p] EXCEPT !.pc = "read", !.event = "REJOIN",
                                                        !.stamp = sess[p].stamp]]
        BY <3>1, <1>u DEF TypeOK, Session
      <4> QED
        BY <4>1, <4>2
    <3>2. CASE sess' = [sess EXCEPT ![p].pc = "insert", ![p].stamp = now]
      <4>1. sess' = [sess EXCEPT ![p] = [sess[p] EXCEPT !.pc = "insert", !.event = sess[p].event,
                                                        !.stamp = now]]
        BY <3>2, <1>u DEF TypeOK, Session
      <4> QED
        BY <4>1 DEF TypeOK
    <3> QED
      BY <1>2, <3>1, <3>2 DEF CheckExisting
  <2>2. [sess[p] EXCEPT !.pc = pc, !.event = event, !.stamp = stamp] \in Session
    BY <1>u DEF Session, Pc, RequestPc, SessionEvents, Events
  <2>3. TypeOK'
    BY <1>2, <2>1, <2>2 DEF TypeOK, CheckExisting, locks, env
  <2>4. UserKnown'
    BY <1>2, <2>1, <1>u DEF TypeOK, UserKnown, CheckExisting, At, RequestPc, Session
  <2> QED
    BY <2>3, <2>4
<1>3. CASE ReadTicket(p)
  <2> DEFINE row == tickets[u]
  <2>0. u \in Users /\ row \in Ticket
    BY <1>3, <1>u DEF ReadTicket, At, RequestPc, TypeOK
  <2>1. PICK t \in Decisions(row, sess[p].event) :
           sess' = [sess EXCEPT ![p].pc = "update",
                                ![p].seen = row.status,
                                ![p].upd = ComputeUpdates(row, t[2], t[3], now, queue.graceTime)]
    BY <1>3 DEF ReadTicket
  <2>2. ComputeUpdates(row, t[2], t[3], now, queue.graceTime) \in Updates
    BY <2>0, ComputeUpdatesType, DecisionsType DEF TypeOK, QueueType
  <2>3. sess' \in [Proc -> Session]
    BY <2>0, <2>1, <2>2, <1>u DEF TypeOK, Session, Pc, RequestPc, Ticket
  <2>4. TypeOK'
    BY <1>3, <2>3 DEF TypeOK, ReadTicket, locks, env
  <2>5. UserKnown'
    BY <2>0, <2>1 DEF TypeOK, UserKnown, Session
  <2> QED
    BY <2>4, <2>5
<1>4. CASE UpdateTicket(p)
  <2>0. u \in Users
    BY <1>4, <1>u DEF UpdateTicket, At, RequestPc
  <2>1. ApplyUpdates(tickets[u], sess[p].upd) \in Ticket
    BY <2>0, <1>u, ApplyUpdatesType DEF TypeOK, Session
  <2>2. draft' \in [Users -> Ticket] /\ rowLock' \in [Users -> Proc \cup {Nobody}]
    BY <1>4, <2>0, <2>1, WriteType DEF UpdateTicket
  <2>3. Goto(p, "log")
    BY <1>4 DEF UpdateTicket
  <2>4. sess' \in [Proc -> Session]
    BY <2>3, GotoType DEF TypeOK, Pc, RequestPc
  <2>5. TypeOK'
    BY <1>4, <2>2, <2>4 DEF TypeOK, UpdateTicket, env
  <2>6. UserKnown'
    BY <2>0, <2>3 DEF TypeOK, UserKnown, Goto, Session
  <2> QED
    BY <2>5, <2>6
<1>5. CASE InsertTicket(p)
  <2>0. u \in Users
    BY <1>5, <1>u DEF InsertTicket, At, RequestPc
  <2>1. [NoTicket EXCEPT !.status = "WAITING", !.joinedAt = sess[p].stamp,
                         !.loggedTo = "WAITING"] \in Ticket
    <3>1. sess[p].stamp \in Nat
      BY <1>u DEF Session
    <3> QED
      BY <3>1, Constants DEF Ticket, AnyStatus, Status
  <2>2. draft' \in [Users -> Ticket] /\ rowLock' \in [Users -> Proc \cup {Nobody}]
    BY <1>5, <2>0, <2>1, WriteType DEF InsertTicket
  <2>3. Goto(p, "log")
    BY <1>5 DEF InsertTicket
  <2>4. sess' \in [Proc -> Session]
    BY <2>3, GotoType DEF TypeOK, Pc, RequestPc
  <2>5. TypeOK'
    BY <1>5, <2>2, <2>4 DEF TypeOK, InsertTicket, env
  <2>6. UserKnown'
    BY <2>0, <2>3 DEF TypeOK, UserKnown, Goto, Session
  <2> QED
    BY <2>5, <2>6
<1>6. CASE LogEvent(p)
  <2>1. Goto(p, "commit") /\ u \in Users
    BY <1>6, <1>u DEF LogEvent, At, RequestPc
  <2>2. sess' \in [Proc -> Session]
    BY <2>1, GotoType DEF TypeOK, Pc, RequestPc
  <2>3. promoteJob' \in Job /\ faults' \in Nat
    BY <1>6 DEF TypeOK, LogEvent, AddJob, Job
  <2>4. TypeOK'
    BY <1>6, <2>2, <2>3 DEF TypeOK, LogEvent
  <2>5. UserKnown'
    BY <2>1 DEF TypeOK, UserKnown, Goto, Session
  <2> QED
    BY <2>4, <2>5
<1>7. CASE CommitRequest(p)
  <2>1. CommitTx(p) /\ sess' = [sess EXCEPT ![p] = AfterCommit(p)]
    BY <1>7 DEF CommitRequest
  <2>2. AfterCommit(p) \in Session /\ AfterCommit(p).pc \in {"lock", "idle"}
    BY <1>u, Constants DEF AfterCommit, Session, Pc, PromotionPc, Idle
  <2>3. TypeOK'
    BY <1>7, <2>1, <2>2, EndOfTransactionType DEF TypeOK, CommitRequest, env
  <2>4. UserKnown'
    BY <2>1, <2>2 DEF TypeOK, UserKnown, RequestPc
  <2> QED
    BY <2>3, <2>4
<1>8. CASE RequestRejected(p)
  <2>1. Rollback(p) /\ sess' = [sess EXCEPT ![p] = Idle]
    BY <1>8 DEF RequestRejected
  <2>3. TypeOK'
    BY <1>8, <2>1, Constants, EndOfTransactionType DEF TypeOK, RequestRejected, env
  <2>4. UserKnown'
    BY <2>1 DEF TypeOK, UserKnown, RequestPc, Idle
  <2> QED
    BY <2>3, <2>4
<1> QED
  BY <1>1, <1>2, <1>3, <1>4, <1>5, <1>6, <1>7, <1>8 DEF Transition

LEMMA PromotionType ==
    ASSUME TypeInv, NEW p \in Proc, Promotion(p)
    PROVE  TypeInv'
<1> USE DEF TypeInv
<1>s. sess[p] \in Session
  BY DEF TypeOK
<1>a. AfterPromotion(p) \in Session /\ AfterPromotion(p).pc \in {"ack", "idle"}
  BY Constants DEF AfterPromotion, Idle, Session, Pc
<1>1. CASE LockQueue(p)
  <2>1. [Idle EXCEPT !.pc = "count", !.event = sess[p].event] \in Session
    BY <1>s, Constants DEF Session, Pc, PromotionPc
  <2>2. TypeOK'
    BY <1>1, <2>1 DEF TypeOK, LockQueue, env
  <2>3. UserKnown'
    BY <1>1 DEF TypeOK, UserKnown, LockQueue, Idle, RequestPc
  <2> QED
    BY <2>2, <2>3
<1>2. CASE QueueGone(p)
  <2>1. TypeOK'
    BY <1>2, <1>a DEF TypeOK, QueueGone, env, locks
  <2>2. UserKnown'
    BY <1>2, <1>a DEF TypeOK, UserKnown, QueueGone, RequestPc
  <2> QED
    BY <2>1, <2>2
<1>3. ASSUME NEW pc \in {"select", "finish"}, Goto(p, pc),
             UNCHANGED <<queue, tickets, draft, locks, promoteJob, env, crashed>>
      PROVE  TypeInv'
  <2>1. sess' \in [Proc -> Session]
    BY <1>3, GotoType DEF TypeOK, Pc, PromotionPc
  <2>2. TypeOK'
    BY <1>3, <2>1 DEF TypeOK, locks, env
  <2>3. UserKnown'
    BY <1>3 DEF TypeOK, UserKnown, Goto, RequestPc
  <2> QED
    BY <2>2, <2>3
<1>4. CASE CountServing(p)
  BY <1>3, <1>4 DEF CountServing
<1>5. CASE SelectCandidate(p)
  <2>1. PICK u \in Candidates(View(p)) :
           sess' = [sess EXCEPT ![p].pc = "serve", ![p].user = u, ![p].seen = "WAITING"]
    BY <1>5 DEF SelectCandidate
  <2>2. u \in Users
    BY DEF Candidates, View
  <2>3. sess' \in [Proc -> Session]
    BY <2>1, <2>2, <1>s DEF TypeOK, Session, Pc, PromotionPc, AnyStatus, Status
  <2>4. TypeOK'
    BY <1>5, <2>3 DEF TypeOK, SelectCandidate, locks, env
  <2>5. UserKnown'
    BY <2>1, <2>2 DEF TypeOK, UserKnown, Session
  <2> QED
    BY <2>4, <2>5
<1>6. CASE NobodyWaits(p)
  BY <1>3, <1>6 DEF NobodyWaits
<1>7. CASE Serve(p)
  <2> DEFINE u == sess[p].user
             upd == ComputeUpdates(tickets[u], "SERVE", "SERVING", now, queue.graceTime)
  <2>0. u \in Users
    BY <1>7 DEF Serve, At, UserKnown
  <2>1. upd \in Updates
    BY <2>0, ComputeUpdatesType DEF TypeOK, Status, QueueType
  <2>2. ApplyUpdates(tickets[u], upd) \in Ticket
    BY <2>0, <2>1, ApplyUpdatesType DEF TypeOK
  <2>3. Write(p, u, ApplyUpdates(tickets[u], upd)) /\ Goto(p, "count")
    BY <1>7 DEF Serve
  <2>4. draft' \in [Users -> Ticket] /\ rowLock' \in [Users -> Proc \cup {Nobody}]
    BY <2>0, <2>2, <2>3, WriteType
  <2>5. sess' \in [Proc -> Session]
    BY <2>3, GotoType DEF TypeOK, Pc, PromotionPc
  <2>6. TypeOK'
    BY <1>7, <2>4, <2>5 DEF TypeOK, Serve, env
  <2>7. UserKnown'
    BY <2>3 DEF TypeOK, UserKnown, Goto, RequestPc
  <2> QED
    BY <2>6, <2>7
<1>8. CASE FinishPromotion(p)
  <2>1. CommitTx(p) /\ sess' = [sess EXCEPT ![p] = AfterPromotion(p)]
    BY <1>8 DEF FinishPromotion
  <2>2. TypeOK'
    BY <1>8, <1>a, <2>1, EndOfTransactionType DEF TypeOK, FinishPromotion, env
  <2>3. UserKnown'
    BY <1>a, <2>1 DEF TypeOK, UserKnown, RequestPc
  <2> QED
    BY <2>2, <2>3
<1> QED
  BY <1>1, <1>2, <1>4, <1>5, <1>6, <1>7, <1>8 DEF Promotion

LEMMA DeletionType ==
    ASSUME TypeInv, NEW p \in Proc, Deletion(p)
    PROVE  TypeInv'
<1> USE DEF TypeInv
<1>1. CASE DeleteLock(p)
  <2>1. sess' \in [Proc -> Session]
    BY <1>1, GotoType DEF DeleteLock, TypeOK, Pc, DeletePc
  <2>2. TypeOK'
    BY <1>1, <2>1 DEF TypeOK, DeleteLock, env
  <2>3. UserKnown'
    BY <1>1 DEF TypeOK, UserKnown, DeleteLock, Goto, RequestPc
  <2> QED
    BY <2>2, <2>3
<1>2. CASE DeleteCascade(p)
  <2>1. TypeOK'
    BY <1>2, Constants DEF TypeOK, DeleteCascade, Unlock, QueueType, env
  <2>2. UserKnown'
    BY <1>2 DEF TypeOK, UserKnown, DeleteCascade, Idle, RequestPc
  <2> QED
    BY <2>1, <2>2
<1> QED
  BY <1>1, <1>2 DEF Deletion

LEMMA StopServerTypeInv ==
    ASSUME TypeInv, StopServer, crashed' \in BOOLEAN, now' \in Nat, requests' \in Nat,
           faults' \in Nat
    PROVE  TypeInv'
<1>1. TypeOK'
  BY StopServerType DEF TypeInv, TypeOK
<1>2. UserKnown'
  BY DEF StopServer, UserKnown, Idle, RequestPc
<1> QED
  BY <1>1, <1>2 DEF TypeInv

LEMMA AbortType ==
    ASSUME TypeInv, NEW p \in Proc, Abort(p), now' \in Nat, requests' \in Nat, faults' \in Nat
    PROVE  TypeInv'
<1>1. CASE Uncaught(p)
  BY <1>1, StopServerTypeInv DEF Abort
<1>2. CASE ~Uncaught(p)
  <2>1. /\ Rollback(p)
        /\ sess' = [sess EXCEPT ![p] = Idle]
        /\ promoteJob' = IF p = PromoteWorker THEN RetryJob(promoteJob) ELSE promoteJob
        /\ UNCHANGED <<queue, crashed>>
    BY <1>2 DEF Abort
  <2>2. promoteJob' \in Job
    BY <2>1 DEF TypeInv, TypeOK, RetryJob, Job
  <2>3. TypeOK'
    BY <2>1, <2>2, Constants, EndOfTransactionType DEF TypeInv, TypeOK
  <2>4. UserKnown'
    BY <2>1 DEF TypeInv, TypeOK, UserKnown, Idle, RequestPc
  <2> QED
    BY <2>3, <2>4 DEF TypeInv
<1> QED
  BY <1>1, <1>2

LEMMA TypeStep == TypeInv /\ [Next]_vars => TypeInv'
<1> SUFFICES ASSUME TypeInv, [Next]_vars PROVE TypeInv'
  OBVIOUS
<1>1. CASE \E p \in Handlers, u \in Users : Request(p, u)
  BY <1>1, ReceiveType
<1>2. CASE \E p \in Handlers : UpdateQueue(p) \/ DeleteQueue(p)
  <2>1. PICK p \in Handlers : UpdateQueue(p) \/ DeleteQueue(p)
    BY <1>2
  <2>2. p \in Proc
    BY DEF Proc
  <2>3. CASE UpdateQueue(p)
    <3>1. queue' \in QueueType
      BY <2>3, SettingsAssumption DEF UpdateQueue, TypeInv, TypeOK, QueueType
    <3>2. [Idle EXCEPT !.pc = "lock", !.event = "UPDATE"] \in Session
      BY Constants DEF Session, Pc, PromotionPc, SessionEvents
    <3>3. TypeOK'
      BY <2>2, <2>3, <3>1, <3>2 DEF TypeInv, TypeOK, UpdateQueue, locks
    <3>4. UserKnown'
      BY <2>2, <2>3 DEF TypeInv, TypeOK, UserKnown, UpdateQueue, RequestPc, Idle
    <3> QED
      BY <3>3, <3>4 DEF TypeInv
  <2>4. CASE DeleteQueue(p)
    <3>1. [Idle EXCEPT !.pc = "delete", !.event = "DELETE", !.user = Nobody] \in Session
      BY Constants DEF Session, Pc, DeletePc, SessionEvents
    <3>2. TypeOK'
      BY <2>2, <2>4, <3>1 DEF TypeInv, TypeOK, DeleteQueue, Receive, locks
    <3>3. UserKnown'
      BY <2>2, <2>4 DEF TypeInv, TypeOK, UserKnown, DeleteQueue, Receive, RequestPc, Idle
    <3> QED
      BY <3>2, <3>3 DEF TypeInv
  <2> QED
    BY <2>1, <2>3, <2>4
<1>3. CASE \E p \in Proc : Step(p)
  <2>1. PICK p \in Proc : Step(p)
    BY <1>3
  <2>2. CASE DeadlockVictim(p)
    BY <2>2, AbortType DEF DeadlockVictim, env, TypeInv, TypeOK
  <2> QED
    BY <2>1, <2>2, TransitionType, PromotionType, DeletionType DEF Step
<1>4. CASE \E u \in Users : StartExpiryJob(u)
  <2>1. PICK u \in Users : StartExpiryJob(u)
    BY <1>4
  <2>2. [Idle EXCEPT !.pc = "read", !.event = "MISSED", !.user = u] \in Session
    BY Constants DEF Session, Pc, RequestPc, SessionEvents, Events
  <2>3. ExpiryWorker \in Proc
    BY DEF Proc
  <2>4. TypeOK'
    BY <2>1, <2>2, <2>3 DEF TypeInv, TypeOK, StartExpiryJob, locks, env
  <2>5. UserKnown'
    BY <2>1, <2>3 DEF TypeInv, TypeOK, UserKnown, StartExpiryJob, Idle
  <2> QED
    BY <2>4, <2>5 DEF TypeInv
<1>5. CASE PickPromoteJob
  <2>1. [Idle EXCEPT !.pc = "lock", !.event = "JOB"] \in Session
    BY Constants DEF Session, Pc, PromotionPc, SessionEvents
  <2>2. PromoteWorker \in Proc
    BY DEF Proc
  <2>3. TypeOK'
    BY <1>5, <2>1, <2>2 DEF TypeInv, TypeOK, PickPromoteJob, Job, locks, env
  <2>4. UserKnown'
    BY <1>5, <2>2 DEF TypeInv, TypeOK, UserKnown, PickPromoteJob, Idle, RequestPc
  <2> QED
    BY <2>3, <2>4 DEF TypeInv
<1>6. CASE JobDone
  <2>1. TypeOK'
    BY <1>6, Constants DEF TypeInv, TypeOK, JobDone, locks, env
  <2>2. UserKnown'
    BY <1>6 DEF TypeInv, TypeOK, UserKnown, JobDone, Idle, RequestPc
  <2> QED
    BY <2>1, <2>2 DEF TypeInv
<1>7. CASE \E p \in Proc : Timeout(p)
  BY <1>7, AbortType DEF Timeout, TypeInv, TypeOK
<1>8. CASE Restart
  BY <1>8, StopServerTypeInv DEF Restart, TypeInv, TypeOK
<1>9. CASE Tick
  BY <1>9 DEF Tick, TypeInv, TypeOK, UserKnown, locks
<1>10. CASE UNCHANGED vars
  BY <1>10 DEF vars, env, locks, TypeInv, TypeOK, UserKnown
<1>11. CASE Terminating
  BY <1>10, <1>11 DEF Terminating
<1> QED
  BY <1>1, <1>2, <1>3, <1>4, <1>5, <1>6, <1>7, <1>8, <1>9, <1>10, <1>11 DEF Next

\* Rows, locks, sessions and jobs keep their types, and a process that runs a
\* transition or serves a candidate knows its user.
THEOREM TypeInvariant == Spec => []TypeInv
  BY TypeInit, TypeStep, PTL DEF Spec

\* The type invariant that the runs check holds for any users, handlers,
\* settings and bounds.
THEOREM TypeCorrect == Spec => []TypeOK
  BY TypeInvariant, PTL DEF TypeInv
=============================================================================
