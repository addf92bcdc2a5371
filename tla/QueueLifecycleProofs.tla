----------------------- MODULE QueueLifecycleProofs ------------------------
(***************************************************************************)
(* TransactionInv is inductive; from it, promotions respect the service    *)
(* slots and QueueTransactions implements TicketLifecycle.                 *)
(***************************************************************************)
EXTENDS QueueTransactionsProofs

-----------------------------------------------------------------------------
(* How the parts of TransactionInv are preserved. *)

\* The edges of the life cycle do not depend on the state.
LEMMA EdgesConstant == Lifecycle!Edges' = Lifecycle!Edges
  BY DEF Lifecycle!Edges

\* Rows, locks and settings: what a step that only moves a session keeps.
rows == <<queue, tickets, draft, rowLock, queueLock, keyShare>>

\* The session of p moves outside a write, a commit and a lock of the queue.
LEMMA SessionStep ==
    ASSUME TypeInv, TransactionInv, NEW p \in Proc, NEW s \in Session,
           sess' = [sess EXCEPT ![p] = s], UNCHANGED rows,
           sess[p].pc \notin {"log", "commit"},
           s.pc \notin {"commit", "cascade"},
           Promoting(p) <=> s.pc \in {"count", "select", "serve", "finish"},
           s.pc \in {"capacity", "existing", "read"} => s.event # "SERVE",
           s.pc = "update" => <<s.seen, s.upd.status>> \in Lifecycle!Edges,
           s.pc = "serve" => s.seen = "WAITING" /\ tickets[s.user].status = "WAITING",
           s.pc \in {"select", "serve"}
               => Cardinality(Serving(View(p))) < queue.serviceSlots
    PROVE  TransactionInv'
<1> USE DEF TransactionInv
<1>0. /\ sess'[p] = s
      /\ \A q \in Proc \ {p} : sess'[q] = sess[q]
      /\ \A q \in Proc : View(q)' = View(q)
      /\ \A q \in Proc : Serving(View(q))' = Serving(View(q))
  BY DEF TypeInv, TypeOK, rows, View, Serving
<1>1. LockInv'
  BY <1>0 DEF LockInv, At, Promoting, rows
<1>2. SessionInv'
  BY <1>0, EdgesConstant DEF SessionInv, At, rows
<1>3. RowInv'
  BY <1>0 DEF RowInv, Promoting, rows
<1>4. CountInv'
  BY <1>0 DEF CountInv, Promoting, rows
<1> QED
  BY <1>1, <1>2, <1>3, <1>4

\* At most one process promotes or deletes, and then nobody commits a request.
LEMMA Exclusion ==
    ASSUME TypeInv, LockInv, NEW p \in Proc, NEW q \in Proc, p # q, Promoting(p)
    PROVE  ~Promoting(q) /\ ~At(q, "cascade") /\ ~At(q, "commit")
  BY ProcessAssumption DEF LockInv, Proc

\* The transaction of p ends, by a commit or a rollback.
LEMMA EndStep ==
    ASSUME TypeInv, TransactionInv, NEW p \in Proc, NEW s \in Session,
           sess' = [sess EXCEPT ![p] = s], s.pc \in {"idle", "lock", "ack"},
           Rollback(p) \/ (CommitTx(p) /\ (At(p, "commit") \/ Promoting(p))), UNCHANGED queue
    PROVE  TransactionInv'
<1> USE DEF TransactionInv
<1>0. /\ sess'[p] = s
      /\ \A q \in Proc \ {p} : sess'[q] = sess[q]
      /\ \A u \in Users : rowLock'[u] = IF rowLock[u] = p THEN Nobody ELSE rowLock[u]
      /\ queueLock' = IF queueLock = p THEN Nobody ELSE queueLock
      /\ keyShare' = keyShare \ {p}
  BY DEF TypeInv, TypeOK, Rollback, CommitTx, Unlock
<1>1. \A u \in Users : rowLock[u] # p => tickets'[u] = tickets[u] /\ draft'[u] = draft[u]
  BY DEF Rollback, CommitTx, View, TypeInv, TypeOK
<1>2. p # Nobody
  BY ProcessAssumption
<1>3. LockInv'
  BY <1>0, <1>2 DEF LockInv, At, Promoting
<1>4. SessionInv'
  <2>1. ASSUME NEW q \in Proc, At(q, "serve")'
        PROVE  q # p /\ At(q, "serve") /\ tickets' = tickets
    <3>1. q # p /\ At(q, "serve")
      BY <1>0, <2>1 DEF At
    <3>2. ~(At(p, "commit") \/ Promoting(p))
      BY <3>1, Exclusion DEF Promoting, At
    <3> QED
      BY <3>1, <3>2 DEF Rollback
  <2> QED
    BY <1>0, <2>1, EdgesConstant DEF SessionInv, At
<1>5. RowInv'
  <2> SUFFICES ASSUME NEW q \in Proc, NEW u \in Users, rowLock'[u] = q
               PROVE  \/ /\ sess'[q].pc \in {"log", "commit"}
                         /\ sess'[q].user = u
                         /\ <<tickets'[u].status, draft'[u].status>> \in Lifecycle!Edges
                      \/ /\ sess'[q].pc \in {"count", "select", "serve", "finish"}
                         /\ tickets'[u].status = "WAITING"
                         /\ draft'[u].status = "SERVING"
    BY EdgesConstant DEF RowInv, Promoting
  <2>1. rowLock[u] = q /\ q # p
    BY <1>0, ProcessAssumption
  <2>2. sess'[q] = sess[q] /\ tickets'[u] = tickets[u] /\ draft'[u] = draft[u]
    BY <1>0, <1>1, <2>1
  <2> QED
    BY <2>1, <2>2 DEF RowInv, Promoting
<1>6. ASSUME NEW q \in Proc, Promoting(q)'
      PROVE  q # p /\ Promoting(q) /\ View(q)' = View(q)
  <2>1. q # p /\ Promoting(q)
    BY <1>0, <1>6 DEF Promoting
  <2>2. Rollback(p)
    BY <2>1, Exclusion DEF At
  <2>3. ASSUME NEW u \in Users
        PROVE  (IF rowLock'[u] = q THEN draft'[u] ELSE tickets'[u])
                  = (IF rowLock[u] = q THEN draft[u] ELSE tickets[u])
    BY <1>0, <1>1, <2>1, <2>2, ProcessAssumption DEF Rollback
  <2> QED
    BY <2>1, <2>3 DEF View
<1>7. CountInv'
  <2> SUFFICES ASSUME NEW q \in Proc, Promoting(q)'
               PROVE  /\ sess'[q].pc \in {"select", "serve"}
                            => Cardinality(Serving(View(q)))' < queue'.serviceSlots
                      /\ (\E u \in Users : rowLock'[u] = q)
                            => Cardinality(Serving(View(q)))' <= queue'.serviceSlots
    BY DEF CountInv, Promoting
  <2>1. Serving(View(q))' = Serving(View(q))
    BY <1>6 DEF Serving
  <2>2. (\E u \in Users : rowLock'[u] = q) => (\E u \in Users : rowLock[u] = q)
    BY <1>0, ProcessAssumption
  <2> QED
    BY <1>0, <1>6, <2>1, <2>2 DEF CountInv, Promoting
<1> QED
  BY <1>3, <1>4, <1>5, <1>7

\* A request writes its row and goes on to log the event.
LEMMA WriteStep ==
    ASSUME TypeInv, TransactionInv, NEW p \in Proc, NEW row \in Ticket,
           sess[p].user \in Users, sess[p].pc \in {"update", "insert"},
           rowLock[sess[p].user] = Nobody,
           <<tickets[sess[p].user].status, row.status>> \in Lifecycle!Edges,
           Write(p, sess[p].user, row), Goto(p, "log"),
           UNCHANGED <<queue, tickets, queueLock>>,
           UNCHANGED keyShare \/ (queueLock = Nobody /\ keyShare' = keyShare \cup {p})
    PROVE  TransactionInv'
<1> USE DEF TransactionInv
<1> DEFINE w == sess[p].user
<1>0. /\ sess'[p].pc = "log" /\ sess'[p].user = w
      /\ \A q \in Proc \ {p} : sess'[q] = sess[q]
      /\ draft'[w] = row /\ rowLock'[w] = p
      /\ \A u \in Users \ {w} : draft'[u] = draft[u] /\ rowLock'[u] = rowLock[u]
  BY DEF TypeInv, TypeOK, Session, Goto, Write
<1>1. LockInv'
  BY <1>0 DEF LockInv, At, Promoting
<1>2. SessionInv'
  BY <1>0, EdgesConstant DEF SessionInv, At
<1>3. ASSUME NEW q \in Proc, NEW u \in Users, rowLock'[u] = q
      PROVE  \/ /\ sess'[q].pc \in {"log", "commit"}
                /\ sess'[q].user = u
                /\ <<tickets'[u].status, draft'[u].status>> \in Lifecycle!Edges
             \/ /\ Promoting(q)'
                /\ tickets'[u].status = "WAITING"
                /\ draft'[u].status = "SERVING"
  <2>1. CASE u = w
    BY <1>0, <1>3, <2>1
  <2>2. CASE u # w
    <3>1. rowLock[u] = q /\ draft'[u] = draft[u] /\ tickets'[u] = tickets[u]
      BY <1>0, <1>3, <2>2
    <3>2. q # p
      BY <3>1 DEF RowInv, Promoting
    <3>3. sess'[q] = sess[q]
      BY <1>0, <3>2
    <3> QED
      BY <3>1, <3>3 DEF RowInv, Promoting
  <2> QED
    BY <2>1, <2>2
<1>4. RowInv'
  BY <1>3, EdgesConstant DEF RowInv
<1>5. ASSUME NEW q \in Proc, Promoting(q)'
      PROVE  q # p /\ Promoting(q) /\ Serving(View(q))' = Serving(View(q))
  <2>1. q # p /\ Promoting(q)
    BY <1>0, <1>5 DEF Promoting
  <2>2. ASSUME NEW u \in Users
        PROVE  (IF rowLock'[u] = q THEN draft'[u] ELSE tickets'[u])
                  = (IF rowLock[u] = q THEN draft[u] ELSE tickets[u])
    BY <1>0, <2>1, ProcessAssumption
  <2>3. View(q)' = View(q)
    BY <2>2 DEF View
  <2> QED
    BY <2>1, <2>3 DEF Serving
<1>6. \A q \in Proc : q # p /\ (\E u \in Users : rowLock'[u] = q) => \E u \in Users : rowLock[u] = q
  BY <1>0
<1>7. CountInv'
  BY <1>0, <1>5, <1>6 DEF CountInv, Promoting
<1> QED
  BY <1>1, <1>2, <1>4, <1>7

\* A decided transition other than SERVE, as it is written, is an edge.
LEMMA DecisionIsEdge ==
    ASSUME NEW row \in Ticket, NEW event, event # "SERVE", NEW t \in Decisions(row, event),
           NEW clock \in Nat, NEW graceTime \in Nat
    PROVE  <<row.status, ComputeUpdates(row, t[2], t[3], clock, graceTime).status>>
               \in Lifecycle!Edges
<1>1. /\ t \in Transitions /\ t[1] = row.status /\ t[2] = event
  BY DEF Decisions
<1>2. ComputeUpdates(row, t[2], t[3], clock, graceTime).status
          \in {t[3]} \cup (IF t[1] = "LATE" /\ t[2] = "REJOIN" THEN {"MISSED"} ELSE {})
  BY <1>1 DEF ComputeUpdates
<1>3. <<t[1], t[3]>> \in Lifecycle!Edges /\ (t[1] = "LATE" => <<t[1], "MISSED">> \in Lifecycle!Edges)
  BY <1>1 DEF Transitions, Lifecycle!Edges
<1> QED
  BY <1>1, <1>2, <1>3

LEMMA TransitionStep ==
    ASSUME TypeInv, TypeInv', TransactionInv, NEW p \in Proc, Transition(p)
    PROVE  TransactionInv'
<1> DEFINE u == sess[p].user
<1>u. /\ sess \in [Proc -> Session] /\ sess' \in [Proc -> Session]
      /\ sess[p] \in Session /\ sess'[p] \in Session
      /\ sess[p].pc \in RequestPc => u \in Users /\ tickets[u] \in Ticket
  BY DEF TypeInv, TypeOK, UserKnown
<1>1. CASE CheckCapacity(p)
  <2>1. /\ sess' = [sess EXCEPT ![p] = sess'[p]]
        /\ sess'[p].pc = "existing" /\ sess'[p].event = sess[p].event /\ At(p, "capacity")
    BY <1>1, <1>u DEF CheckCapacity, Goto, Session
  <2>2. UNCHANGED rows
    BY <1>1 DEF CheckCapacity, rows, locks
  <2> QED
    BY <1>u, <2>1, <2>2, SessionStep DEF At, Promoting, TransactionInv, SessionInv
<1>2. CASE CheckExisting(p)
  <2>1. /\ sess' = [sess EXCEPT ![p] = sess'[p]]
        /\ At(p, "existing")
        /\ \/ sess'[p].pc = "read" /\ sess'[p].event = "REJOIN"
           \/ sess'[p].pc = "insert"
    BY <1>2, <1>u DEF CheckExisting, Goto, Session
  <2>2. UNCHANGED rows
    BY <1>2 DEF CheckExisting, rows, locks
  <2> QED
    BY <1>u, <2>1, <2>2, SessionStep DEF At, Promoting
<1>3. CASE ReadTicket(p)
  <2>0. At(p, "read") /\ u \in Users /\ tickets[u] \in Ticket /\ sess[p].event # "SERVE"
    BY <1>3, <1>u DEF ReadTicket, At, RequestPc, TransactionInv, SessionInv
  <2>1. PICK t \in Decisions(tickets[u], sess[p].event) :
           sess' = [sess EXCEPT ![p].pc = "update", ![p].seen = tickets[u].status,
                                ![p].upd = ComputeUpdates(tickets[u], t[2], t[3], now,
                                                          queue.graceTime)]
    BY <1>3 DEF ReadTicket
  <2>2. /\ sess' = [sess EXCEPT ![p] = sess'[p]]
        /\ sess'[p].pc = "update" /\ sess'[p].seen = tickets[u].status
        /\ sess'[p].upd = ComputeUpdates(tickets[u], t[2], t[3], now, queue.graceTime)
    BY <2>1, <1>u DEF Session
  <2>3. <<sess'[p].seen, sess'[p].upd.status>> \in Lifecycle!Edges
    BY <2>0, <2>2, DecisionIsEdge DEF TypeInv, TypeOK, QueueType
  <2>4. UNCHANGED rows
    BY <1>3 DEF ReadTicket, rows, locks
  <2> QED
    BY <1>u, <2>0, <2>2, <2>3, <2>4, SessionStep DEF At, Promoting
<1>4. CASE UpdateTicket(p)
  <2> DEFINE row == ApplyUpdates(tickets[u], sess[p].upd)
  <2>0. At(p, "update") /\ u \in Users
    BY <1>4, <1>u DEF UpdateTicket, At, RequestPc
  <2>1. row \in Ticket /\ row.status = sess[p].upd.status
    BY <2>0, <1>u, ApplyUpdatesType DEF Session, At, RequestPc
  <2>2. <<tickets[u].status, row.status>> \in Lifecycle!Edges
    BY <1>4, <2>0, <2>1 DEF UpdateTicket, TransactionInv, SessionInv
  <2> QED
    BY <1>4, <2>0, <2>1, <2>2, WriteStep DEF UpdateTicket, At
<1>5. CASE InsertTicket(p)
  <2> DEFINE row == [NoTicket EXCEPT !.status = "WAITING", !.joinedAt = sess[p].stamp,
                                     !.loggedTo = "WAITING"]
  <2>0. At(p, "insert") /\ u \in Users
    BY <1>5, <1>u DEF InsertTicket, At, RequestPc
  <2>1. row \in Ticket /\ row.status = "WAITING"
    <3>1. sess[p].stamp \in Nat
      BY <1>u DEF Session
    <3> QED
      BY <3>1, Constants DEF Ticket, AnyStatus, Status
  <2>2. <<tickets[u].status, row.status>> \in Lifecycle!Edges
    BY <1>5, <2>1 DEF InsertTicket, Lifecycle!Edges
  <2> QED
    BY <1>5, <2>0, <2>1, <2>2, WriteStep DEF InsertTicket, At
<1>6. CASE LogEvent(p)
  <2>0. /\ At(p, "log") /\ queue.exists /\ queueLock = Nobody
        /\ keyShare' = keyShare \cup {p}
        /\ sess'[p].pc = "commit" /\ sess'[p].user = u
        /\ \A q \in Proc \ {p} : sess'[q] = sess[q]
        /\ UNCHANGED <<queue, tickets, draft, rowLock, queueLock>>
    BY <1>6, <1>u DEF LogEvent, Goto, Session
  <2>1. LockInv'
    BY <2>0 DEF TransactionInv, LockInv, At, Promoting
  <2>2. SessionInv'
    BY <2>0, EdgesConstant DEF TransactionInv, SessionInv, At
  <2>3. RowInv'
    BY <2>0, EdgesConstant DEF TransactionInv, RowInv, At, Promoting
  <2>4. \A q \in Proc : ~Promoting(q)
    BY <2>0, ProcessAssumption DEF TransactionInv, LockInv
  <2>5. CountInv'
    BY <2>0, <2>4 DEF CountInv, Promoting
  <2> QED
    BY <2>1, <2>2, <2>3, <2>5 DEF TransactionInv
<1>7. CASE CommitRequest(p)
  <2>1. AfterCommit(p) \in Session /\ AfterCommit(p).pc \in {"lock", "idle"}
    BY <1>u, Constants DEF AfterCommit, Session, Pc, PromotionPc, Idle
  <2> QED
    BY <1>7, <2>1, EndStep DEF CommitRequest
<1>8. CASE RequestRejected(p)
  BY <1>8, Constants, EndStep DEF RequestRejected, Idle
<1> QED
  BY <1>1, <1>2, <1>3, <1>4, <1>5, <1>6, <1>7, <1>8 DEF Transition

\* Serving one more ticket adds at most one to those that are served.
LEMMA OneMoreServed ==
    ASSUME TypeInv, NEW p \in Proc, NEW u \in Users, NEW row \in Ticket, Write(p, u, row),
           UNCHANGED tickets
    PROVE  /\ IsFiniteSet(Serving(View(p))) /\ IsFiniteSet(Serving(View(p)'))
           /\ Cardinality(Serving(View(p)')) <= Cardinality(Serving(View(p))) + 1
<1>1. IsFiniteSet(Serving(View(p))) /\ IsFiniteSet(Serving(View(p)'))
  BY ProcessAssumption, FS_Subset DEF Serving
<1>2. Serving(View(p)') \subseteq Serving(View(p)) \cup {u}
  BY DEF TypeInv, TypeOK, Serving, View, Write
<1>3. /\ IsFiniteSet(Serving(View(p)) \cup {u})
      /\ Cardinality(Serving(View(p)) \cup {u}) <= Cardinality(Serving(View(p))) + 1
  <2>1. Cardinality(Serving(View(p))) \in Nat
    BY <1>1, FS_CardinalityType
  <2>2. /\ IsFiniteSet(Serving(View(p)) \cup {u})
        /\ Cardinality(Serving(View(p)) \cup {u})
              = IF u \in Serving(View(p)) THEN Cardinality(Serving(View(p)))
                ELSE Cardinality(Serving(View(p))) + 1
    BY <1>1, FS_AddElement
  <2> QED
    BY <2>1, <2>2
<1>4. Cardinality(Serving(View(p)')) <= Cardinality(Serving(View(p)) \cup {u})
  BY <1>2, <1>3, FS_Subset
<1> QED
  BY <1>1, <1>3, <1>4, FS_CardinalityType

LEMMA PromotionStep ==
    ASSUME TypeInv, TypeInv', TransactionInv, NEW p \in Proc, Promotion(p)
    PROVE  TransactionInv'
<1>u. /\ sess \in [Proc -> Session] /\ sess' \in [Proc -> Session]
      /\ sess[p] \in Session /\ sess'[p] \in Session
  BY DEF TypeInv, TypeOK
<1>a. AfterPromotion(p) \in Session /\ AfterPromotion(p).pc \in {"ack", "idle"}
  BY Constants DEF AfterPromotion, Idle, Session, Pc
<1>1. CASE LockQueue(p)
  <2>0. /\ At(p, "lock") /\ queue.exists /\ queueLock = Nobody /\ keyShare = {}
        /\ queueLock' = p /\ sess'[p].pc = "count"
        /\ \A q \in Proc \ {p} : sess'[q] = sess[q]
        /\ UNCHANGED <<queue, tickets, draft, rowLock, keyShare>>
    BY <1>1, <1>u DEF LockQueue, Idle
  <2>1. \A q \in Proc : ~Promoting(q) /\ ~At(q, "cascade") /\ ~At(q, "commit")
    BY <2>0, ProcessAssumption DEF TransactionInv, LockInv
  <2>2. LockInv'
    BY <2>0, <2>1 DEF LockInv, At, Promoting
  <2>3. SessionInv'
    BY <2>0, EdgesConstant DEF TransactionInv, SessionInv, At
  <2>4. \A u \in Users : rowLock[u] # p
    BY <2>0 DEF TransactionInv, RowInv, At, Promoting
  <2>5. RowInv'
    BY <2>0, <2>4, EdgesConstant DEF TransactionInv, RowInv, At, Promoting
  <2>6. CountInv'
    BY <2>0, <2>1, <2>4 DEF CountInv, Promoting
  <2> QED
    BY <2>2, <2>3, <2>5, <2>6 DEF TransactionInv
<1>2. CASE QueueGone(p)
  <2>1. UNCHANGED rows /\ At(p, "lock") /\ sess' = [sess EXCEPT ![p] = AfterPromotion(p)]
    BY <1>2 DEF QueueGone, rows, locks
  <2> QED
    BY <1>a, <2>1, SessionStep DEF At, Promoting
<1>3. CASE CountServing(p)
  <2>1. /\ UNCHANGED rows /\ At(p, "count")
        /\ sess' = [sess EXCEPT ![p] = sess'[p]]
        /\ sess'[p].pc \in {"select", "finish"}
        /\ sess'[p].pc = "select" => Cardinality(Serving(View(p))) < queue.serviceSlots
    BY <1>3, <1>u DEF CountServing, rows, locks, Goto, Session
  <2> QED
    BY <1>u, <2>1, SessionStep DEF At, Promoting
<1>4. CASE SelectCandidate(p)
  <2>1. /\ UNCHANGED rows /\ At(p, "select")
        /\ sess' = [sess EXCEPT ![p] = sess'[p]]
        /\ sess'[p].pc = "serve" /\ sess'[p].seen = "WAITING"
        /\ sess'[p].user \in Candidates(View(p))
    <3>1. PICK u \in Candidates(View(p)) :
              sess' = [sess EXCEPT ![p].pc = "serve", ![p].user = u, ![p].seen = "WAITING"]
      BY <1>4 DEF SelectCandidate
    <3>2. UNCHANGED rows /\ At(p, "select")
      BY <1>4 DEF SelectCandidate, rows, locks
    <3>3. sess' = [sess EXCEPT ![p] = sess'[p]]
      BY <1>u, <3>1 DEF Session
    <3>4. sess'[p].pc = "serve" /\ sess'[p].seen = "WAITING" /\ sess'[p].user = u
      BY <1>u, <3>1 DEF Session
    <3> QED
      BY <3>1, <3>2, <3>3, <3>4
  <2>2. tickets[sess'[p].user].status = "WAITING"
    <3> DEFINE c == sess'[p].user
    <3>1. c \in Users /\ View(p)[c].status = "WAITING"
      BY <2>1 DEF Candidates, View
    <3>2. rowLock[c] # p
      BY <2>1, <3>1 DEF TransactionInv, RowInv, View, At
    <3> QED
      BY <3>1, <3>2 DEF View
  <2> QED
    BY <1>u, <2>1, <2>2, SessionStep DEF At, Promoting, TransactionInv, CountInv
<1>5. CASE NobodyWaits(p)
  <2>1. /\ UNCHANGED rows /\ At(p, "select")
        /\ sess' = [sess EXCEPT ![p] = sess'[p]] /\ sess'[p].pc = "finish"
    BY <1>5, <1>u DEF NobodyWaits, rows, locks, Goto, Session
  <2> QED
    BY <1>u, <2>1, SessionStep DEF At, Promoting
<1>6. CASE Serve(p)
  <2> DEFINE u == sess[p].user
             upd == ComputeUpdates(tickets[u], "SERVE", "SERVING", now, queue.graceTime)
             row == ApplyUpdates(tickets[u], upd)
  <2>0. /\ At(p, "serve") /\ u \in Users /\ rowLock[u] = Nobody
        /\ tickets[u].status = "WAITING"
        /\ Write(p, u, row) /\ sess'[p].pc = "count"
        /\ \A q \in Proc \ {p} : sess'[q] = sess[q]
        /\ UNCHANGED <<queue, tickets, queueLock, keyShare>>
    BY <1>6, <1>u DEF Serve, At, TypeInv, UserKnown, TransactionInv, SessionInv, Goto, Session
  <2>1. upd \in Updates /\ upd.status = "SERVING"
    BY <2>0, ComputeUpdatesType DEF TypeInv, TypeOK, Status, QueueType, ComputeUpdates
  <2>2. row \in Ticket /\ row.status = "SERVING"
    BY <2>0, <2>1, ApplyUpdatesType DEF TypeInv, TypeOK
  <2>3. /\ draft'[u] = row /\ rowLock'[u] = p
        /\ \A w \in Users \ {u} : draft'[w] = draft[w] /\ rowLock'[w] = rowLock[w]
    BY <2>0 DEF Write, TypeInv, TypeOK
  <2>4. \A q \in Proc \ {p} : ~Promoting(q) /\ ~At(q, "cascade")
    BY <2>0, Exclusion DEF TransactionInv, Promoting, At
  <2>5. LockInv'
    BY <2>0 DEF TransactionInv, LockInv, At, Promoting
  <2>6. SessionInv'
    BY <2>0, EdgesConstant DEF TransactionInv, SessionInv, At
  <2>7. RowInv'
    <3> SUFFICES ASSUME NEW q \in Proc, NEW w \in Users, rowLock'[w] = q
                 PROVE  \/ /\ sess'[q].pc \in {"log", "commit"}
                           /\ sess'[q].user = w
                           /\ <<tickets'[w].status, draft'[w].status>> \in Lifecycle!Edges
                        \/ /\ sess'[q].pc \in {"count", "select", "serve", "finish"}
                           /\ tickets'[w].status = "WAITING"
                           /\ draft'[w].status = "SERVING"
      BY EdgesConstant DEF RowInv, Promoting
    <3>1. CASE w = u
      BY <2>0, <2>2, <2>3, <3>1
    <3>2. CASE w # u
      <4>1. rowLock[w] = q /\ draft'[w] = draft[w] /\ tickets'[w] = tickets[w]
        BY <2>0, <2>3, <3>2
      <4>2. CASE q = p
        BY <2>0, <4>1, <4>2 DEF TransactionInv, RowInv, At, Promoting
      <4>3. CASE q # p
        <5>1. sess'[q] = sess[q]
          BY <2>0, <4>3
        <5> QED
          BY <4>1, <5>1 DEF TransactionInv, RowInv, Promoting
      <4> QED
        BY <4>2, <4>3
    <3> QED
      BY <3>1, <3>2
  <2>8. Cardinality(Serving(View(p)'))  <= queue.serviceSlots
    <3>1. Cardinality(Serving(View(p))) < queue.serviceSlots
      BY <2>0 DEF TransactionInv, CountInv, At
    <3>2. /\ IsFiniteSet(Serving(View(p))) /\ IsFiniteSet(Serving(View(p)'))
          /\ Cardinality(Serving(View(p)')) <= Cardinality(Serving(View(p))) + 1
      BY <2>0, <2>2, OneMoreServed
    <3>3. queue.serviceSlots \in Nat
      BY DEF TypeInv, TypeOK, QueueType
    <3> QED
      BY <3>1, <3>2, <3>3, FS_CardinalityType
  <2>9. CountInv'
    <3>1. \A q \in Proc \ {p} : sess'[q].pc \notin {"count", "select", "serve", "finish"}
      BY <2>0, <2>4 DEF Promoting
    <3>2. Serving(View(p))' = Serving(View(p)')
      BY DEF Serving
    <3> QED
      BY <2>0, <2>8, <3>1, <3>2 DEF CountInv, Promoting
  <2> QED
    BY <2>5, <2>6, <2>7, <2>9 DEF TransactionInv
<1>7. CASE FinishPromotion(p)
  BY <1>7, <1>a, EndStep DEF FinishPromotion, Promoting, At
<1> QED
  BY <1>1, <1>2, <1>3, <1>4, <1>5, <1>6, <1>7 DEF Promotion

LEMMA DeletionStep ==
    ASSUME TypeInv, TypeInv', TransactionInv, NEW p \in Proc, Deletion(p)
    PROVE  TransactionInv'
<1>u. /\ sess \in [Proc -> Session] /\ sess' \in [Proc -> Session]
      /\ sess[p] \in Session /\ p # Nobody
  BY ProcessAssumption DEF TypeInv, TypeOK
<1>1. CASE DeleteLock(p)
  <2>0. /\ At(p, "delete") /\ queue.exists /\ queueLock = Nobody /\ keyShare = {}
        /\ queueLock' = p /\ sess'[p].pc = "cascade"
        /\ \A q \in Proc \ {p} : sess'[q] = sess[q]
        /\ UNCHANGED <<queue, tickets, draft, rowLock, keyShare>>
    BY <1>1, <1>u DEF DeleteLock, Goto, Session
  <2>1. \A q \in Proc : ~Promoting(q) /\ ~At(q, "cascade") /\ ~At(q, "commit")
    BY <2>0, ProcessAssumption DEF TransactionInv, LockInv
  <2>2. LockInv'
    BY <2>0, <2>1 DEF LockInv, At, Promoting
  <2>3. SessionInv'
    BY <2>0, EdgesConstant DEF TransactionInv, SessionInv, At
  <2>4. RowInv'
    BY <2>0, EdgesConstant DEF TransactionInv, RowInv, At, Promoting
  <2>5. CountInv'
    BY <2>0, <2>1 DEF CountInv, Promoting
  <2> QED
    BY <2>2, <2>3, <2>4, <2>5 DEF TransactionInv
<1>2. CASE DeleteCascade(p)
  <2>0. /\ At(p, "cascade") /\ queueLock = p /\ keyShare = {}
        /\ \A u \in Users : Exists(u) => rowLock[u] = Nobody
        /\ tickets' = [u \in Users |-> NoTicket]
        /\ draft' = [u \in Users |-> IF Exists(u) THEN NoTicket ELSE draft[u]]
        /\ \A u \in Users : rowLock'[u] = IF rowLock[u] = p THEN Nobody ELSE rowLock[u]
        /\ queueLock' = Nobody /\ keyShare' = {}
        /\ sess'[p].pc = "idle"
        /\ \A q \in Proc \ {p} : sess'[q] = sess[q]
    BY <1>2, <1>u DEF DeleteCascade, Unlock, Idle, TransactionInv, LockInv
  <2>1. \A q \in Proc \ {p} : ~Promoting(q) /\ ~At(q, "cascade") /\ ~At(q, "commit")
    BY <2>0 DEF TransactionInv, LockInv
  <2>2. LockInv'
    BY <2>0, <2>1 DEF LockInv, At, Promoting
  <2>3. SessionInv'
    BY <2>0, <2>1, EdgesConstant DEF TransactionInv, SessionInv, At, Promoting
  <2>4. RowInv'
    <3> SUFFICES ASSUME NEW q \in Proc, NEW u \in Users, rowLock'[u] = q
                 PROVE  /\ sess'[q].pc \in {"log", "commit"}
                        /\ sess'[q].user = u
                        /\ <<tickets'[u].status, draft'[u].status>> \in Lifecycle!Edges
      BY EdgesConstant DEF RowInv
    <3>1. rowLock[u] = q /\ q # p
      BY <2>0, ProcessAssumption
    <3>2. ~Exists(u) /\ tickets'[u] = NoTicket /\ draft'[u] = draft[u] /\ sess'[q] = sess[q]
      BY <2>0, <3>1, ProcessAssumption
    <3>3. tickets'[u].status = tickets[u].status
      BY <3>2 DEF Exists, NoTicket
    <3> QED
      BY <2>1, <3>1, <3>2, <3>3 DEF TransactionInv, RowInv
  <2>5. CountInv'
    BY <2>0, <2>1 DEF CountInv, Promoting
  <2> QED
    BY <2>2, <2>3, <2>4, <2>5 DEF TransactionInv
<1> QED
  BY <1>1, <1>2 DEF Deletion

LEMMA StopServerStep ==
    ASSUME TypeInv, TransactionInv, StopServer
    PROVE  TransactionInv'
<1>0. /\ \A p \in Proc : sess'[p].pc = "idle" /\ sess'[p].event # "SERVE"
      /\ \A u \in Users : rowLock'[u] = Nobody
      /\ queueLock' = Nobody
  BY DEF StopServer, Idle
<1> QED
  BY <1>0, ProcessAssumption
  DEF TransactionInv, LockInv, SessionInv, RowInv, CountInv, At, Promoting

LEMMA AbortStep ==
    ASSUME TypeInv, TransactionInv, NEW p \in Proc, Abort(p)
    PROVE  TransactionInv'
<1>1. CASE Uncaught(p)
  BY <1>1, StopServerStep DEF Abort
<1>2. CASE ~Uncaught(p)
  BY <1>2, Constants, EndStep DEF Abort, Idle
<1> QED
  BY <1>1, <1>2

LEMMA UpdateQueueStep ==
    ASSUME TypeInv, TransactionInv, NEW p \in Handlers, UpdateQueue(p)
    PROVE  TransactionInv'
<1>0. /\ p \in Proc /\ At(p, "idle") /\ queueLock = Nobody
      /\ queue'.exists = queue.exists
      /\ sess'[p].pc = "lock"
      /\ \A q \in Proc \ {p} : sess'[q] = sess[q]
      /\ UNCHANGED <<tickets, draft, rowLock, queueLock, keyShare>>
  BY DEF UpdateQueue, TypeInv, TypeOK, QueueType, Proc, locks, Idle
<1>1. \A q \in Proc : ~Promoting(q)
  BY <1>0, ProcessAssumption DEF TransactionInv, LockInv
<1>2. LockInv'
  BY <1>0 DEF TransactionInv, LockInv, At, Promoting
<1>3. SessionInv'
  BY <1>0, EdgesConstant DEF TransactionInv, SessionInv, At
<1>4. RowInv'
  BY <1>0, EdgesConstant DEF TransactionInv, RowInv, At, Promoting
<1>5. CountInv'
  BY <1>0, <1>1 DEF CountInv, Promoting
<1> QED
  BY <1>2, <1>3, <1>4, <1>5 DEF TransactionInv

LEMMA ReceiveStep ==
    ASSUME TypeInv, TypeInv', TransactionInv, NEW p \in Handlers,
           (\E u \in Users : Request(p, u)) \/ DeleteQueue(p)
    PROVE  TransactionInv'
<1>1. PICK op \in OperationKinds, u \in Users \cup {Nobody}, pc \in {"capacity", "read", "delete"},
           event \in {"JOIN", "LEAVE", "COMPLETE", "MARK_LATE", "REJOIN", "DELETE"} :
               Receive(p, op, pc, event, u)
  <2>1. CASE \E u \in Users : Request(p, u)
    BY <2>1 DEF Request, JoinQueue, LeaveQueue, RemoveQueueUser, MarkComplete, MarkLate,
                LateRejoin, LateArrived, OperationKinds
  <2>2. CASE DeleteQueue(p)
    BY <2>2 DEF DeleteQueue, OperationKinds
  <2> QED
    BY <2>1, <2>2
<1>2. /\ p \in Proc /\ At(p, "idle") /\ UNCHANGED rows
      /\ sess' = [sess EXCEPT ![p] = sess'[p]] /\ sess'[p] \in Session
      /\ sess'[p].pc = pc /\ sess'[p].event = event
  BY <1>1 DEF Receive, rows, locks, TypeInv, TypeOK, Proc, Idle
<1> QED
  BY <1>2, SessionStep DEF At, Promoting

LEMMA InvInit == Init => TransactionInv
<1> SUFFICES ASSUME Init PROVE TransactionInv
  OBVIOUS
<1> QED
  BY ProcessAssumption
  DEF Init, TransactionInv, LockInv, SessionInv, RowInv, CountInv, At, Promoting, Idle

LEMMA InvStep == TypeInv /\ TypeInv' /\ TransactionInv /\ [Next]_vars => TransactionInv'
<1> SUFFICES ASSUME TypeInv, TypeInv', TransactionInv, [Next]_vars PROVE TransactionInv'
  OBVIOUS
<1>1. CASE \E p \in Handlers, u \in Users : Request(p, u)
  BY <1>1, ReceiveStep
<1>2. CASE \E p \in Handlers : UpdateQueue(p) \/ DeleteQueue(p)
  BY <1>2, ReceiveStep, UpdateQueueStep
<1>3. CASE \E p \in Proc : Step(p)
  BY <1>3, TransitionStep, PromotionStep, DeletionStep, AbortStep DEF Step, DeadlockVictim
<1>4. CASE \E u \in Users : StartExpiryJob(u)
  <2> DEFINE p == ExpiryWorker
  <2>1. /\ p \in Proc /\ At(p, "idle") /\ UNCHANGED rows
        /\ sess' = [sess EXCEPT ![p] = sess'[p]] /\ sess'[p] \in Session
        /\ sess'[p].pc = "read" /\ sess'[p].event = "MISSED"
    BY <1>4 DEF StartExpiryJob, rows, locks, TypeInv, TypeOK, Proc, Idle
  <2> QED
    BY <2>1, SessionStep DEF At, Promoting
<1>5. CASE PickPromoteJob
  <2> DEFINE p == PromoteWorker
  <2>1. /\ p \in Proc /\ At(p, "idle") /\ UNCHANGED rows
        /\ sess' = [sess EXCEPT ![p] = sess'[p]] /\ sess'[p] \in Session
        /\ sess'[p].pc = "lock"
    BY <1>5 DEF PickPromoteJob, rows, locks, TypeInv, TypeOK, Proc, Idle
  <2> QED
    BY <2>1, SessionStep DEF At, Promoting
<1>6. CASE JobDone
  <2> DEFINE p == PromoteWorker
  <2>1. /\ p \in Proc /\ At(p, "ack") /\ UNCHANGED rows
        /\ sess' = [sess EXCEPT ![p] = sess'[p]] /\ sess'[p] \in Session
        /\ sess'[p].pc = "idle"
    BY <1>6 DEF JobDone, rows, locks, TypeInv, TypeOK, Proc, Idle
  <2> QED
    BY <2>1, SessionStep DEF At, Promoting
<1>7. CASE \E p \in Proc : Timeout(p)
  BY <1>7, AbortStep DEF Timeout
<1>8. CASE Restart
  BY <1>8, StopServerStep DEF Restart
<1>9. CASE UNCHANGED <<sess, rows>>
  BY <1>9, EdgesConstant
  DEF rows, TransactionInv, LockInv, SessionInv, RowInv, CountInv, At, Promoting, View, Serving
<1>10. CASE Tick \/ Terminating \/ UNCHANGED vars
  BY <1>9, <1>10 DEF Tick, Terminating, vars, locks, rows
<1> QED
  BY <1>1, <1>2, <1>3, <1>4, <1>5, <1>6, <1>7, <1>8, <1>10 DEF Next

\* The locks, the sessions, the locked rows and the counts of promotions stay
\* consistent with one another, for any users, handlers, settings and faults.
THEOREM TransactionInvariant == Spec => []TransactionInv
  BY TypeInit, TypeStep, TypeInvariant, InvInit, InvStep, PTL DEF Spec

-----------------------------------------------------------------------------
(* What changes the committed tickets. *)

\* Only four kinds of step change the committed tickets or the settings.
LEMMA CommittedChanges ==
    ASSUME [Next]_vars, ~UNCHANGED <<queue, tickets>>
    PROVE  \/ \E p \in Proc : CommitRequest(p) \/ FinishPromotion(p) \/ DeleteCascade(p)
           \/ \E p \in Handlers : UpdateQueue(p)
<1>1. ASSUME NEW p \in Proc, Abort(p) PROVE UNCHANGED <<queue, tickets>>
  BY <1>1 DEF Abort, StopServer, Rollback
<1>2. ASSUME NEW p \in Proc, Step(p)
      PROVE  CommitRequest(p) \/ FinishPromotion(p) \/ DeleteCascade(p)
  <2>1. ~Abort(p)
    BY <1>1, <1>2
  <2>2. ~DeadlockVictim(p)
    BY <2>1 DEF DeadlockVictim
  <2>3. Transition(p) => CommitRequest(p)
    BY DEF Transition, CheckCapacity, CheckExisting, ReadTicket, UpdateTicket, InsertTicket,
           LogEvent, RequestRejected, Rollback
  <2>4. Promotion(p) => FinishPromotion(p)
    BY DEF Promotion, LockQueue, QueueGone, CountServing, SelectCandidate, NobodyWaits, Serve
  <2>5. Deletion(p) => DeleteCascade(p)
    BY DEF Deletion, DeleteLock
  <2> QED
    BY <1>2, <2>2, <2>3, <2>4, <2>5 DEF Step
<1>3. ASSUME NEW p \in Handlers, NEW u \in Users PROVE ~Request(p, u)
  BY DEF Request, JoinQueue, LeaveQueue, RemoveQueueUser, MarkComplete, MarkLate,
         LateRejoin, LateArrived, Receive
<1>4. ASSUME NEW p \in Handlers PROVE ~DeleteQueue(p)
  BY DEF DeleteQueue, Receive
<1>5. ASSUME NEW p \in Proc PROVE ~Timeout(p)
  BY <1>1 DEF Timeout
<1>6. /\ ~\E u \in Users : StartExpiryJob(u)
      /\ ~PickPromoteJob /\ ~JobDone /\ ~Restart /\ ~Tick
  BY DEF StartExpiryJob, PickPromoteJob, JobDone, Restart, StopServer, Tick
<1>7. ~Terminating /\ ~UNCHANGED vars
  BY DEF Terminating, vars
<1> QED
  BY <1>2, <1>3, <1>4, <1>5, <1>6, <1>7 DEF Next

\* A request moves at most the ticket of its user, along an edge.
LEMMA RequestMoves ==
    ASSUME TypeInv, TransactionInv, NEW p \in Proc, CommitRequest(p)
    PROVE  /\ UNCHANGED queue /\ queue.exists
           /\ \A u \in Users : u # sess[p].user => tickets'[u] = tickets[u]
           /\ \A u \in Users : tickets'[u] = tickets[u]
                  \/ <<tickets[u].status, tickets'[u].status>> \in Lifecycle!Edges
<1>1. \A u \in Users : tickets'[u] = IF rowLock[u] = p THEN draft[u] ELSE tickets[u]
  BY DEF CommitRequest, CommitTx, View
<1>2. \A u \in Users : rowLock[u] = p
          => /\ u = sess[p].user
             /\ <<tickets[u].status, draft[u].status>> \in Lifecycle!Edges
  BY DEF TransactionInv, RowInv, Promoting, CommitRequest, At
<1>3. UNCHANGED queue /\ queue.exists
  BY DEF TransactionInv, LockInv, CommitRequest
<1> QED
  BY <1>1, <1>2, <1>3

\* A promotion serves the waiting tickets it locked, within the slots.
LEMMA PromotionServes ==
    ASSUME TypeInv, TransactionInv, NEW p \in Proc, FinishPromotion(p)
    PROVE  LET S == {u \in Users : rowLock[u] = p}
           IN  /\ UNCHANGED queue /\ queue.exists
               /\ \A u \in S : tickets[u].status = "WAITING" /\ tickets'[u].status = "SERVING"
               /\ \A u \in Users \ S : tickets'[u] = tickets[u]
               /\ Serving(tickets') = Serving(tickets) \cup S
               /\ S # {} => Cardinality(Serving(tickets')) <= queue.serviceSlots
<1> DEFINE S == {u \in Users : rowLock[u] = p}
<1>0. At(p, "finish") /\ Promoting(p)
  BY DEF FinishPromotion, At, Promoting
<1>1. tickets' = View(p)
  BY DEF FinishPromotion, CommitTx
<1>2. \A u \in S : tickets[u].status = "WAITING" /\ draft[u].status = "SERVING"
  BY <1>0 DEF TransactionInv, RowInv, At
<1>3. UNCHANGED queue /\ queue.exists
  BY <1>0 DEF TransactionInv, LockInv, FinishPromotion
<1>4. S # {} => Cardinality(Serving(tickets')) <= queue.serviceSlots
  BY <1>0, <1>1 DEF TransactionInv, CountInv
<1>5. /\ \A u \in S : tickets'[u].status = "SERVING"
      /\ \A u \in Users \ S : tickets'[u] = tickets[u]
  BY <1>1, <1>2 DEF View
<1>6. Serving(tickets') = Serving(tickets) \cup S
  BY <1>5 DEF Serving
<1> QED
  BY <1>2, <1>3, <1>4, <1>5, <1>6

-----------------------------------------------------------------------------
(* The theorems. *)

LEMMA SlotStep ==
    ASSUME TypeInv, TransactionInv, [Next]_vars
    PROVE  \/ Serving(tickets') \subseteq Serving(tickets)
           \/ Cardinality(Serving(tickets')) <= queue'.serviceSlots
<1>1. CASE UNCHANGED <<queue, tickets>>
  BY <1>1
<1>2. CASE \E p \in Proc : CommitRequest(p)
  <2>1. \A u \in Users : tickets'[u].status = "SERVING" => tickets[u].status = "SERVING"
    BY <1>2, RequestMoves DEF Lifecycle!Edges
  <2> QED
    BY <2>1 DEF Serving
<1>3. CASE \E p \in Proc : FinishPromotion(p)
  BY <1>3, PromotionServes
<1>4. CASE \E p \in Proc : DeleteCascade(p)
  BY <1>4 DEF DeleteCascade, Serving, NoTicket
<1>5. CASE \E p \in Handlers : UpdateQueue(p)
  BY <1>5 DEF UpdateQueue
<1> QED
  BY <1>1, <1>2, <1>3, <1>4, <1>5, CommittedChanges

\* Nobody is newly served beyond the service slots, whatever requests,
\* promotions, deletions, deadlocks, timeouts, crashes and settings interleave.
THEOREM SlotsRespected == Spec => SlotDiscipline
<1>1. TypeInv /\ TransactionInv /\ [Next]_vars
        => [\/ Serving(tickets') \subseteq Serving(tickets)
            \/ Cardinality(Serving(tickets')) <= queue'.serviceSlots]_vars
  BY SlotStep
<1> QED
  BY <1>1, TypeInvariant, TransactionInvariant, PTL DEF Spec, SlotDiscipline

\* The instance counts with the same operator.
LEMMA SameCardinality == ASSUME NEW S PROVE Lifecycle!Cardinality(S) = Cardinality(S)
  BY DEF Lifecycle!Cardinality, Cardinality

\* The initial states are initial states of the life cycle.
LEMMA LifecycleInit == Init => Lifecycle!Init
<1> SUFFICES ASSUME Init PROVE Lifecycle!Init
  OBVIOUS
<1>1. queue.exists = TRUE /\ queue.serviceSlots \in Nat \ {0}
  BY SettingsAssumption DEF Init
<1>2. [u \in Users |-> tickets[u].status] = [u \in Users |-> "NONE"]
  BY DEF Init, NoTicket
<1> QED
  BY <1>1, <1>2 DEF Lifecycle!Init

\* Every step is a step of the life cycle or leaves it unchanged.
LEMMA LifecycleStep ==
    ASSUME TypeInv, TypeInv', TransactionInv, [Next]_vars
    PROVE  [Lifecycle!Next]_(Lifecycle!vars)
<1>1. CASE UNCHANGED <<queue, tickets>>
  BY <1>1 DEF Lifecycle!vars
<1>2. CASE \E p \in Proc : CommitRequest(p)
  <2>1. PICK p \in Proc : CommitRequest(p)
    BY <1>2
  <2> DEFINE u == sess[p].user
  <2>2. u \in Users
    BY <2>1 DEF CommitRequest, At, TypeInv, UserKnown, RequestPc
  <2>3. CASE tickets'[u] = tickets[u]
    BY <2>1, <2>2, <2>3, RequestMoves DEF Lifecycle!vars
  <2>4. CASE tickets'[u] # tickets[u]
    <3>1. /\ UNCHANGED queue /\ queue.exists
          /\ <<tickets[u].status, tickets'[u].status>> \in Lifecycle!Edges
          /\ \A w \in Users : w # u => tickets'[w] = tickets[w]
      BY <2>1, <2>2, <2>4, RequestMoves
    <3>2. tickets'[u].status \in {e[2] : e \in Lifecycle!Edges}
      BY <3>1
    <3>3. [w \in Users |-> tickets'[w].status]
             = [[w \in Users |-> tickets[w].status] EXCEPT ![u] = tickets'[u].status]
      BY <3>1
    <3>4. Lifecycle!Move(u)
      BY <2>2, <3>1, <3>2, <3>3 DEF Lifecycle!Move
    <3>5. \E w \in Users : Lifecycle!Move(w)
      BY <2>2, <3>4 DEF Lifecycle!Move
    <3> QED
      BY <3>5 DEF Lifecycle!Next
  <2> QED
    BY <2>3, <2>4
<1>3. CASE \E p \in Proc : FinishPromotion(p)
  <2>1. PICK p \in Proc : FinishPromotion(p)
    BY <1>3
  <2> DEFINE S == {u \in Users : rowLock[u] = p}
  <2>2. /\ UNCHANGED queue /\ queue.exists
        /\ \A u \in S : tickets[u].status = "WAITING" /\ tickets'[u].status = "SERVING"
        /\ \A u \in Users \ S : tickets'[u] = tickets[u]
        /\ Serving(tickets') = Serving(tickets) \cup S
        /\ S # {} => Cardinality(Serving(tickets')) <= queue.serviceSlots
    BY <2>1, PromotionServes
  <2>3. [u \in Users |-> tickets'[u].status]
           = [u \in Users |-> IF u \in S THEN "SERVING" ELSE tickets[u].status]
    BY <2>2
  <2>4. CASE S = {}
    BY <2>2, <2>3, <2>4 DEF Lifecycle!vars
  <2>5. CASE S # {}
    <3>1. S \subseteq Lifecycle!Having("WAITING")
      BY <2>2 DEF Lifecycle!Having
    <3>2. Lifecycle!Having("SERVING") = Serving(tickets)
      BY DEF Lifecycle!Having, Serving
    <3>3. Lifecycle!Promote(S)
      BY <2>2, <2>3, <2>5, <3>1, <3>2, SameCardinality DEF Lifecycle!Promote
    <3>4. \E T \in SUBSET Users : Lifecycle!Promote(T)
      BY <3>3 DEF Lifecycle!Promote
    <3> QED
      BY <3>4 DEF Lifecycle!Next
  <2> QED
    BY <2>4, <2>5
<1>4. CASE \E p \in Proc : DeleteCascade(p)
  <2>1. PICK p \in Proc : DeleteCascade(p)
    BY <1>4
  <2>2. queue.exists = TRUE /\ At(p, "cascade")
    BY <2>1 DEF DeleteCascade, TransactionInv, LockInv, TypeInv, TypeOK, QueueType
  <2>3. /\ queue'.exists = FALSE /\ queue'.serviceSlots = queue.serviceSlots
        /\ [u \in Users |-> tickets'[u].status] = [u \in Users |-> "NONE"]
    BY <2>1 DEF DeleteCascade, TypeInv, TypeOK, QueueType, NoTicket
  <2> QED
    BY <2>2, <2>3 DEF Lifecycle!Delete, Lifecycle!Next
<1>5. CASE \E p \in Handlers : UpdateQueue(p)
  <2>1. /\ queue.exists /\ queue'.exists = queue.exists /\ UNCHANGED tickets
        /\ queue'.serviceSlots \in Nat \ {0}
    <3>1. queue.exists /\ UNCHANGED tickets
      BY <1>5 DEF UpdateQueue
    <3>2. PICK s \in SlotChoices \cup {queue.serviceSlots},
               m \in (MaxSizeChoices \ {NoLimit}) \cup {queue.maxSize},
               g \in (GraceChoices \ {0}) \cup {queue.graceTime} :
            queue' = [queue EXCEPT !.serviceSlots = s, !.maxSize = m, !.graceTime = g]
      BY <1>5 DEF UpdateQueue
    <3>3. queue'.exists = queue.exists /\ queue'.serviceSlots = s
      BY <3>2 DEF TypeInv, TypeOK, QueueType
    <3>4. queue' \in QueueType
      BY DEF TypeInv, TypeOK
    <3>. QED
      BY <3>1, <3>3, <3>4 DEF QueueType
  <2> QED
    BY <2>1 DEF Lifecycle!Configure, Lifecycle!Next
<1> QED
  BY <1>1, <1>2, <1>3, <1>4, <1>5, CommittedChanges

\* QueueTransactions implements TicketLifecycle: every commit moves one ticket
\* along one edge, serves waiting tickets within the slots, changes the
\* settings or deletes the queue.
THEOREM LifecycleImplemented == Spec => LifecycleSpec
<1>1. TypeInv /\ TypeInv' /\ TransactionInv /\ [Next]_vars => [Lifecycle!Next]_(Lifecycle!vars)
  BY LifecycleStep
<1> QED
  BY <1>1, LifecycleInit, TypeInvariant, TransactionInvariant, PTL
  DEF Spec, LifecycleSpec, Lifecycle!Spec
=============================================================================
