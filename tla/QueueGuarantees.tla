-------------------------- MODULE QueueGuarantees --------------------------
(***************************************************************************)
(* What the transactions of QueueTransactions must guarantee together.     *)
(***************************************************************************)
EXTENDS QueueTransactions

\* Every variable has its type.
TypeOK ==
    /\ queue \in QueueType
    /\ tickets \in [Users -> Ticket]
    /\ draft \in [Users -> Ticket]
    /\ rowLock \in [Users -> Proc \cup {Nobody}]
    /\ queueLock \in Proc \cup {Nobody}
    /\ keyShare \in SUBSET Proc
    /\ sess \in [Proc -> Session]
    /\ promoteJob \in Job
    /\ now \in Nat
    /\ requests \in Nat
    /\ faults \in Nat
    /\ crashed \in BOOLEAN

-----------------------------------------------------------------------------
(* Service slots. *)

\* Nobody is newly served unless all who are served then fit the service
\* slots, whatever promotions, deletions, failures and new settings run
\* beside (the loop of triggerPromotion under FOR UPDATE).
SlotDiscipline ==
    [][\/ Serving(tickets') \subseteq Serving(tickets)
       \/ Cardinality(Serving(tickets')) <= queue'.serviceSlots]_vars

\* docs/INVARIANTS.md, "The number of SERVING users must never exceed
\* queue.serviceSlots": concurrent promotions keep it while nobody lowers
\* serviceSlots, which updateQueue lets the administrator do at any time.
ServingWithinSlots ==
    "update" \notin Operations => Cardinality(Serving(tickets)) <= queue.serviceSlots

\* A free slot and a waiting ticket are never left to themselves: some
\* process is going to promote, or a job will (the un-awaited calls of
\* triggerPromotion after each commit, with the promotion jobs behind them).
\* A promotion that a deadlock ends leaves it to the transition it collided
\* with; only deleteQueue can collide with all that are left, and then be
\* ended by a deadlock with the expiry worker, which promotes nobody.
FreeSlot == /\ queue.exists
            /\ Cardinality(Serving(tickets)) < queue.serviceSlots
            /\ Candidates(tickets) # {}

WillPromote(p) ==
    \/ sess[p].pc \in {"lock", "count", "select", "serve"}
    \/ At(p, "finish") /\ \E u \in Users : rowLock[u] = p
    \/ p \in Handlers /\ sess[p].pc \in {"log", "commit"}

NoLostPromotion ==
    FreeSlot /\ ~crashed /\ faults = 0 /\ "delete" \notin Operations
        => promoteJob.state = "queued" \/ \E p \in Proc : WillPromote(p)

\* No waiting ticket is passed over: when u is served and w stays waiting,
\* w was not ahead of u (priorityBoost, then joinedAt) at that commit.
PromotionOrder ==
    [][\A u, w \in Users :
          /\ tickets[u].status = "WAITING" /\ tickets'[u].status = "SERVING"
          /\ tickets[w].status = "WAITING" /\ tickets'[w].status = "WAITING"
          => ~Ahead(tickets[w], tickets[u])]_vars

-----------------------------------------------------------------------------
(* Tickets. *)

\* The boost of a user who arrived late ends with the next transition: only
\* a waiting ticket has it.
BoostOnlyWaiting == \A u \in Users : tickets[u].priorityBoost = 1 => tickets[u].status = "WAITING"

\* The newest audit record of a ticket explains its status (docs/SYSTEM.md,
\* "Make system behavior explainable and auditable"), but for a rejoin that
\* came too late, which is logged as the WAITING it was decided to be.
AuditExplains ==
    \A u \in Users :
        \/ tickets[u].loggedTo = tickets[u].status
        \/ tickets[u].loggedTo = "WAITING" /\ tickets[u].status = "MISSED"

\* Every committed change is one that the life cycle of a ticket allows.
Lifecycle == INSTANCE TicketLifecycle
                 WITH status <- [u \in Users |-> tickets[u].status],
                      slots  <- queue.serviceSlots,
                      open   <- queue.exists
LifecycleSpec == Lifecycle!Spec

-----------------------------------------------------------------------------
(* The inductive invariant behind SlotDiscipline and LifecycleSpec. *)

Promoting(p) == sess[p].pc \in {"count", "select", "serve", "finish"}

\* Promotions and deletions exclude each other and every transaction that is
\* about to commit a transition; neither sees the queue disappear.
LockInv ==
    /\ \A p \in Proc : Promoting(p) \/ At(p, "cascade") => queueLock = p /\ queue.exists
    /\ \A p \in Proc : At(p, "commit") => p \in keyShare /\ queue.exists
    /\ queueLock # Nobody => keyShare = {}

\* A transition that is decided is an edge of the life cycle, and nothing
\* takes the candidate of a promotion away once it is selected.
SessionInv ==
    \A p \in Proc :
        /\ sess[p].pc \in {"capacity", "existing", "read"} => sess[p].event # "SERVE"
        /\ At(p, "update") => <<sess[p].seen, sess[p].upd.status>> \in Lifecycle!Edges
        /\ At(p, "serve") => /\ sess[p].seen = "WAITING"
                             /\ tickets[sess[p].user].status = "WAITING"

\* A row that is locked is about to make the move its locker decided.
RowInv ==
    \A p \in Proc, u \in Users : rowLock[u] = p =>
        \/ /\ sess[p].pc \in {"log", "commit"}
           /\ sess[p].user = u
           /\ <<tickets[u].status, draft[u].status>> \in Lifecycle!Edges
        \/ /\ Promoting(p)
           /\ tickets[u].status = "WAITING"
           /\ draft[u].status = "SERVING"

\* A promotion that has counted a free slot, or has taken one, is within the
\* slots together with those it has served so far.
CountInv ==
    \A p \in Proc :
        /\ sess[p].pc \in {"select", "serve"}
               => Cardinality(Serving(View(p))) < queue.serviceSlots
        /\ Promoting(p) /\ (\E u \in Users : rowLock[u] = p)
               => Cardinality(Serving(View(p))) <= queue.serviceSlots

TransactionInv == LockInv /\ SessionInv /\ RowInv /\ CountInv

-----------------------------------------------------------------------------
(* Capacity. *)

\* joinQueue checks maxSize and inserts in different statements, so
\* concurrent joins can overrun it, by at most one ticket per other handler.
\* (lateRejoin and lateArrived do not look at maxSize, updateQueue lowers it.)
OnlyJoinsAdd == Operations \cap {"lateRejoin", "lateArrived", "update"} = {}

Joining == {p \in Handlers : sess[p].event \in {"JOIN", "REJOIN"} /\ sess[p].pc \in RequestPc \ {"capacity"}}

BoundedOverrun ==
    queue.maxSize # NoLimit /\ OnlyJoinsAdd
        => Cardinality(Active(tickets)) + Cardinality(Joining)
               <= queue.maxSize + Cardinality(Handlers) - 1

-----------------------------------------------------------------------------
(* Progress. *)

\* Every request ends: deadlocks are broken and locks are released.
RequestsEnd == \A p \in Handlers : ~At(p, "idle") ~> At(p, "idle")

\* The queue advances: a free slot does not stay free while somebody waits and
\* nobody deletes the queue (see NoLostPromotion).
QueueAdvances ==
    FreeSlot /\ "delete" \notin Operations ~> (~FreeSlot \/ crashed \/ faults > 0)

-----------------------------------------------------------------------------
(* What the documents say and the code does not keep. *)

\* docs/FAILURE_SCENARIOS.md: concurrent requests cannot break capacity.
ActiveWithinMaxSize == queue.maxSize # NoLimit => Cardinality(Active(tickets)) <= queue.maxSize

\* docs/TRANSITIONS.md: LATE becomes MISSED only when its grace has passed.
MissedOnlyAfterExpiry ==
    [][\A u \in Users :
          tickets[u].status = "LATE" /\ tickets'[u].status = "MISSED"
              => tickets[u].expiresAt <= now]_vars

\* docs/CONCURRENCY.md, "Duplicate or conflicting operations fail safely":
\* two requests that conflict do not end the server.
ServerStaysUp == ~crashed

\* docs/SYSTEM.md, "System remains correct under: server restarts": the queue
\* advances after one, too.
QueueAdvancesAfterRestart == FreeSlot ~> ~FreeSlot
=============================================================================
