----------------------- MODULE QueueUserStateMachine -----------------------
(***************************************************************************)
(* The pure part of src/core/queueUserStateMachine.ts: which event takes a *)
(* QueueUser from which status to which, what columns the transition       *)
(* writes, and in which order QueueUsers are served.                       *)
(*                                                                         *)
(* A QueueUser row is a record.  Names, tokens and servedAt are left out;  *)
(* time is a natural number of ticks, a nullable timestamp is 0 for NULL   *)
(* (clocks start at 1).  loggedTo is the "to" field of the payload of the  *)
(* row's newest QueueEvents record.                                        *)
(***************************************************************************)
EXTENDS Integers, FiniteSets

\* enum QueueStatus of the schema, and the events of queueEventsMapper.
Status == {"WAITING", "SERVING", "LATE", "MISSED", "CANCELLED", "COMPLETED"}
Events == {"SERVE", "LEAVE", "COMPLETE", "MARK_LATE", "REJOIN", "MISSED"}

\* The nested object "transitions", as a set of <<from, event, to>>.
Transitions ==
    { <<"WAITING",   "SERVE",     "SERVING">>,
      <<"WAITING",   "LEAVE",     "CANCELLED">>,
      <<"SERVING",   "COMPLETE",  "COMPLETED">>,
      <<"SERVING",   "MARK_LATE", "LATE">>,
      <<"SERVING",   "LEAVE",     "CANCELLED">>,
      <<"LATE",      "REJOIN",    "WAITING">>,
      <<"LATE",      "MISSED",    "MISSED">>,
      <<"LATE",      "LEAVE",     "CANCELLED">>,
      <<"CANCELLED", "REJOIN",    "WAITING">>,
      <<"MISSED",    "REJOIN",    "WAITING">> }

NoExpiry == 0     \* expiresAt IS NULL
Keep     == -1    \* a column the UPDATE statement does not name

AnyStatus == Status \cup {"NONE"}     \* "NONE": the row does not exist

Ticket == [status : AnyStatus, joinedAt : Nat, priorityBoost : {0, 1},
           expiresAt : Nat, loggedTo : AnyStatus]

NoTicket == [status |-> "NONE", joinedAt |-> 0, priorityBoost |-> 0,
             expiresAt |-> NoExpiry, loggedTo |-> "NONE"]

\* The columns of one UPDATE, with the status logged beside it.
Updates == [status : AnyStatus, priorityBoost : {0, 1},
            expiresAt : Nat \cup {Keep}, loggedTo : AnyStatus]

NoUpdates == [status |-> "NONE", priorityBoost |-> 0, expiresAt |-> Keep,
              loggedTo |-> "NONE"]

\* checkIfMissed: strictly later than expiresAt.
CheckIfMissed(expiresAt, clock) == clock > expiresAt

(***************************************************************************)
(* The object "updates" of transitionQueueUser, for a row that was read as *)
(* qu, at time clock, in a queue whose grace time is read as graceTime.    *)
(* Every transition resets priorityBoost; a LATE user who rejoins in time  *)
(* gets 1, one who rejoins too late is turned to MISSED.  The audit event  *)
(* logs the decided status, not the one that was written.                  *)
(***************************************************************************)
ComputeUpdates(qu, event, next, clock, graceTime) ==
    LET rejoinsLate == qu.status = "LATE" /\ event = "REJOIN"
        missed      == rejoinsLate /\ CheckIfMissed(qu.expiresAt, clock)
        leavesLate  == qu.status = "LATE" /\ next \notin {"LATE", "MISSED"}
    IN  [status        |-> IF missed THEN "MISSED" ELSE next,
         priorityBoost |-> IF rejoinsLate /\ ~missed THEN 1 ELSE 0,
         expiresAt     |-> IF next = "LATE" THEN clock + graceTime
                           ELSE IF leavesLate THEN NoExpiry ELSE Keep,
         loggedTo      |-> next]

\* Variants of ApplyUpdates for mutation: a column that is not named is
\* overwritten; the reset of priorityBoost is forgotten; a transition that
\* boosts is logged by the next one only.
ApplyAllColumns(row, upd) ==
    [row EXCEPT !.status = upd.status, !.priorityBoost = upd.priorityBoost,
                !.expiresAt = upd.expiresAt, !.loggedTo = upd.loggedTo]
ApplyKeepingBoost(row, upd) ==
    [row EXCEPT !.status = upd.status,
                !.priorityBoost = IF upd.priorityBoost = 1 THEN 1 ELSE @,
                !.expiresAt = IF upd.expiresAt = Keep THEN @ ELSE upd.expiresAt,
                !.loggedTo = upd.loggedTo]

ApplyUnlogged(row, upd) ==
    [row EXCEPT !.status = upd.status,
                !.priorityBoost = upd.priorityBoost,
                !.expiresAt = IF upd.expiresAt = Keep THEN @ ELSE upd.expiresAt,
                !.loggedTo = IF upd.priorityBoost = 1 THEN @ ELSE upd.loggedTo]

\* updateMany writes the named columns over the row as it is when locked.
ApplyUpdates(row, upd) ==
    [row EXCEPT !.status = upd.status,
                !.priorityBoost = upd.priorityBoost,
                !.expiresAt = IF upd.expiresAt = Keep THEN @ ELSE upd.expiresAt,
                !.loggedTo = upd.loggedTo]

\* ORDER BY priorityBoost DESC, joinedAt ASC.
Ahead(a, b) == \/ a.priorityBoost > b.priorityBoost
               \/ a.priorityBoost = b.priorityBoost /\ a.joinedAt < b.joinedAt

\* Variants of Candidates for mutation: without ORDER BY; without the boost.
AnyWaiting(rows) == {u \in DOMAIN rows : rows[u].status = "WAITING"}
FirstJoined(rows) ==
    {u \in DOMAIN rows :
        /\ rows[u].status = "WAITING"
        /\ \A w \in DOMAIN rows : rows[w].status = "WAITING"
                                      => rows[u].joinedAt <= rows[w].joinedAt}

\* tx.queueUser.findFirst of triggerPromotion: any minimal WAITING row
\* (PostgreSQL breaks ties on the two keys as it likes).
Candidates(rows) ==
    {u \in DOMAIN rows :
        /\ rows[u].status = "WAITING"
        /\ \A w \in DOMAIN rows : rows[w].status = "WAITING" => ~Ahead(rows[w], rows[u])}
=============================================================================
