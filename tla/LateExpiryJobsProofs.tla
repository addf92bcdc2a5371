------------------------ MODULE LateExpiryJobsProofs ------------------------
(***************************************************************************)
(* Proofs about LateExpiryJobs: type correctness, that a job of an earlier *)
(* late period ends nothing early, and that the first late period of a     *)
(* ticket keeps its job.                                                   *)
(***************************************************************************)
EXTENDS LateExpiryJobs, TLAPS

\* What the actions on worker.user need beside the types.
WorkerHasUser == worker.pc # "idle" => worker.user \in Users

TypeInv == TypeOK /\ WorkerHasUser

\* Only a LATE ticket has a deadline, and the deadline that the worker has
\* seen pass is that of the period it has read: periods only grow.
DeadlineInv ==
    /\ \A u \in Users : status[u] # "LATE" => expiresAt[u] = 0
    /\ worker.pc \in {"update", "commit", "done"} => worker.period <= periods[worker.user]
    /\ worker.pc \in {"update", "commit"} /\ worker.period = periods[worker.user]
           => expiresAt[worker.user] <= now

\* Until its first late period a ticket has no job, but for the one that the
\* open markLate has added.
BeforeFirstPeriod(u) ==
    periods[u] = 0 =>
        /\ status[u] # "LATE"
        /\ u \notin todo
        /\ u \notin marking => job[u] = NoJob
        /\ u \in marking => job[u].state = "waiting" /\ job[u].due = now + Grace

\* During it the job waits for the deadline, or the worker has it and has not
\* yet moved the ticket.
InFirstPeriod(u) ==
    periods[u] = 1 /\ status[u] = "LATE" =>
        \/ job[u].state = "waiting" /\ job[u].due = expiresAt[u]
        \/ /\ job[u].state = "active"
           /\ worker.user = u
           /\ worker.pc \in {"read", "update", "commit"}
           /\ expiresAt[u] <= now

\* A row that markLate has written is locked, and the job the worker has is
\* active.
LockInv ==
    /\ \A u \in marking : status[u] = "SERVING" /\ ~(worker.pc = "commit" /\ worker.user = u)
    /\ worker.pc # "idle" => job[worker.user].state = "active"

JobInv == faults = 0 => LockInv /\ \A u \in Users : BeforeFirstPeriod(u) /\ InFirstPeriod(u)

-----------------------------------------------------------------------------
(* Types. *)

LEMMA ConstantTypes == IdleWorker \in Worker /\ NoJob \in Job
BY DEF IdleWorker, Worker, NoJob, Job

LEMMA TypeInit == Init => TypeInv
<1> SUFFICES ASSUME Init PROVE TypeInv
  OBVIOUS
<1>1. TypeOK
  BY ConstantTypes DEF Init, TypeOK
<1>2. WorkerHasUser
  BY DEF Init, WorkerHasUser, IdleWorker
<1>3. QED
  BY <1>1, <1>2 DEF TypeInv

LEMMA TypeStep ==
    ASSUME TypeInv, [Next]_vars
    PROVE  TypeInv'
<1> USE GraceAssumption, BoundAssumption DEF TypeInv, TypeOK, WorkerHasUser, Job, NoJob, Worker, IdleWorker,
        tickets
<1>1. ASSUME NEW u \in Users, GetServed(u) PROVE TypeInv'
  BY <1>1 DEF GetServed
<1>2. ASSUME NEW u \in Users, GetDone(u) PROVE TypeInv'
  BY <1>2 DEF GetDone
<1>3. ASSUME NEW u \in Users, RejoinLate(u) PROVE TypeInv'
  BY <1>3 DEF RejoinLate
<1>4. ASSUME NEW u \in Users, MarkLate(u) PROVE TypeInv'
  BY <1>4 DEF MarkLate, Enqueue, Add
<1>5. ASSUME NEW u \in Users, CommitMark(u) PROVE TypeInv'
  BY <1>5 DEF CommitMark
<1>6. ASSUME NEW u \in Users, AbortMark(u) PROVE TypeInv'
  BY <1>6 DEF AbortMark
<1>7. ASSUME NEW u \in Users, PickJob(u) PROVE TypeInv'
  BY <1>7 DEF PickJob
<1>8. ASSUME NEW u \in Users, NetAdd(u) PROVE TypeInv'
  BY <1>8 DEF NetAdd, Enqueue, Add
<1>9. CASE ReadTicket
  BY <1>9 DEF ReadTicket
<1>10. CASE UpdateTicket
  BY <1>10 DEF UpdateTicket
<1>11. CASE CommitMissed
  BY <1>11 DEF CommitMissed
<1>12. CASE JobDone
  BY <1>12 DEF JobDone
<1>13. CASE UpdateRejected
  BY <1>13 DEF UpdateRejected, FailJob
<1>14. CASE AbortMissed
  BY <1>14 DEF AbortMissed, FailJob
<1>15. CASE NetScan
  BY <1>15 DEF NetScan
<1>16. CASE FirstUse
  BY <1>16 DEF FirstUse
<1>17. CASE Restart
  <2>1. ASSUME NEW u \in Users PROVE [job[u] EXCEPT !.state = "waiting"] \in Job
    OBVIOUS
  <2>2. job' \in [Users -> Job]
    BY <1>17, <2>1 DEF Restart
  <2>3. worker' \in Worker
    BY <1>17 DEF Restart
  <2>4. worker'.pc = "idle"
    BY <1>17 DEF Restart
  <2> HIDE DEF Job, Worker, NoJob, IdleWorker
  <2>5. marking' \in SUBSET Users /\ todo' \in SUBSET Users
    BY <1>17 DEF Restart
  <2>6. /\ status' \in [Users -> {"OTHER", "SERVING", "LATE", "MISSED"}]
        /\ expiresAt' \in [Users -> Nat] /\ periods' \in [Users -> Nat]
        /\ now' \in Nat
    BY <1>17 DEF Restart
  <2>7. running' \in BOOLEAN
    BY <1>17 DEF Restart
  <2>8. faults' \in Nat
    BY <1>17 DEF Restart
  <2>9. QED
    BY <2>2, <2>3, <2>4, <2>5, <2>6, <2>7, <2>8
<1>18. CASE Tick
  BY <1>18 DEF Tick
<1>19. CASE UNCHANGED vars
  BY <1>19 DEF vars
<1>20. QED
  BY <1>1, <1>2, <1>3, <1>4, <1>5, <1>6, <1>7, <1>8, <1>9, <1>10, <1>11, <1>12, <1>13,
     <1>14, <1>15, <1>16, <1>17, <1>18, <1>19 DEF Next

\* Every variable keeps its type, for any users, grace time, attempts, bounds
\* and faults.
THEOREM ExpiryTypeCorrect == Spec => []TypeOK
<1>1. TypeInv => TypeOK
  BY DEF TypeInv
<1>2. QED
  BY TypeInit, TypeStep, <1>1, PTL DEF Spec

-----------------------------------------------------------------------------
(* Deadlines. *)

LEMMA DeadlineInit == Init => DeadlineInv
BY DEF Init, DeadlineInv, IdleWorker

LEMMA DeadlineStep ==
    ASSUME TypeInv, DeadlineInv, [Next]_vars
    PROVE  DeadlineInv'
<1> USE GraceAssumption DEF TypeInv, TypeOK, WorkerHasUser, DeadlineInv, Worker, IdleWorker, tickets
<1>1. ASSUME NEW u \in Users, GetServed(u) PROVE DeadlineInv'
  BY <1>1 DEF GetServed
<1>2. ASSUME NEW u \in Users, GetDone(u) PROVE DeadlineInv'
  BY <1>2 DEF GetDone
<1>3. ASSUME NEW u \in Users, RejoinLate(u) PROVE DeadlineInv'
  BY <1>3 DEF RejoinLate
<1>4. ASSUME NEW u \in Users, MarkLate(u) PROVE DeadlineInv'
  BY <1>4 DEF MarkLate, Enqueue, Add
<1>5. ASSUME NEW u \in Users, CommitMark(u) PROVE DeadlineInv'
  BY <1>5 DEF CommitMark
<1>6. ASSUME NEW u \in Users, AbortMark(u) PROVE DeadlineInv'
  BY <1>6 DEF AbortMark
<1>7. ASSUME NEW u \in Users, PickJob(u) PROVE DeadlineInv'
  BY <1>7 DEF PickJob
<1>8. ASSUME NEW u \in Users, NetAdd(u) PROVE DeadlineInv'
  BY <1>8 DEF NetAdd, Enqueue, Add
<1>9. CASE ReadTicket
  BY <1>9 DEF ReadTicket, Expired
<1>10. CASE UpdateTicket
  BY <1>10 DEF UpdateTicket, Unlocked
<1>11. CASE CommitMissed
  BY <1>11 DEF CommitMissed
<1>12. CASE JobDone
  BY <1>12 DEF JobDone
<1>13. CASE UpdateRejected
  BY <1>13 DEF UpdateRejected, FailJob
<1>14. CASE AbortMissed
  BY <1>14 DEF AbortMissed, FailJob
<1>15. CASE NetScan
  BY <1>15 DEF NetScan
<1>16. CASE FirstUse
  BY <1>16 DEF FirstUse
<1>17. CASE Restart
  BY <1>17 DEF Restart
<1>18. CASE Tick
  BY <1>18 DEF Tick
<1>19. CASE UNCHANGED vars
  BY <1>19 DEF vars
<1>20. QED
  BY <1>1, <1>2, <1>3, <1>4, <1>5, <1>6, <1>7, <1>8, <1>9, <1>10, <1>11, <1>12, <1>13,
     <1>14, <1>15, <1>16, <1>17, <1>18, <1>19 DEF Next

\* A job of an earlier late period ends no later one early: what the worker
\* turns MISSED in the period it has read has expired.
THEOREM StaleJobsHarmless == Spec => StaleJobHarmless
<1> DEFINE Harmless(u) == /\ worker.pc = "commit" /\ worker.user = u
                          /\ status'[u] # status[u]
                          /\ worker.period = periods[u]
                          => expiresAt[u] <= now
<1>1. TypeInv /\ DeadlineInv => \A u \in Users : Harmless(u)
  BY DEF DeadlineInv
<1>2. Spec => [](TypeInv /\ DeadlineInv)
  BY TypeInit, TypeStep, DeadlineInit, DeadlineStep, PTL DEF Spec
<1>3. QED
  BY <1>1, <1>2, PTL DEF StaleJobHarmless

-----------------------------------------------------------------------------
(* The job of the first late period. *)

LEMMA JobInit == Init => JobInv
BY DEF Init, JobInv, LockInv, BeforeFirstPeriod, InFirstPeriod, IdleWorker

LEMMA JobStep ==
    ASSUME TypeInv, JobInv, [Next]_vars
    PROVE  JobInv'
<1> USE GraceAssumption DEF TypeInv, TypeOK, WorkerHasUser, Job, NoJob, Worker, IdleWorker, tickets,
        JobInv, LockInv, BeforeFirstPeriod, InFirstPeriod
<1>1. ASSUME NEW u \in Users, GetServed(u) PROVE JobInv'
  BY <1>1 DEF GetServed
<1>2. ASSUME NEW u \in Users, GetDone(u) PROVE JobInv'
  BY <1>2 DEF GetDone, Unlocked
<1>3. ASSUME NEW u \in Users, RejoinLate(u) PROVE JobInv'
  BY <1>3 DEF RejoinLate, Unlocked
<1>4. ASSUME NEW u \in Users, MarkLate(u) PROVE JobInv'
  BY <1>4 DEF MarkLate, Enqueue, Add, Unlocked
<1>5. ASSUME NEW u \in Users, CommitMark(u) PROVE JobInv'
  <2> SUFFICES ASSUME faults' = 0 PROVE LockInv' /\ \A v \in Users : (BeforeFirstPeriod(v) /\ InFirstPeriod(v))'
    OBVIOUS
  <2>1. LockInv'
    BY <1>5 DEF CommitMark
  <2>2. ASSUME NEW v \in Users PROVE BeforeFirstPeriod(v)'
    BY <1>5 DEF CommitMark
  <2>3. ASSUME NEW v \in Users, v # u PROVE InFirstPeriod(v)'
    BY <1>5, <2>3 DEF CommitMark
  <2>4. InFirstPeriod(u)'
    <3>1. CASE periods[u] = 0
      <4>1. job[u].state = "waiting" /\ job[u].due = now + Grace
        BY <1>5, <3>1 DEF CommitMark
      <4>2. job' = job /\ expiresAt'[u] = now + Grace
        BY <1>5 DEF CommitMark
      <4>3. QED
        BY <4>1, <4>2
    <3>2. periods'[u] = periods[u] + 1 /\ periods[u] \in Nat
      BY <1>5 DEF CommitMark
    <3>3. CASE periods[u] # 0
      <4>1. periods'[u] # 1
        BY ONLY <3>2, <3>3
      <4>2. QED
        BY <4>1
    <3>4. QED
      BY <3>1, <3>3
  <2>5. QED
    BY <2>1, <2>2, <2>3, <2>4
<1>6. ASSUME NEW u \in Users, AbortMark(u) PROVE JobInv'
  BY <1>6 DEF AbortMark
<1>7. ASSUME NEW u \in Users, PickJob(u) PROVE JobInv'
  BY <1>7 DEF PickJob
<1>8. ASSUME NEW u \in Users, NetAdd(u) PROVE JobInv'
  BY <1>8 DEF NetAdd, Enqueue, Add
<1>9. CASE ReadTicket
  BY <1>9 DEF ReadTicket, Expired
<1>10. CASE UpdateTicket
  BY <1>10 DEF UpdateTicket, Unlocked
<1>11. CASE CommitMissed
  BY <1>11 DEF CommitMissed
<1>12. CASE JobDone
  BY <1>12 DEF JobDone
<1>13. CASE UpdateRejected
  BY <1>13 DEF UpdateRejected, FailJob
<1>14. CASE AbortMissed
  BY <1>14 DEF AbortMissed, FailJob
<1>15. CASE NetScan
  BY <1>15 DEF NetScan, Expired
<1>16. CASE FirstUse
  BY <1>16 DEF FirstUse
<1>17. CASE Restart
  BY <1>17 DEF Restart
<1>18. CASE Tick
  BY <1>18 DEF Tick
<1>19. CASE UNCHANGED vars
  BY <1>19 DEF vars
<1>20. QED
  BY <1>1, <1>2, <1>3, <1>4, <1>5, <1>6, <1>7, <1>8, <1>9, <1>10, <1>11, <1>12, <1>13,
     <1>14, <1>15, <1>16, <1>17, <1>18, <1>19 DEF Next

\* Without faults the first late period of a ticket keeps its job, whatever the
\* safety net and the other jobs do.
THEOREM FirstPeriodWatched == Spec => []FirstPeriodHasJob
<1>1. TypeInv /\ JobInv => FirstPeriodHasJob
  BY DEF TypeInv, TypeOK, JobInv, InFirstPeriod, FirstPeriodHasJob
<1>2. QED
  BY TypeInit, TypeStep, JobInit, JobStep, <1>1, PTL DEF Spec
=============================================================================
