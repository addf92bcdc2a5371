-------------------------- MODULE TicketLifecycle --------------------------
(***************************************************************************)
(* What the queue promises about the statuses of its tickets, whatever the *)
(* interleaving of requests, workers and crashes: each committed change    *)
(* moves one ticket along one edge of the status graph, or serves several  *)
(* waiting tickets at once within the service slots, or changes the        *)
(* settings, or deletes the queue with all its tickets.                    *)
(***************************************************************************)
EXTENDS Naturals, FiniteSets

CONSTANT Users

VARIABLES status,   \* status[u]: the committed status of u's ticket, or "NONE"
          slots,    \* the service slots of the queue
          open      \* the queue exists

vars == <<status, slots, open>>

\* The status graph without WAITING -> SERVING, which is a promotion.  A LATE
\* ticket becomes MISSED by expiry or by a rejoin that comes too late.  The
\* leave of a LATE ticket is the code's: docs/TRANSITIONS.md does not list it
\* (OnlyListedTransitions in QueueGuarantees).
Edges ==
    { <<"NONE", "WAITING">>,
      <<"WAITING", "CANCELLED">>,
      <<"SERVING", "COMPLETED">>, <<"SERVING", "LATE">>, <<"SERVING", "CANCELLED">>,
      <<"LATE", "WAITING">>, <<"LATE", "MISSED">>, <<"LATE", "CANCELLED">>,
      <<"CANCELLED", "WAITING">>, <<"MISSED", "WAITING">> }

Having(s) == {u \in Users : status[u] = s}

Init == /\ status = [u \in Users |-> "NONE"]
        /\ slots \in Nat \ {0}
        /\ open = TRUE

\* One ticket moves along one edge.
Move(u) == /\ open
           /\ \E s \in {e[2] : e \in Edges} :
                 /\ <<status[u], s>> \in Edges
                 /\ status' = [status EXCEPT ![u] = s]
           /\ UNCHANGED <<slots, open>>

\* The waiting tickets in S are served together; all of them have a slot.
Promote(S) == /\ open
              /\ S # {}
              /\ S \subseteq Having("WAITING")
              /\ Cardinality(Having("SERVING") \cup S) <= slots
              /\ status' = [u \in Users |-> IF u \in S THEN "SERVING" ELSE status[u]]
              /\ UNCHANGED <<slots, open>>

Configure == /\ open
             /\ slots' \in Nat \ {0}
             /\ UNCHANGED <<status, open>>

Delete == /\ open
          /\ open' = FALSE
          /\ status' = [u \in Users |-> "NONE"]
          /\ UNCHANGED slots

Next == \/ \E u \in Users : Move(u)
        \/ \E S \in SUBSET Users : Promote(S)
        \/ Configure
        \/ Delete

Spec == Init /\ [][Next]_vars
=============================================================================
