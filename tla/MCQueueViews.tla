---------------------------- MODULE MCQueueViews ----------------------------
(* Instances of QueueViews for TLC. *)
EXTENDS QueueViews, TLC

CONSTANTS u1, h1, h2, p1, r1

OneUser      == {u1}
OneHandler   == {h1}
TwoHandlers  == {h1, h2}
OnePromotion == {p1}
NoPromotion  == {}
OneReader    == {r1}

\* Handlers are interchangeable.
Handlers2 == Permutations(TwoHandlers)
=============================================================================
