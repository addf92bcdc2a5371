------------------------ MODULE MCQueueTransactions ------------------------
(* Instances of QueueTransactions for TLC. *)
EXTENDS QueueGuarantees, TLC

CONSTANTS u1, u2, u3, h1, h2, h3

TwoUsers      == {u1, u2}
ThreeUsers    == {u1, u2, u3}
OneHandler    == {h1}
TwoHandlers   == {h1, h2}
ThreeHandlers == {h1, h2, h3}

\* Users and handlers are interchangeable.
ThreeOne   == Permutations(ThreeUsers)
TwoTwo     == Permutations(TwoUsers) \cup Permutations(TwoHandlers)
ThreeTwo   == Permutations(ThreeUsers) \cup Permutations(TwoHandlers)
TwoThree   == Permutations(TwoUsers) \cup Permutations(ThreeHandlers)
ThreeThree == Permutations(ThreeUsers) \cup Permutations(ThreeHandlers)
=============================================================================
