-------------------------- MODULE MCRefreshTokens --------------------------
(* Instances of RefreshTokens for TLC. *)
EXTENDS RefreshTokens, TLC

CONSTANTS c1, c2, h1, h2

TwoClients  == {c1, c2}
TwoHandlers == {h1, h2}

\* Browsers and handlers are interchangeable.
TwoTwo == Permutations(TwoClients) \cup Permutations(TwoHandlers)
=============================================================================
