--------------------------- MODULE MCTokenBinding ---------------------------
(* Small instances of TokenBinding for TLC.                                *)
EXTENDS TokenBinding, TLC

CONSTANTS k1, k2

\* Every token was issued to the key k1, so the tokens are interchangeable too.
MCPinned == [t \in Tokens |-> k1]

MCSymmetry == Permutations(Requests) \cup Permutations(Nonces) \cup Permutations(Tokens)
=============================================================================
