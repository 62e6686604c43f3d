--------------------------- MODULE MCRateLimiter ---------------------------
(* Two tokens a window, three requests at a time: the clock runs past two   *)
(* resets and past the deletion of an idle visitor.                         *)
EXTENDS RateLimiter, TLC

CONSTANTS r1, r2, r3, a

MCRequests == {r1, r2, r3}
MCIPs == {a}
Symmetry == Permutations(MCRequests)
=============================================================================
