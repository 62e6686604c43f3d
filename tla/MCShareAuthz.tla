---------------------------- MODULE MCShareAuthz ----------------------------
(* Two requests at a time, a share with either of two passwords or none,   *)
(* and visitors who send either of them or none.                           *)
EXTENDS ShareAuthz, TLC

CONSTANTS r1, r2, p1, p2

MCRequests == {r1, r2}
MCPasswords == {p1, p2}
MCSent == {p1, None}
Symmetry == Permutations(MCRequests)
=============================================================================
