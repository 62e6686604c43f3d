--------------------------- MODULE MCBulkDownload ---------------------------
(* Two browsers, two jobs in all, one slot: both can be admitted on the last *)
(* slot, and one can start the second job while the first still exists; a   *)
(* second share for the tab that moves on.                                  *)
EXTENDS BulkDownload, TLC

CONSTANTS c1, c2, j1, j2, s1, s2

MCClients == {c1, c2}
MCOneClient == {c1}
MCJobs == {j1, j2}
MCShares == {s1, s2}
MCOneShare == {s1}
Symmetry == Permutations(MCClients) \cup Permutations(MCJobs)
              \cup Permutations(MCShares)
=============================================================================
