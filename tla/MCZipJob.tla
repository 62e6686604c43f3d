------------------------------ MODULE MCZipJob ------------------------------
(* Three files, two workers, two attempts: the second worker takes the last *)
(* task while the first is still busy, and both retry and exhaustion occur. *)
EXTENDS ZipJob

MCNAssets == 3
MCWorkerLimit == 2
MCMaxAttempts == 2
=============================================================================
