---------------------------- MODULE JobLifecycle ----------------------------
(***************************************************************************)
(* What a bulk-download job promises to the visitor who started it         *)
(* (docs/specs/api.md, "Bulk Download"): it is processing until it is      *)
(* either ready, with an archive that holds every requested file, or       *)
(* failed; a ready job is withdrawn once, together with its archive.  How  *)
(* the files are fetched, staged and packed is not visible here.           *)
(***************************************************************************)
CONSTANT Wanted         \* the files the visitor asked for

VARIABLES
  phase,                \* what a lookup of the job answers
  contents              \* the files in the job's archive on disk

lifecycleVars == <<phase, contents>>

Phases == {"processing", "ready", "failed", "gone"}

LifecycleInit ==
  /\ phase = "processing"
  /\ contents = {}

\* The archive only grows while the job is processing.
Pack ==
  /\ phase = "processing"
  /\ contents' \in SUBSET Wanted
  /\ contents \subseteq contents'
  /\ UNCHANGED phase

\* A job becomes ready only with everything that was asked for.
Publish ==
  /\ phase = "processing"
  /\ contents = Wanted
  /\ phase' = "ready"
  /\ UNCHANGED contents

GiveUp ==
  /\ phase = "processing"
  /\ phase' = "failed"
  /\ UNCHANGED contents

\* Whatever a failed job had packed is thrown away.
Discard ==
  /\ phase = "failed"
  /\ contents' = {}
  /\ UNCHANGED phase

\* The job and its archive disappear in one step.
Withdraw ==
  /\ phase = "ready"
  /\ phase' = "gone"
  /\ contents' = {}

LifecycleNext == Pack \/ Publish \/ GiveUp \/ Discard \/ Withdraw

LifecycleSpec == LifecycleInit /\ [][LifecycleNext]_lifecycleVars
=============================================================================
