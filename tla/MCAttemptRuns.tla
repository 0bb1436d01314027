---------------------------- MODULE MCAttemptRuns ----------------------------
(* Small instances of AttemptRuns. *)
EXTENDS AttemptRuns
=============================================================================
