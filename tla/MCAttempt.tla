----------------------------- MODULE MCAttempt -----------------------------
(* One RunSlot; the Attempts, launches and disturbances are bounded by the cfg. *)
EXTENDS AttemptRun

=============================================================================
