----------------------------- MODULE MCReview -----------------------------
(* One review of a short-lived worker for TLC.                             *)
EXTENDS ReviewFreeze
=============================================================================
