------------------------------- MODULE MCLab -------------------------------
(* One Lab with its Controller and one worker, for TLC.                    *)
EXTENDS LabLifecycle
=============================================================================
