------------------------------ MODULE RunSlot ------------------------------
(***************************************************************************)
(* What a RunSlot promises about its Attempts, without receipts, tmux or   *)
(* wake-ups (dsh-autolab/src/trial.ts): Attempts come one after another,   *)
(* each runs its command at most once, and the phase that is on record     *)
(* never claims more than what happened.                                   *)
(***************************************************************************)
EXTENDS Naturals

CONSTANT MaxAttempts    \* bound on the Attempts of the RunSlot

VARIABLES
    ordinal,    \* the current Attempt, 0 before the first
    phase,      \* its phase on record
    run         \* run[a]: what became of the command of Attempt a

slotVars == <<ordinal, phase, run>>

Ended == {"ok", "failed"}

SlotInit ==
    /\ ordinal = 0
    /\ phase = "pending"
    /\ run = [a \in 1..MaxAttempts |-> "none"]

(* createInitialAttempt, createRetryAttempt: an Attempt follows only one that
   is recorded as failed. *)
Order ==
    /\ ordinal < MaxAttempts
    /\ \/ phase = "pending"
       \/ phase = "terminal" /\ run[ordinal] = "failed"
    /\ ordinal' = ordinal + 1
    /\ phase' = "launching"
    /\ UNCHANGED run

(* The command of the current Attempt starts, or cannot be spawned. *)
Run ==
    /\ ordinal > 0
    /\ phase # "terminal"
    /\ run[ordinal] = "none"
    /\ \E r \in {"running", "failed"} : run' = [run EXCEPT ![ordinal] = r]
    /\ UNCHANGED <<ordinal, phase>>

End ==
    /\ ordinal > 0
    /\ run[ordinal] = "running"
    /\ \E r \in Ended : run' = [run EXCEPT ![ordinal] = r]
    /\ UNCHANGED <<ordinal, phase>>

RecordStart ==
    /\ phase \in {"launching", "outcome_unknown"}
    /\ phase' = "running"
    /\ UNCHANGED <<ordinal, run>>

RecordUnknown ==
    /\ phase \in {"launching", "running"}
    /\ phase' = "outcome_unknown"
    /\ UNCHANGED <<ordinal, run>>

RecordCompletion ==
    /\ phase \in {"launching", "running", "outcome_unknown"}
    /\ run[ordinal] \in Ended
    /\ phase' = "terminal"
    /\ UNCHANGED <<ordinal, run>>

SlotNext ==
    Order \/ Run \/ End \/ RecordStart \/ RecordUnknown \/ RecordCompletion

SlotSpec == SlotInit /\ [][SlotNext]_slotVars

=============================================================================
