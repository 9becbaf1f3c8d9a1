-------------------------- MODULE MessageLifecycle --------------------------
(***************************************************************************)
(* What the mailbox promises the sender of a message, without presence,    *)
(* leases, clocks, policies or sweeps: a message is submitted once, is     *)
(* tried a bounded number of times, and settles once.  A text may be       *)
(* admitted before it is consumed; a control is consumed in one step.      *)
(* One transaction may move several messages, so the next-state relation   *)
(* speaks of every message and lets each of them take one step.            *)
(***************************************************************************)
EXTENDS Naturals

CONSTANTS Messages, Texts, MaxAttempts

VARIABLES
    status,     \* status[m]: where message m stands
    tries       \* tries[m]: how often its delivery was attempted

LInit ==
    /\ status = [m \in Messages |-> "absent"]
    /\ tries = [m \in Messages |-> 0]

Stay(m) == status'[m] = status[m] /\ tries'[m] = tries[m]

Submit(m) ==
    /\ status[m] = "absent" /\ status'[m] = "queued"
    /\ tries'[m] = 0

Try(m) ==
    /\ status[m] = "queued" /\ status'[m] = "queued"
    /\ tries[m] < MaxAttempts
    /\ tries'[m] = tries[m] + 1

Admit(m) ==
    /\ m \in Texts
    /\ status[m] = "queued" /\ status'[m] = "accepted"
    /\ tries'[m] = tries[m]

(* A control is consumed only by a delivery attempt. *)
Consume(m) ==
    /\ status[m] \in {"queued", "accepted"} /\ status'[m] = "claimed"
    /\ m \in Texts \/ tries[m] > 0
    /\ tries'[m] = tries[m]

(* An admitted message may still be dropped, but it no longer expires. *)
Drop(m) ==
    /\ \/ status[m] \in {"queued", "accepted"} /\ status'[m] = "failed"
       \/ status[m] = "queued" /\ status'[m] = "expired"
    /\ tries'[m] = tries[m]

LNext ==
    \A m \in Messages :
        Stay(m) \/ Submit(m) \/ Try(m) \/ Admit(m) \/ Consume(m) \/ Drop(m)

LSpec == LInit /\ [][LNext]_<<status, tries>>

=============================================================================
