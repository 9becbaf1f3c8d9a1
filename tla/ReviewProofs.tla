--------------------------- MODULE ReviewProofs ---------------------------
(***************************************************************************)
(* Proofs about ReviewFreeze: its type correctness, that a review resolved *)
(* has had its effect, that a held freeze is held, and that the Judge sees *)
(* work that stands still, for any number of deliveries, turns and         *)
(* disturbances.                                                           *)
(***************************************************************************)
EXTENDS ReviewFreeze, TLAPS

-----------------------------------------------------------------------------
(* The inductive invariants.                                               *)

(* A delivery is of a queued control, and only the acknowledgement has the *)
(* outcomes of a pause.  What was never sent was never tried.              *)
DeliveryInv ==
    /\ \A c \in Controls :
          /\ ctl[c].run # "no" => ctl[c].status = "queued"
          /\ ctl[c].status = "none" => ctl[c].tries = 0
    /\ ctl["ack"].run # "sent"

(* The runtime that is down has no Agents, tasks or start.                 *)
DownInv ==
    /\ kernel.mode = "down" =>
          ~worker.live /\ worker.turn = 0 /\ assign.at = "none"
    /\ ~Open => /\ kernel.start = "none" /\ kernel.asked = 0
                /\ acq.at = "none" /\ todo = {}

(* Nothing of a review is there before it is requested.                    *)
NewInv ==
    /\ ~Requested =>
          /\ \A c \in Controls : ctl[c].status = "none"
          /\ review = NoReview /\ judge.wake = "none" /\ ~kernel.dispatch
          /\ lab.phase = "working" /\ lab.install.asg = 1
    /\ Requested => review.turn # 0

(* The freeze follows the outcome of the acknowledgement.                  *)
OutcomeInv ==
    /\ ctl["ack"].status = "completed" <=> ctl["ack"].found # "no"
    /\ "record" \in todo => ctl["ack"].status = "completed"
    /\ review.freeze \in {"stopped", "held", "hold-pending"} =>
          ctl["ack"].found \in {"pause", "applied", "no-goal"}

(* The turn of the submission is not open; it never is again.              *)
TurnOver == worker.turn = 0 \/ worker.turn # review.turn

TurnInv ==
    /\ worker.turn \in {0, worker.last}
    /\ kernel.asked <= worker.last /\ review.turn <= worker.last
    /\ ctl["ack"].status = "completed" /\ ctl["ack"].found # "stale"
          /\ ctl["ack"].obs # review.turn => TurnOver
    /\ review.freeze = "hold-pending" => review.obs = review.turn
    /\ acq.at # "none" => review.freeze = "hold-pending"
    /\ acq.at = "cancelled" => acq.turn = review.turn
    /\ acq.at = "joined" => TurnOver
    /\ acq.at = "finish" /\ acq.as \in {"stopped", "held"} => TurnOver
    /\ review.freeze \in {"stopped", "held"} => TurnOver
    /\ judge.wake # "none" => review.freeze \in {"stopped", "held"}

(* Only the present owner's hold counts, and it is given back after the    *)
(* resolution.                                                             *)
HoldInv ==
    /\ review.holder <= kernel.epoch
    /\ HeldMeansHeld
    /\ acq.at = "finish" /\ acq.as = "held" =>
          kernel.hold /\ (worker.maint = "hold" \/ touched)
    /\ assign.at = "release" => review.resolved
    /\ review.resolved => review.freeze = "stopped"

(* The Goal of the next Assignment reaches the disk before it is called    *)
(* applied, and stays there.                                               *)
EffectInv ==
    /\ lab.install.asg = 1 => goal.asg = 1 /\ ~review.resolved
    /\ saved.asg = 2 => goal.asg = 2
    /\ assign.at \in {"install", "again", "flush", "commit"} => lab.install.asg = 2
    /\ assign.at = "flush" => goal.asg = 2
    /\ assign.at = "commit" => saved.asg = 2
    /\ lab.install.asg = 2 /\ lab.install.status = "applied" => saved.asg = 2
    /\ lab.install.asg = 2 /\ kernel.start = "applied" => saved.asg = 2
    /\ review.resolved => saved.asg = 2

(* The Goal under review rests.                                            *)
Rests(g) == ~(g.asg = 1 /\ g.phase = "active")

RestInv ==
    /\ Requested /\ lab.install.asg = 1 =>
          /\ lab.phase = "reviewing" /\ lab.install.status = "applied"
          /\ kernel.start \notin {"install", "applied", "failed"}
    /\ ctl["ack"].run \in {"pause", "applied"} /\ ~touched => Rests(goal)
    /\ ctl["ack"].found \in {"pause", "applied"} /\ ~touched =>
          Rests(goal) /\ Rests(saved)

ReviewInv ==
    /\ TypeOK /\ DeliveryInv /\ DownInv /\ NewInv /\ OutcomeInv
    /\ TurnInv /\ HoldInv /\ EffectInv /\ RestInv
-----------------------------------------------------------------------------
(* The values the actions give to the variables.                           *)

LEMMA GoalValues ==
    ASSUME TypeOK
    PROVE  /\ goal \in Goals /\ saved \in Goals
           /\ \A g \in Goals, phase \in {"active", "paused", "complete"} :
                 Raised(g, phase) \in Goals
           /\ Installed \in Goals /\ Installed.rev \in Nat /\ Installed.asg \in {1, 2}
           /\ lab.install.asg \in {1, 2}
<1>1. goal \in Goals /\ saved \in Goals /\ lab.install.asg \in {1, 2}
  BY DEF TypeOK, Labs, Installs
<1>2. ASSUME NEW g \in Goals, NEW phase \in {"active", "paused", "complete"}
      PROVE  Raised(g, phase) \in Goals
  <2>1. g.rev + 1 \in Nat
    BY <1>2 DEF Goals
  <2> QED BY <1>2, <2>1 DEF Goals, Raised
<1>3. Installed \in Goals
  <2>1. [asg |-> lab.install.asg, rev |-> 1, phase |-> "active"] \in Goals
    BY <1>1 DEF Goals
  <2> QED BY <1>1, <1>2, <2>1 DEF Installed
<1> QED BY <1>1, <1>2, <1>3 DEF Goals

LEMMA KernelValues ==
    ASSUME TypeOK
    PROVE  /\ kernel \in Kernels /\ Gone \in Kernels
           /\ \A b \in BOOLEAN : /\ [kernel EXCEPT !.dispatch = b] \in Kernels
                                 /\ [kernel EXCEPT !.hold = b] \in Kernels
                                 /\ [kernel EXCEPT !.asked = 0, !.dispatch = b] \in Kernels
           /\ [kernel EXCEPT !.asked = worker.turn] \in Kernels
           /\ \A s \in {"none", "activate", "stage", "install", "failed", "replay"} :
                 [kernel EXCEPT !.start = s] \in Kernels
           /\ [kernel EXCEPT !.start = "applied", !.rev = Installed.rev] \in Kernels
           /\ [kernel EXCEPT !.start = "replay", !.rev = 0] \in Kernels
           /\ [kernel EXCEPT !.mode = "closing", !.asked = 0] \in Kernels
           /\ [kernel EXCEPT !.mode = "open", !.epoch = @ + 1,
                             !.start = "activate"] \in Kernels
<1>1. kernel \in Kernels /\ worker.turn \in Nat /\ Installed.rev \in Nat
  BY GoalValues DEF TypeOK, Workers
<1>2. kernel.epoch + 1 \in Nat
  BY <1>1 DEF Kernels
<1> QED BY <1>1, <1>2 DEF Kernels, Gone

LEMMA WorkerValues ==
    ASSUME TypeOK
    PROVE  /\ worker \in Workers /\ JobEnded \in Workers /\ Unloaded \in Workers
           /\ [worker EXCEPT !.turn = worker.last + 1, !.last = @ + 1] \in Workers
           /\ [worker EXCEPT !.turn = 0] \in Workers
           /\ \A m \in {"none", "hold", "job"} : [worker EXCEPT !.maint = m] \in Workers
           /\ \A b \in BOOLEAN : [worker EXCEPT !.live = b] \in Workers
<1>1. worker \in Workers
  BY DEF TypeOK
<1>2. worker.last + 1 \in Nat
  BY <1>1 DEF Workers
<1>3. \A m \in {"none", "hold", "job"} : [worker EXCEPT !.maint = m] \in Workers
  BY <1>1 DEF Workers
<1>4. JobEnded \in Workers
  <2> DEFINE m == IF worker.maint = "job" THEN "none" ELSE worker.maint
  <2>1. m \in {"none", "hold", "job"} /\ JobEnded = [worker EXCEPT !.maint = m]
    BY <1>1 DEF Workers, JobEnded
  <2> HIDE DEF m
  <2> QED BY <1>3, <2>1
<1> QED BY <1>1, <1>2, <1>3, <1>4 DEF Workers, Unloaded

LEMMA JudgeValues ==
    ASSUME TypeOK
    PROVE  /\ judge \in Judges /\ Woken \in Judges
           /\ [judge EXCEPT !.wake = "logged"] \in Judges
           /\ \A b \in BOOLEAN : [judge EXCEPT !.live = b] \in Judges
           /\ \A w \in {"none", "logged", judge.wake} : [live |-> FALSE, wake |-> w] \in Judges
<1>1. judge \in Judges
  BY DEF TypeOK
<1>2. [judge EXCEPT !.wake = "mem"] \in Judges
  BY <1>1 DEF Judges
<1>3. Woken \in Judges
  BY <1>1, <1>2 DEF Woken
<1> QED BY <1>1, <1>3 DEF Judges

LEMMA AcqValues ==
    ASSUME TypeOK
    PROVE  /\ acq \in Acquisitions /\ NoAcquisition \in Acquisitions
           /\ \A as \in {"stopped", "held", "user-override"} : Finish(as) \in Acquisitions
           /\ \A at \in {"cancelled", "joined"} : Join(at) \in Acquisitions
<1>1. acq \in Acquisitions /\ worker.turn \in Nat /\ 0 \in Nat
  BY DEF TypeOK, Workers
<1> QED BY <1>1 DEF Acquisitions, NoAcquisition, Finish, Join

LEMMA AssignValues ==
    ASSUME TypeOK
    PROVE  /\ assign \in Assigns /\ NoAssign \in Assigns /\ Installing \in Assigns
           /\ [NoAssign EXCEPT !.at = "release"] \in Assigns
           /\ [assign EXCEPT !.at = "flush", !.rev = Installed.rev] \in Assigns
           /\ [assign EXCEPT !.at = "again", !.turn = worker.turn] \in Assigns
           /\ [assign EXCEPT !.at = "commit"] \in Assigns
           /\ [assign EXCEPT !.fresh = FALSE] \in Assigns
<1>1. /\ assign \in Assigns /\ worker.turn \in Nat /\ Installed.rev \in Nat
      /\ 0 \in Nat
  BY GoalValues DEF TypeOK, Workers
<1> QED BY <1>1 DEF Assigns, NoAssign, Installing

LEMMA ReviewValues ==
    ASSUME TypeOK
    PROVE  /\ review \in Reviews /\ NoReview \in Reviews /\ Resolved(review) \in Reviews
           /\ \A f \in Freezes, o \in Nat : [review EXCEPT !.freeze = f, !.obs = o] \in Reviews
           /\ \A f \in Freezes, o \in Nat : [review EXCEPT !.freeze = f, !.holder = o] \in Reviews
           /\ [review EXCEPT !.output = TRUE] \in Reviews
           /\ [NoReview EXCEPT !.freeze = "pending", !.turn = kernel.asked,
                               !.rev = goal.rev] \in Reviews
           /\ \A e \in Nat : Recovered(review, e) \in Reviews
<1>1. review \in Reviews /\ kernel.asked \in Nat /\ goal.rev \in Nat /\ 0 \in Nat
  BY DEF TypeOK, Labs, Kernels, Goals, review
<1> QED BY <1>1 DEF Reviews, Freezes, NoReview, Resolved, Recovered

LEMMA LabValues ==
    ASSUME TypeOK
    PROVE  /\ lab \in Labs
           /\ \A r \in Reviews : [lab EXCEPT !.review = r] \in Labs
           /\ \A r \in Reviews : [lab EXCEPT !.phase = "reviewing", !.review = r] \in Labs
           /\ \A i \in Installs : [lab EXCEPT !.install = i] \in Labs
           /\ \A i \in Installs : [lab EXCEPT !.phase = "working", !.install = i] \in Labs
           /\ \A i \in Installs, r \in Reviews :
                 [lab EXCEPT !.phase = "working", !.review = r, !.install = i] \in Labs
           /\ \A b \in SUBSET Roles : [lab EXCEPT !.blocked = b] \in Labs
           /\ \A b \in SUBSET Roles, i \in Installs :
                 [lab EXCEPT !.blocked = b, !.install = i] \in Labs
           /\ lab.install \in Installs
<1>1. lab \in Labs
  BY DEF TypeOK
<1> QED BY <1>1 DEF Labs

-----------------------------------------------------------------------------
(* Types, one variable at a time.                                          *)

LEMMA LabTyped ==
    ASSUME TypeOK, [Next]_vars
    PROVE  lab' \in Labs
<1>1. CASE RunSubmission
  BY <1>1, LabValues, ReviewValues DEF RunSubmission, QueueFree, Open,
      Requested, review
<1>2. CASE RecordOutcome
  <2>1. Freeze(ctl["ack"]) \in Freezes /\ ctl["ack"].obs \in Nat
    BY DEF TypeOK, Controls, Deliveries, Freeze, Freezes
  <2>2. [lab EXCEPT !.review.freeze = Freeze(ctl["ack"]), !.review.obs = ctl["ack"].obs]
          = [lab EXCEPT !.review = [review EXCEPT !.freeze = Freeze(ctl["ack"]),
                                                  !.obs = ctl["ack"].obs]]
    BY LabValues DEF Labs, Reviews, review
  <2>3. [review EXCEPT !.freeze = Freeze(ctl["ack"]), !.obs = ctl["ack"].obs] \in Reviews
    BY <2>1, ReviewValues
  <2>4. lab' \in {lab, [lab EXCEPT !.review.freeze = Freeze(ctl["ack"]),
                                 !.review.obs = ctl["ack"].obs]}
    BY <1>2 DEF RecordOutcome
  <2> QED BY <2>2, <2>3, <2>4, LabValues
<1>3. CASE FinishFreeze
  <2>1. acq.as \in Freezes /\ kernel.epoch \in Nat /\ 0 \in Nat
    BY DEF TypeOK, Acquisitions, Freezes, Kernels
  <2> DEFINE holder == IF acq.as = "held" THEN kernel.epoch ELSE 0
  <2>3. [review EXCEPT !.freeze = acq.as, !.holder = holder] \in Reviews
    BY <2>1, ReviewValues
  <2>4. lab' \in {lab, [lab EXCEPT !.review.freeze = acq.as, !.review.holder = holder]}
    BY <1>3 DEF FinishFreeze
  <2>2. [lab EXCEPT !.review.freeze = acq.as, !.review.holder = holder]
          = [lab EXCEPT !.review = [review EXCEPT !.freeze = acq.as, !.holder = holder]]
    BY LabValues DEF Labs, Reviews, review
  <2> HIDE DEF holder
  <2> QED BY <2>2, <2>3, <2>4, LabValues
<1>4. CASE RecordVerdict
  <2>1. [lab EXCEPT !.review.output = TRUE]
           = [lab EXCEPT !.review = [review EXCEPT !.output = TRUE]]
    BY LabValues DEF Labs, Reviews, review
  <2> QED BY <1>4, <2>1, LabValues, ReviewValues DEF RecordVerdict
<1>5. CASE StageAssignment
  <2>1. [asg |-> 2, status |-> "activating", ref |-> [asg |-> goal.asg, rev |-> goal.rev]]
           \in Installs
    BY GoalValues DEF Installs, Refs, Goals
  <2> QED BY <1>5, <2>1, LabValues DEF StageAssignment
<1>6. CASE RepeatAssignment
  BY <1>6, LabValues, ReviewValues DEF RepeatAssignment, review
<1>7. CASE CommitAssignment
  <2>1. [asg |-> 2, status |-> "applied", ref |-> [asg |-> 2, rev |-> assign.rev]]
           \in Installs
    BY DEF TypeOK, Assigns, Installs, Refs
  <2>2. lab' \in {lab, [lab EXCEPT !.phase = "working", !.review = Resolved(review),
            !.install = [asg |-> 2, status |-> "applied",
                         ref |-> [asg |-> 2, rev |-> assign.rev]]]}
    BY <1>7 DEF CommitAssignment, review
  <2> QED BY <2>1, <2>2, LabValues, ReviewValues
<1>8. CASE StageRoles
  <2> DEFINE status == IF worker.live /\ lab.phase = "working"
                       THEN "activating" ELSE lab.install.status
             blocked == (IF worker.live THEN {} ELSE {"method"})
                        \cup (IF judge.live THEN {} ELSE {"judge"})
  <2>1. /\ blocked \in SUBSET Roles
        /\ [lab.install EXCEPT !.status = status] \in Installs
    BY LabValues DEF Roles, Installs
  <2>2. lab' = [lab EXCEPT !.blocked = blocked,
                           !.install = [lab.install EXCEPT !.status = status]]
    BY <1>8, LabValues DEF StageRoles, Labs, Installs
  <2> HIDE DEF status, blocked
  <2> QED BY <2>1, <2>2, LabValues
<1>9. CASE SettleInstall
  <2> DEFINE done == [lab.install EXCEPT !.status = "applied",
                        !.ref = [asg |-> lab.install.asg, rev |-> kernel.rev]]
  <2>0. lab \in Labs /\ kernel.rev \in Nat /\ lab.install.asg \in {1, 2}
    BY LabValues DEF TypeOK, Kernels, Installs
  <2>1. done \in Installs /\ lab.blocked \cup {"method"} \in SUBSET Roles
    <3>1. [asg |-> lab.install.asg, rev |-> kernel.rev] \in Refs
      BY <2>0 DEF Refs
    <3>2. done \in Installs
      BY <3>1, LabValues DEF Installs
    <3> QED BY <2>0, <3>2 DEF Labs, Roles
  <2>2. lab' \in {[lab EXCEPT !.blocked = @ \cup {"method"}],
                  [lab EXCEPT !.phase = "working", !.install = done]}
    BY <1>9, LabValues DEF SettleInstall, Labs
  <2> HIDE DEF done
  <2> QED BY <2>1, <2>2, LabValues
<1>10. CASE Boot
  <2>1. kernel.epoch + 1 \in Nat
    BY DEF TypeOK, Kernels
  <2> QED BY <1>10, <2>1, LabValues, ReviewValues DEF Boot, review
<1>11. CASE TrackGoal
  <2>1. PICK e \in edges : lab' = IF Projects(lab.install, e)
                    THEN [lab EXCEPT !.install.ref.rev = e.rev] ELSE lab
    BY <1>11 DEF TrackGoal
  <2>2. e.rev \in Nat
    BY DEF TypeOK, Refs
  <2>3. [lab.install EXCEPT !.ref.rev = e.rev] \in Installs
    BY <2>2, LabValues DEF Installs, Refs
  <2>4. [lab EXCEPT !.install.ref.rev = e.rev]
           = [lab EXCEPT !.install = [lab.install EXCEPT !.ref.rev = e.rev]]
    BY LabValues DEF Labs, Installs, Refs
  <2> QED BY <2>1, <2>3, <2>4, LabValues
<1>12. CASE lab' = lab
  BY <1>12, LabValues, ReviewValues
<1> DEFINE Cases == lab' = lab \/ RunSubmission \/ RecordOutcome \/
      FinishFreeze \/ RecordVerdict \/ StageAssignment \/ RepeatAssignment \/
      CommitAssignment \/ StageRoles \/ SettleInstall \/ Boot \/ TrackGoal
<1>13. Next => Cases
  <2>1. Agents => Cases
    BY DEF Agents, StartTurn, EndTurn, Persist, PersistWake, ChangeGoal,
        CancelHold
  <2>2. Submission => Cases
    BY DEF Submission, Submit, Dispatch
  <2>3. Delivery => Cases
    BY DEF Delivery, RejectControl, HandleRequest, EndRequest, PauseReviewed,
        EndAck, FailAck
  <2>4. Tasks => Cases
    BY DEF Tasks, Acquire, ClaimHold, WakeJudge
  <2>5. Assigning => Cases
    BY DEF Assigning, InstallGoal, FindBusy, FlushInstalled, FailInstalled,
        ReleaseHold
  <2>6. Starting => Cases
    BY DEF Starting, StartLab, ActivateRoles, StartInstall, FailStartInstall,
        ReplayReview
  <2>7. Restarting => Cases
    BY DEF Restarting, Close, Shutdown, Crash
  <2>8. TrackGoal \/ ChangeLab => Cases
    BY DEF ChangeLab
  <2> QED BY <2>1, <2>2, <2>3, <2>4, <2>5, <2>6, <2>7, <2>8 DEF Next
<1> QED
  BY <1>1, <1>2, <1>3, <1>4, <1>5, <1>6, <1>7, <1>8, <1>9, <1>10, <1>11,
      <1>12, <1>13 DEF vars

LEMMA KernelTyped ==
    ASSUME TypeOK, [Next]_vars
    PROVE  kernel' \in Kernels
<1>1. CASE Submit
  BY <1>1, KernelValues DEF Submit, Open, review, Requested, Spend
<1>2. CASE RunSubmission
  BY <1>2, KernelValues DEF RunSubmission, QueueFree, Open, Requested, review,
      NoReview
<1>3. CASE Dispatch
  BY <1>3, KernelValues DEF Dispatch
<1>4. CASE ClaimHold
  BY <1>4, KernelValues DEF ClaimHold, Open, Finish, NoAcquisition, Join
<1>5. CASE ReleaseHold
  BY <1>5, KernelValues DEF ReleaseHold, NoAssign
<1>6. CASE StartLab
  BY <1>6, KernelValues DEF StartLab, Spend, QueueFree, Open
<1>7. CASE ActivateRoles
  BY <1>7, KernelValues DEF ActivateRoles
<1>8. CASE StageRoles
  BY <1>8, KernelValues DEF StageRoles
<1>9. CASE StartInstall
  BY <1>9, KernelValues DEF StartInstall, CanMaintain, Installable
<1>10. CASE FailStartInstall
  BY <1>10, KernelValues DEF FailStartInstall, Installable, Spend, CanMaintain
<1>11. CASE SettleInstall
  BY <1>11, KernelValues DEF SettleInstall
<1>12. CASE ReplayReview
  BY <1>12, KernelValues DEF ReplayReview, Requested, review, FreezeComplete,
      Refused, Woken, Retracked
<1>13. CASE Close
  BY <1>13, KernelValues DEF Close
<1>14. CASE Shutdown
  BY <1>14, KernelValues DEF Shutdown, Controls, Raised, Unloaded, NoAssign
<1>15. CASE Crash
  BY <1>15, KernelValues DEF Crash, Spend, Controls, GiveBack, Unloaded,
      NoAcquisition, NoAssign
<1>16. CASE Boot
  BY <1>16, KernelValues DEF Boot, review, Recovered
<1>17. CASE kernel' = kernel
  BY <1>17, KernelValues
<1> DEFINE Cases == kernel' = kernel \/ Submit \/ RunSubmission \/ Dispatch \/
      ClaimHold \/ ReleaseHold \/ StartLab \/ ActivateRoles \/ StageRoles \/
      StartInstall \/ FailStartInstall \/ SettleInstall \/ ReplayReview \/
      Close \/ Shutdown \/ Crash \/ Boot
<1>18. Next => Cases
  <2>1. Agents => Cases
    BY DEF Agents, StartTurn, EndTurn, Persist, PersistWake, ChangeGoal,
        CancelHold
  <2>2. Submission => Cases
    BY DEF Submission
  <2>3. Delivery => Cases
    BY DEF Delivery, RejectControl, HandleRequest, EndRequest, PauseReviewed,
        EndAck, FailAck
  <2>4. Tasks => Cases
    BY DEF Tasks, RecordOutcome, Acquire, FinishFreeze, WakeJudge,
        RecordVerdict
  <2>5. Assigning => Cases
    BY DEF Assigning, StageAssignment, RepeatAssignment, InstallGoal,
        FindBusy, FlushInstalled, FailInstalled, CommitAssignment
  <2>6. Starting => Cases
    BY DEF Starting
  <2>7. Restarting => Cases
    BY DEF Restarting
  <2>8. TrackGoal \/ ChangeLab => Cases
    BY DEF TrackGoal, ChangeLab
  <2> QED BY <2>1, <2>2, <2>3, <2>4, <2>5, <2>6, <2>7, <2>8 DEF Next
<1> QED
  BY <1>1, <1>2, <1>3, <1>4, <1>5, <1>6, <1>7, <1>8, <1>9, <1>10, <1>11,
      <1>12, <1>13, <1>14, <1>15, <1>16, <1>17, <1>18 DEF vars

LEMMA WorkerTyped ==
    ASSUME TypeOK, [Next]_vars
    PROVE  worker' \in Workers
<1>1. CASE StartTurn
  BY <1>1, WorkerValues DEF StartTurn
<1>2. CASE EndTurn
  BY <1>2, WorkerValues DEF EndTurn
<1>3. CASE CancelHold
  BY <1>3, WorkerValues DEF CancelHold, Spend
<1>4. CASE ClaimHold
  BY <1>4, WorkerValues DEF ClaimHold, Open, Finish, NoAcquisition, Join
<1>5. CASE InstallGoal
  BY <1>5, WorkerValues DEF InstallGoal, CanMaintain, Installable, Installed,
      Raised, Emitted, Open, Projects, NoAssign
<1>6. CASE FlushInstalled
  BY <1>6, WorkerValues DEF FlushInstalled
<1>7. CASE FailInstalled
  BY <1>7, WorkerValues DEF FailInstalled, Spend, NoAssign
<1>8. CASE ReleaseHold
  BY <1>8, WorkerValues DEF ReleaseHold, NoAssign
<1>9. CASE ActivateRoles
  <2>1. PICK up \in SUBSET Roles : worker' = [worker EXCEPT !.live = "method" \in up]
    BY <1>9 DEF ActivateRoles
  <2>2. ("method" \in up) \in BOOLEAN
    OBVIOUS
  <2> QED BY <2>1, <2>2, WorkerValues
<1>10. CASE Shutdown
  BY <1>10, WorkerValues DEF Shutdown, Controls, Raised, Gone, NoAssign
<1>11. CASE Crash
  BY <1>11, WorkerValues DEF Crash, Spend, Controls, GiveBack, Gone,
      NoAcquisition, NoAssign
<1>12. CASE worker' = worker
  BY <1>12, WorkerValues
<1> DEFINE Cases == worker' = worker \/ StartTurn \/ EndTurn \/ CancelHold \/
      ClaimHold \/ InstallGoal \/ FlushInstalled \/ FailInstalled \/
      ReleaseHold \/ ActivateRoles \/ Shutdown \/ Crash
<1>13. Next => Cases
  <2>1. Agents => Cases
    BY DEF Agents, Persist, PersistWake, ChangeGoal
  <2>2. Submission => Cases
    BY DEF Submission, Submit, RunSubmission, Dispatch
  <2>3. Delivery => Cases
    BY DEF Delivery, RejectControl, HandleRequest, EndRequest, PauseReviewed,
        EndAck, FailAck
  <2>4. Tasks => Cases
    BY DEF Tasks, RecordOutcome, Acquire, FinishFreeze, WakeJudge,
        RecordVerdict
  <2>5. Assigning => Cases
    BY DEF Assigning, StageAssignment, RepeatAssignment, FindBusy,
        CommitAssignment
  <2>6. Starting => Cases
    BY DEF Starting, StartLab, StageRoles, StartInstall, FailStartInstall,
        SettleInstall, ReplayReview
  <2>7. Restarting => Cases
    BY DEF Restarting, Close, Boot
  <2>8. TrackGoal \/ ChangeLab => Cases
    BY DEF TrackGoal, ChangeLab
  <2> QED BY <2>1, <2>2, <2>3, <2>4, <2>5, <2>6, <2>7, <2>8 DEF Next
<1> QED
  BY <1>1, <1>2, <1>3, <1>4, <1>5, <1>6, <1>7, <1>8, <1>9, <1>10, <1>11,
      <1>12, <1>13 DEF vars

LEMMA JudgeTyped ==
    ASSUME TypeOK, [Next]_vars
    PROVE  judge' \in Judges
<1>1. CASE PersistWake
  BY <1>1, JudgeValues DEF PersistWake
<1>2. CASE WakeJudge
  BY <1>2, JudgeValues DEF WakeJudge, Open
<1>3. CASE ActivateRoles
  <2>1. PICK up \in SUBSET Roles : judge' = [judge EXCEPT !.live = "judge" \in up]
    BY <1>3 DEF ActivateRoles
  <2>2. ("judge" \in up) \in BOOLEAN
    OBVIOUS
  <2> QED BY <2>1, <2>2, JudgeValues
<1>4. CASE ReplayReview
  BY <1>4, JudgeValues DEF ReplayReview, Requested, review, FreezeComplete,
      Refused, Retracked
<1>5. CASE Shutdown
  <2>1. \E w \in {"none", "logged", judge.wake} : judge' = [live |-> FALSE, wake |-> w]
    BY <1>5 DEF Shutdown
  <2> QED BY <2>1, JudgeValues
<1>6. CASE Crash
  <2>1. \E w \in {"none", judge.wake} : judge' = [live |-> FALSE, wake |-> w]
    BY <1>6 DEF Crash
  <2> QED BY <2>1, JudgeValues
<1>7. CASE judge' = judge
  BY <1>7, JudgeValues
<1> DEFINE Cases == judge' = judge \/ PersistWake \/ WakeJudge \/
      ActivateRoles \/ ReplayReview \/ Shutdown \/ Crash
<1>8. Next => Cases
  <2>1. Agents => Cases
    BY DEF Agents, StartTurn, EndTurn, Persist, ChangeGoal, CancelHold
  <2>2. Submission => Cases
    BY DEF Submission, Submit, RunSubmission, Dispatch
  <2>3. Delivery => Cases
    BY DEF Delivery, RejectControl, HandleRequest, EndRequest, PauseReviewed,
        EndAck, FailAck
  <2>4. Tasks => Cases
    BY DEF Tasks, RecordOutcome, Acquire, ClaimHold, FinishFreeze,
        RecordVerdict
  <2>5. Assigning => Cases
    BY DEF Assigning, StageAssignment, RepeatAssignment, InstallGoal,
        FindBusy, FlushInstalled, FailInstalled, CommitAssignment, ReleaseHold
  <2>6. Starting => Cases
    BY DEF Starting, StartLab, StageRoles, StartInstall, FailStartInstall,
        SettleInstall
  <2>7. Restarting => Cases
    BY DEF Restarting, Close, Boot
  <2>8. TrackGoal \/ ChangeLab => Cases
    BY DEF TrackGoal, ChangeLab
  <2> QED BY <2>1, <2>2, <2>3, <2>4, <2>5, <2>6, <2>7, <2>8 DEF Next
<1> QED
  BY <1>1, <1>2, <1>3, <1>4, <1>5, <1>6, <1>7, <1>8 DEF vars

LEMMA GoalTyped ==
    ASSUME TypeOK, [Next]_vars
    PROVE  goal' \in Goals
<1>1. CASE ChangeGoal
  BY <1>1, GoalValues DEF ChangeGoal, Spend, Emitted, Open, Projects
<1>2. CASE PauseReviewed
  BY <1>2, GoalValues DEF PauseReviewed, Deliverable, Open, Capable,
      Classified, review, Emitted, Projects, Claimed
<1>3. CASE InstallGoal
  BY <1>3, GoalValues DEF InstallGoal, CanMaintain, Installable, Emitted,
      Open, Projects, NoAssign
<1>4. CASE StartInstall
  BY <1>4, GoalValues DEF StartInstall, CanMaintain, Installable
<1>5. CASE FailStartInstall
  BY <1>5, GoalValues DEF FailStartInstall, Installable, Spend, CanMaintain
<1>6. CASE Shutdown
  BY <1>6, GoalValues DEF Shutdown, Controls, Gone, Unloaded, NoAssign
<1>7. CASE Crash
  BY <1>7, GoalValues DEF Crash, Spend, Controls, GiveBack, Gone, Unloaded,
      NoAcquisition, NoAssign
<1>8. CASE goal' = goal
  BY <1>8, GoalValues
<1> DEFINE Cases == goal' = goal \/ ChangeGoal \/ PauseReviewed \/ InstallGoal
      \/ StartInstall \/ FailStartInstall \/ Shutdown \/ Crash
<1>9. Next => Cases
  <2>1. Agents => Cases
    BY DEF Agents, StartTurn, EndTurn, Persist, PersistWake, CancelHold
  <2>2. Submission => Cases
    BY DEF Submission, Submit, RunSubmission, Dispatch
  <2>3. Delivery => Cases
    BY DEF Delivery, RejectControl, HandleRequest, EndRequest, EndAck, FailAck
  <2>4. Tasks => Cases
    BY DEF Tasks, RecordOutcome, Acquire, ClaimHold, FinishFreeze, WakeJudge,
        RecordVerdict
  <2>5. Assigning => Cases
    BY DEF Assigning, StageAssignment, RepeatAssignment, FindBusy,
        FlushInstalled, FailInstalled, CommitAssignment, ReleaseHold
  <2>6. Starting => Cases
    BY DEF Starting, StartLab, ActivateRoles, StageRoles, SettleInstall,
        ReplayReview
  <2>7. Restarting => Cases
    BY DEF Restarting, Close, Boot
  <2>8. TrackGoal \/ ChangeLab => Cases
    BY DEF TrackGoal, ChangeLab
  <2> QED BY <2>1, <2>2, <2>3, <2>4, <2>5, <2>6, <2>7, <2>8 DEF Next
<1> QED
  BY <1>1, <1>2, <1>3, <1>4, <1>5, <1>6, <1>7, <1>8, <1>9 DEF vars

LEMMA SavedTyped ==
    ASSUME TypeOK, [Next]_vars
    PROVE  saved' \in Goals
<1>1. CASE Persist
  BY <1>1, GoalValues DEF Persist
<1>2. CASE EndAck
  BY <1>2, GoalValues DEF EndAck, MustFlush, Completed, Open
<1>3. CASE FlushInstalled
  BY <1>3, GoalValues DEF FlushInstalled, JobEnded
<1>4. CASE StartInstall
  BY <1>4, GoalValues DEF StartInstall, CanMaintain, Installable
<1>5. CASE Shutdown
  BY <1>5, GoalValues DEF Shutdown, Controls, Gone, Unloaded, NoAssign
<1>6. CASE saved' = saved
  BY <1>6, GoalValues
<1> DEFINE Cases == saved' = saved \/ Persist \/ EndAck \/ FlushInstalled \/
      StartInstall \/ Shutdown
<1>7. Next => Cases
  <2>1. Agents => Cases
    BY DEF Agents, StartTurn, EndTurn, PersistWake, ChangeGoal, CancelHold
  <2>2. Submission => Cases
    BY DEF Submission, Submit, RunSubmission, Dispatch
  <2>3. Delivery => Cases
    BY DEF Delivery, RejectControl, HandleRequest, EndRequest, PauseReviewed,
        FailAck
  <2>4. Tasks => Cases
    BY DEF Tasks, RecordOutcome, Acquire, ClaimHold, FinishFreeze, WakeJudge,
        RecordVerdict
  <2>5. Assigning => Cases
    BY DEF Assigning, StageAssignment, RepeatAssignment, InstallGoal,
        FindBusy, FailInstalled, CommitAssignment, ReleaseHold
  <2>6. Starting => Cases
    BY DEF Starting, StartLab, ActivateRoles, StageRoles, FailStartInstall,
        SettleInstall, ReplayReview
  <2>7. Restarting => Cases
    BY DEF Restarting, Close, Crash, Boot
  <2>8. TrackGoal \/ ChangeLab => Cases
    BY DEF TrackGoal, ChangeLab
  <2> QED BY <2>1, <2>2, <2>3, <2>4, <2>5, <2>6, <2>7, <2>8 DEF Next
<1> QED
  BY <1>1, <1>2, <1>3, <1>4, <1>5, <1>6, <1>7 DEF vars

LEMMA AcqTyped ==
    ASSUME TypeOK, [Next]_vars
    PROVE  acq' \in Acquisitions
<1>1. CASE Acquire
  BY <1>1, AcqValues DEF Acquire, Open, review
<1>2. CASE ClaimHold
  BY <1>2, AcqValues DEF ClaimHold, Open
<1>3. CASE FinishFreeze
  BY <1>3, AcqValues DEF FinishFreeze, QueueFree, Open, review
<1>4. CASE Close
  BY <1>4, AcqValues DEF Close, Spend, Open
<1>5. CASE Crash
  BY <1>5, AcqValues DEF Crash, Spend, Controls, GiveBack, Gone, Unloaded,
      NoAssign
<1>6. CASE acq' = acq
  BY <1>6, AcqValues
<1> DEFINE Cases == acq' = acq \/ Acquire \/ ClaimHold \/ FinishFreeze \/
      Close \/ Crash
<1>7. Next => Cases
  <2>1. Agents => Cases
    BY DEF Agents, StartTurn, EndTurn, Persist, PersistWake, ChangeGoal,
        CancelHold
  <2>2. Submission => Cases
    BY DEF Submission, Submit, RunSubmission, Dispatch
  <2>3. Delivery => Cases
    BY DEF Delivery, RejectControl, HandleRequest, EndRequest, PauseReviewed,
        EndAck, FailAck
  <2>4. Tasks => Cases
    BY DEF Tasks, RecordOutcome, WakeJudge, RecordVerdict
  <2>5. Assigning => Cases
    BY DEF Assigning, StageAssignment, RepeatAssignment, InstallGoal,
        FindBusy, FlushInstalled, FailInstalled, CommitAssignment, ReleaseHold
  <2>6. Starting => Cases
    BY DEF Starting, StartLab, ActivateRoles, StageRoles, StartInstall,
        FailStartInstall, SettleInstall, ReplayReview
  <2>7. Restarting => Cases
    BY DEF Restarting, Shutdown, Boot
  <2>8. TrackGoal \/ ChangeLab => Cases
    BY DEF TrackGoal, ChangeLab
  <2> QED BY <2>1, <2>2, <2>3, <2>4, <2>5, <2>6, <2>7, <2>8 DEF Next
<1> QED
  BY <1>1, <1>2, <1>3, <1>4, <1>5, <1>6, <1>7 DEF vars

LEMMA AssignTyped ==
    ASSUME TypeOK, [Next]_vars
    PROVE  assign' \in Assigns
<1>1. CASE StageAssignment
  BY <1>1, AssignValues DEF StageAssignment, MayAssign, QueueFree, Open,
      review, FreezeComplete, OwnsExactGoal
<1>2. CASE RepeatAssignment
  BY <1>2, AssignValues DEF RepeatAssignment, MayAssign, QueueFree, Open,
      review, FreezeComplete, Resolved
<1>3. CASE InstallGoal
  BY <1>3, AssignValues DEF InstallGoal, CanMaintain, Installable, Emitted,
      Open, Projects
<1>4. CASE FindBusy
  BY <1>4, AssignValues DEF FindBusy, CanMaintain
<1>5. CASE FlushInstalled
  BY <1>5, AssignValues DEF FlushInstalled, JobEnded
<1>6. CASE FailInstalled
  BY <1>6, AssignValues DEF FailInstalled, Spend, JobEnded
<1>7. CASE CommitAssignment
  BY <1>7, AssignValues DEF CommitAssignment, QueueFree, Open, FreezeComplete,
      review, Resolved
<1>8. CASE ReleaseHold
  BY <1>8, AssignValues DEF ReleaseHold
<1>9. CASE StageRoles
  BY <1>9, AssignValues DEF StageRoles
<1>10. CASE Shutdown
  BY <1>10, AssignValues DEF Shutdown, Controls, Raised, Gone, Unloaded
<1>11. CASE Crash
  BY <1>11, AssignValues DEF Crash, Spend, Controls, GiveBack, Gone, Unloaded,
      NoAcquisition
<1>12. CASE ChangeLab
  BY <1>12, AssignValues DEF ChangeLab, Spend, QueueFree, Open
<1>13. CASE assign' = assign
  BY <1>13, AssignValues
<1> DEFINE Cases == assign' = assign \/ StageAssignment \/ RepeatAssignment \/
      InstallGoal \/ FindBusy \/ FlushInstalled \/ FailInstalled \/
      CommitAssignment \/ ReleaseHold \/ StageRoles \/ Shutdown \/ Crash \/
      ChangeLab
<1>14. Next => Cases
  <2>1. Agents => Cases
    BY DEF Agents, StartTurn, EndTurn, Persist, PersistWake, ChangeGoal,
        CancelHold
  <2>2. Submission => Cases
    BY DEF Submission, Submit, RunSubmission, Dispatch
  <2>3. Delivery => Cases
    BY DEF Delivery, RejectControl, HandleRequest, EndRequest, PauseReviewed,
        EndAck, FailAck
  <2>4. Tasks => Cases
    BY DEF Tasks, RecordOutcome, Acquire, ClaimHold, FinishFreeze, WakeJudge,
        RecordVerdict
  <2>5. Assigning => Cases
    BY DEF Assigning
  <2>6. Starting => Cases
    BY DEF Starting, StartLab, ActivateRoles, StartInstall, FailStartInstall,
        SettleInstall, ReplayReview
  <2>7. Restarting => Cases
    BY DEF Restarting, Close, Boot
  <2>8. TrackGoal \/ ChangeLab => Cases
    BY DEF TrackGoal
  <2> QED BY <2>1, <2>2, <2>3, <2>4, <2>5, <2>6, <2>7, <2>8 DEF Next
<1> QED
  BY <1>1, <1>2, <1>3, <1>4, <1>5, <1>6, <1>7, <1>8, <1>9, <1>10, <1>11,
      <1>12, <1>13, <1>14 DEF vars

-----------------------------------------------------------------------------
(* The rest of the types.                                                  *)

LEMMA EmittedValues ==
    ASSUME TypeOK, NEW g \in Goals
    PROVE  Emitted(g) \subseteq Refs
<1>1. g.asg \in {1, 2} /\ g.rev \in Nat /\ edges \subseteq Refs
  BY DEF TypeOK, Goals
<1>2. [asg |-> g.asg, rev |-> g.rev] \in Refs
  BY <1>1 DEF Refs
<1> QED BY <1>1, <1>2 DEF Emitted

(* The Goal changes that wait.                                             *)
LEMMA EdgesTyped ==
    ASSUME TypeOK, [Next]_vars
    PROVE  edges' \subseteq Refs
<1>0. /\ edges \subseteq Refs /\ goal \in Goals
      /\ \A g \in Goals : Emitted(g) \subseteq Refs
      /\ \A p \in {"active", "paused", "complete"} : Raised(goal, p) \in Goals
      /\ Installed \in Goals
  BY EmittedValues, GoalValues DEF TypeOK
<1>1. CASE ChangeGoal
  BY <1>1, <1>0 DEF ChangeGoal, Spend
<1>2. CASE PauseReviewed
  BY <1>2, <1>0 DEF PauseReviewed, Deliverable, Capable, Claimed
<1>3. CASE InstallGoal
  BY <1>3, <1>0 DEF InstallGoal, CanMaintain, NoAssign
<1>4. CASE Close
  BY <1>4, <1>0 DEF Close, Spend, NoAcquisition
<1>5. CASE Crash
  BY <1>5, <1>0 DEF Crash, Spend, Controls, GiveBack, Gone, Unloaded,
      NoAcquisition, NoAssign
<1>6. CASE TrackGoal
  BY <1>6, <1>0 DEF TrackGoal, QueueFree
<1>7. CASE edges' = edges
  BY <1>7, <1>0
<1> DEFINE Cases == edges' = edges \/ ChangeGoal \/ PauseReviewed \/
      InstallGoal \/ Close \/ Crash \/ TrackGoal
<1>8. Next => Cases
  <2>1. Agents => Cases
    BY DEF Agents, StartTurn, EndTurn, Persist, PersistWake, CancelHold
  <2>2. Submission => Cases
    BY DEF Submission, Submit, RunSubmission, Dispatch
  <2>3. Delivery => Cases
    BY DEF Delivery, RejectControl, HandleRequest, EndRequest, EndAck, FailAck
  <2>4. Tasks => Cases
    BY DEF Tasks, RecordOutcome, Acquire, ClaimHold, FinishFreeze, WakeJudge,
        RecordVerdict
  <2>5. Assigning => Cases
    BY DEF Assigning, StageAssignment, RepeatAssignment, FindBusy,
        FlushInstalled, FailInstalled, CommitAssignment, ReleaseHold
  <2>6. Starting => Cases
    BY DEF Starting, StartLab, ActivateRoles, StageRoles, StartInstall,
        FailStartInstall, SettleInstall, ReplayReview
  <2>7. Restarting => Cases
    BY DEF Restarting, Shutdown, Boot
  <2>8. TrackGoal \/ ChangeLab => Cases
    BY DEF ChangeLab
  <2> QED BY <2>1, <2>2, <2>3, <2>4, <2>5, <2>6, <2>7, <2>8 DEF Next
<1> QED
  BY <1>1, <1>2, <1>3, <1>4, <1>5, <1>6, <1>7, <1>8 DEF vars

(* The tasks.                                                              *)
LEMMA TodoTyped ==
    ASSUME TypeOK, [Next]_vars
    PROVE  todo' \subseteq {"record", "acquire", "wake"}
<1>0. todo \subseteq {"record", "acquire", "wake"}
  BY DEF TypeOK
<1>1. CASE EndAck
  BY <1>1, <1>0 DEF EndAck
<1>2. CASE RecordOutcome
  BY <1>2, <1>0 DEF RecordOutcome
<1>3. CASE Acquire
  BY <1>3, <1>0 DEF Acquire
<1>4. CASE FinishFreeze
  BY <1>4, <1>0 DEF FinishFreeze
<1>5. CASE WakeJudge
  BY <1>5, <1>0 DEF WakeJudge
<1>6. CASE ReplayReview
  BY <1>6, <1>0 DEF ReplayReview, Retracked
<1>7. CASE Close
  BY <1>7, <1>0 DEF Close
<1>8. CASE Crash
  BY <1>8, <1>0 DEF Crash, Controls
<1>9. CASE todo' = todo
  BY <1>9, <1>0
<1> DEFINE Cases == todo' = todo \/ EndAck \/ RecordOutcome \/ Acquire \/
      FinishFreeze \/ WakeJudge \/ ReplayReview \/ Close \/ Crash
<1>10. Next => Cases
  <2>1. Agents => Cases
    BY DEF Agents, StartTurn, EndTurn, Persist, PersistWake, ChangeGoal,
        CancelHold
  <2>2. Submission => Cases
    BY DEF Submission, Submit, RunSubmission, Dispatch
  <2>3. Delivery => Cases
    BY DEF Delivery, RejectControl, HandleRequest, EndRequest, PauseReviewed,
        FailAck
  <2>4. Tasks => Cases
    BY DEF Tasks, ClaimHold, RecordVerdict
  <2>5. Assigning => Cases
    BY DEF Assigning, StageAssignment, RepeatAssignment, InstallGoal,
        FindBusy, FlushInstalled, FailInstalled, CommitAssignment, ReleaseHold
  <2>6. Starting => Cases
    BY DEF Starting, StartLab, ActivateRoles, StageRoles, StartInstall,
        FailStartInstall, SettleInstall
  <2>7. Restarting => Cases
    BY DEF Restarting, Shutdown, Boot
  <2>8. TrackGoal \/ ChangeLab => Cases
    BY DEF TrackGoal, ChangeLab
  <2> QED BY <2>1, <2>2, <2>3, <2>4, <2>5, <2>6, <2>7, <2>8 DEF Next
<1> QED
  BY <1>1, <1>2, <1>3, <1>4, <1>5, <1>6, <1>7, <1>8, <1>9, <1>10 DEF vars

(* The disturbances.                                                       *)
LEMMA TroubleTyped ==
    ASSUME TypeOK, [Next]_vars
    PROVE  trouble' \in 0..MaxTrouble
<1>0. trouble \in 0..MaxTrouble /\ MaxTrouble \in Nat
  BY ReviewAssumption DEF TypeOK
<1>1. CASE ChangeGoal
  BY <1>1, <1>0 DEF ChangeGoal, Spend
<1>2. CASE CancelHold
  BY <1>2, <1>0 DEF CancelHold, Spend
<1>3. CASE Submit
  BY <1>3, <1>0 DEF Submit, Spend
<1>4. CASE FailAck
  BY <1>4, <1>0 DEF FailAck, Spend
<1>5. CASE FailInstalled
  BY <1>5, <1>0 DEF FailInstalled, Spend
<1>6. CASE StartLab
  BY <1>6, <1>0 DEF StartLab, Spend
<1>7. CASE ActivateRoles
  BY <1>7, <1>0 DEF ActivateRoles, Roles, Spend
<1>8. CASE FailStartInstall
  BY <1>8, <1>0 DEF FailStartInstall, Spend
<1>9. CASE Close
  BY <1>9, <1>0 DEF Close, Spend
<1>10. CASE Crash
  BY <1>10, <1>0 DEF Crash, Spend, Controls
<1>11. CASE ChangeLab
  BY <1>11, <1>0 DEF ChangeLab, Spend
<1>12. CASE trouble' = trouble
  BY <1>12, <1>0
<1> DEFINE Cases == trouble' = trouble \/ ChangeGoal \/ CancelHold \/ Submit
      \/ FailAck \/ FailInstalled \/ StartLab \/ ActivateRoles \/
      FailStartInstall \/ Close \/ Crash \/ ChangeLab
<1>13. Next => Cases
  <2>1. Agents => Cases
    BY DEF Agents, StartTurn, EndTurn, Persist, PersistWake
  <2>2. Submission => Cases
    BY DEF Submission, RunSubmission, Dispatch
  <2>3. Delivery => Cases
    BY DEF Delivery, RejectControl, HandleRequest, EndRequest, PauseReviewed,
        EndAck
  <2>4. Tasks => Cases
    BY DEF Tasks, RecordOutcome, Acquire, ClaimHold, FinishFreeze, WakeJudge,
        RecordVerdict
  <2>5. Assigning => Cases
    BY DEF Assigning, StageAssignment, RepeatAssignment, InstallGoal,
        FindBusy, FlushInstalled, CommitAssignment, ReleaseHold
  <2>6. Starting => Cases
    BY DEF Starting, StageRoles, StartInstall, SettleInstall, ReplayReview
  <2>7. Restarting => Cases
    BY DEF Restarting, Shutdown, Boot
  <2>8. TrackGoal \/ ChangeLab => Cases
    BY DEF TrackGoal
  <2> QED BY <2>1, <2>2, <2>3, <2>4, <2>5, <2>6, <2>7, <2>8 DEF Next
<1> QED
  BY <1>1, <1>2, <1>3, <1>4, <1>5, <1>6, <1>7, <1>8, <1>9, <1>10, <1>11,
      <1>12, <1>13 DEF vars

(* The history.                                                            *)
LEMMA TouchedTyped ==
    ASSUME TypeOK, [Next]_vars
    PROVE  touched' \in BOOLEAN
<1>0. touched \in BOOLEAN
  BY DEF TypeOK
<1>1. CASE ChangeGoal
  BY <1>1, <1>0 DEF ChangeGoal
<1>2. CASE CancelHold
  BY <1>2, <1>0 DEF CancelHold
<1>3. CASE RunSubmission
  BY <1>3, <1>0 DEF RunSubmission, NoReview
<1>4. CASE touched' = touched
  BY <1>4, <1>0
<1> DEFINE Cases == touched' = touched \/ ChangeGoal \/ CancelHold \/
      RunSubmission
<1>5. Next => Cases
  <2>1. Agents => Cases
    BY DEF Agents, StartTurn, EndTurn, Persist, PersistWake
  <2>2. Submission => Cases
    BY DEF Submission, Submit, Dispatch
  <2>3. Delivery => Cases
    BY DEF Delivery, RejectControl, HandleRequest, EndRequest, PauseReviewed,
        EndAck, FailAck
  <2>4. Tasks => Cases
    BY DEF Tasks, RecordOutcome, Acquire, ClaimHold, FinishFreeze, WakeJudge,
        RecordVerdict
  <2>5. Assigning => Cases
    BY DEF Assigning, StageAssignment, RepeatAssignment, InstallGoal,
        FindBusy, FlushInstalled, FailInstalled, CommitAssignment, ReleaseHold
  <2>6. Starting => Cases
    BY DEF Starting, StartLab, ActivateRoles, StageRoles, StartInstall,
        FailStartInstall, SettleInstall, ReplayReview
  <2>7. Restarting => Cases
    BY DEF Restarting, Close, Shutdown, Crash, Boot
  <2>8. TrackGoal \/ ChangeLab => Cases
    BY DEF TrackGoal, ChangeLab
  <2> QED BY <2>1, <2>2, <2>3, <2>4, <2>5, <2>6, <2>7, <2>8 DEF Next
<1> QED
  BY <1>1, <1>2, <1>3, <1>4, <1>5 DEF vars

-----------------------------------------------------------------------------
(* The controls.                                                           *)

Queued(d) == IF d.status = "none" THEN [d EXCEPT !.status = "queued"] ELSE d

IsDelivery(d) ==
    /\ d \in Deliveries
    /\ d.run # "no" => d.status = "queued"
    /\ d.status = "none" => d.tries = 0
    /\ Deliverable(d) => d.tries < MaxTries

(* The changes of one control.                                             *)
LEMMA DeliveryValues ==
    ASSUME NEW d, IsDelivery(d)
    PROVE  /\ IsDelivery(GiveBack(d)) /\ IsDelivery(Queued(d))
           /\ Deliverable(d) =>
                 /\ IsDelivery(Rejected(d))
                 /\ \A run \in {"sent", "pause", "applied", "no-goal", "stale"} :
                       IsDelivery(Claimed(d, run))
           /\ d.run # "no" =>
                 /\ IsDelivery(Completed(d))
                 /\ \A obs \in Nat : d.run # "sent" =>
                       IsDelivery([Completed(d) EXCEPT !.found = d.run, !.obs = obs])
<1>1. /\ d \in Deliveries /\ d.tries \in 0..MaxTries /\ MaxTries \in Nat \ {0}
      /\ d.run # "no" => d.status = "queued"
      /\ d.status = "none" => d.tries = 0
      /\ d.status = "queued" /\ d.run = "no" => d.tries < MaxTries
  BY ReviewAssumption DEF IsDelivery, Deliveries, Deliverable
<1>2. IsDelivery(Queued(d))
  <2>1. CASE d.status = "none"
    <3>1. d.run = "no" /\ d.tries < MaxTries
      BY <1>1, <2>1 DEF Deliveries
    <3> QED BY <1>1, <2>1, <3>1 DEF Queued, IsDelivery, Deliveries, Deliverable
  <2>2. CASE d.status # "none"
    BY <2>2 DEF Queued, IsDelivery
  <2> QED BY <2>1, <2>2
<1>3. IsDelivery(GiveBack(d))
  <2> DEFINE status == IF d.run # "no" /\ d.tries = MaxTries THEN "failed" ELSE d.status
             e == [d EXCEPT !.run = "no", !.status = status]
  <2>1. GiveBack(d) = e
    BY DEF GiveBack
  <2>2. status \in {"none", "queued", "completed", "rejected", "failed"}
    BY <1>1 DEF Deliveries
  <2>3. /\ status = "none" => d.tries = 0
        /\ status = "queued" => d.tries < MaxTries
    BY <1>1
  <2>4. e \in Deliveries /\ e.run = "no" /\ e.status = status /\ e.tries = d.tries
    <3> HIDE DEF status
    <3> QED BY <1>1, <2>2 DEF Deliveries
  <2> HIDE DEF status, e
  <2> QED BY <2>1, <2>3, <2>4 DEF IsDelivery, Deliverable
<1>4. ASSUME Deliverable(d)
      PROVE  /\ IsDelivery(Rejected(d))
             /\ \A run \in {"sent", "pause", "applied", "no-goal", "stale"} :
                   IsDelivery(Claimed(d, run))
  <2>1. d.tries + 1 \in 0..MaxTries /\ d.status = "queued" /\ d.run = "no"
    BY <1>1, <1>4 DEF Deliverable
  <2>2. IsDelivery(Rejected(d))
    BY <1>1, <2>1 DEF Rejected, IsDelivery, Deliveries, Deliverable
  <2>3. ASSUME NEW run \in {"sent", "pause", "applied", "no-goal", "stale"}
        PROVE  IsDelivery(Claimed(d, run))
    BY <1>1, <2>1, <2>3 DEF Claimed, IsDelivery, Deliveries, Deliverable
  <2> QED BY <2>2, <2>3
<1>5. ASSUME d.run # "no" PROVE IsDelivery(Completed(d))
  BY <1>1 DEF Completed, IsDelivery, Deliveries, Deliverable
<1>6. ASSUME d.run \notin {"no", "sent"}, NEW obs \in Nat
      PROVE  IsDelivery([Completed(d) EXCEPT !.found = d.run, !.obs = obs])
  <2>1. Completed(d) \in Deliveries /\ Completed(d).run = "no"
        /\ Completed(d).status = "completed"
    BY <1>1 DEF Completed, Deliveries
  <2>2. d.run \in {"pause", "applied", "no-goal", "stale"}
    BY <1>1, <1>6 DEF Deliveries
  <2> QED BY <1>6, <2>1, <2>2 DEF IsDelivery, Deliveries, Deliverable
<1> QED BY <1>2, <1>3, <1>4, <1>5, <1>6

(* What each step does to the two controls.                                *)
LEMMA ControlSteps ==
    ASSUME TypeOK
    PROVE  /\ Dispatch \/ ReplayReview =>
                 ctl' \in {ctl, [ctl EXCEPT !["request"] = Queued(@)]}
           /\ \A c \in Controls : RejectControl(c) =>
                 Deliverable(ctl[c]) /\ ctl' = [ctl EXCEPT ![c] = Rejected(@)]
           /\ HandleRequest =>
                 /\ Deliverable(ctl["request"])
                 /\ ctl' = [ctl EXCEPT !["request"] = Claimed(@, "sent"),
                                       !["ack"] = Queued(@)]
           /\ EndRequest =>
                 /\ ctl["request"].run # "no"
                 /\ \/ ctl' = [ctl EXCEPT !["request"] = Completed(@)]
                    \/ ctl' = [ctl EXCEPT !["request"] = GiveBack(@)]
           /\ PauseReviewed =>
                 /\ Deliverable(ctl["ack"])
                 /\ ctl' = [ctl EXCEPT !["ack"] = Claimed(@, Classified)]
           /\ EndAck =>
                 /\ ctl["ack"].run # "no"
                 /\ ctl' = [ctl EXCEPT !["ack"] =
                       [Completed(@) EXCEPT !.found = ctl["ack"].run,
                          !.obs = IF ctl["ack"].run = "stale" THEN 0 ELSE worker.turn]]
           /\ FailAck =>
                 /\ ctl["ack"].run \in {"pause", "applied"}
                 /\ ctl' = [ctl EXCEPT !["ack"] = GiveBack(@)]
           /\ Crash => ctl' = [c \in Controls |-> GiveBack(ctl[c])]
<1>1. ctl \in [Controls -> Deliveries]
  BY DEF TypeOK
<1>2. Dispatch \/ ReplayReview => ctl' \in {ctl, [ctl EXCEPT !["request"] = Queued(@)]}
  <2>1. ctl["request"].status = "none" =>
           [ctl EXCEPT !["request"].status = "queued"] = [ctl EXCEPT !["request"] = Queued(@)]
    BY <1>1 DEF Queued, Controls, Deliveries
  <2> QED BY <2>1 DEF Dispatch, ReplayReview
<1>3. HandleRequest =>
         ctl' = [ctl EXCEPT !["request"] = Claimed(@, "sent"), !["ack"] = Queued(@)]
  <2> SUFFICES ASSUME HandleRequest
               PROVE  ctl' = [ctl EXCEPT !["request"] = Claimed(@, "sent"),
                                         !["ack"] = Queued(@)]
    OBVIOUS
  <2> DEFINE f == [ctl EXCEPT !["request"] = Claimed(@, "sent")]
  <2>1. f["ack"] = ctl["ack"] /\ f["ack"] \in Deliveries /\ "ack" \in DOMAIN f
    BY <1>1 DEF Controls
  <2>2. ctl' = [f EXCEPT !["ack"].status =
                   IF ctl["ack"].status = "none" THEN "queued" ELSE ctl["ack"].status]
    BY <1>1 DEF HandleRequest, Controls, Deliveries
  <2>3. ctl' = [f EXCEPT !["ack"] = Queued(ctl["ack"])]
    <3>1. [ctl["ack"] EXCEPT !.status =
             IF ctl["ack"].status = "none" THEN "queued" ELSE ctl["ack"].status]
             = Queued(ctl["ack"])
      BY <1>1 DEF Queued, Controls, Deliveries
    <3> HIDE DEF f
    <3> QED BY <2>1, <2>2, <3>1
  <2> QED BY <1>1, <2>1, <2>3 DEF Controls
<1> QED BY <1>2, <1>3 DEF RejectControl, HandleRequest, EndRequest, PauseReviewed, EndAck,
        FailAck, MustFlush, Crash

ControlsFit(f) ==
    /\ f \in [Controls -> Deliveries]
    /\ \A c \in Controls : IsDelivery(f[c])
    /\ f["ack"].run # "sent"

(* One control at a time may change.                                       *)
LEMMA ControlsSet ==
    ASSUME NEW f, ControlsFit(f), NEW c \in Controls, NEW d, IsDelivery(d),
           c = "ack" => d.run # "sent"
    PROVE  ControlsFit([f EXCEPT ![c] = d])
BY DEF ControlsFit, IsDelivery, Controls

(* Which steps change the controls.                                         *)
LEMMA ControlActions ==
    ASSUME [Next]_vars
    PROVE  ctl' = ctl \/ Dispatch \/ (\E c \in Controls : RejectControl(c))
           \/ HandleRequest \/ EndRequest \/ PauseReviewed \/ EndAck \/ FailAck
           \/ ReplayReview \/ Crash
<1>1. Agents => ctl' = ctl \/ Dispatch \/ (\E c \in Controls :
    RejectControl(c)) \/ HandleRequest \/ EndRequest \/ PauseReviewed \/
    EndAck \/ FailAck \/ ReplayReview \/ Crash
  BY DEF Agents, StartTurn, EndTurn, Persist, PersistWake, ChangeGoal,
      CancelHold
<1>2. Submission => ctl' = ctl \/ Dispatch \/ (\E c \in Controls :
    RejectControl(c)) \/ HandleRequest \/ EndRequest \/ PauseReviewed \/
    EndAck \/ FailAck \/ ReplayReview \/ Crash
  BY DEF Submission, Submit, RunSubmission
<1>3. Delivery => ctl' = ctl \/ Dispatch \/ (\E c \in Controls :
    RejectControl(c)) \/ HandleRequest \/ EndRequest \/ PauseReviewed \/
    EndAck \/ FailAck \/ ReplayReview \/ Crash
  BY DEF Delivery
<1>4. Tasks => ctl' = ctl \/ Dispatch \/ (\E c \in Controls :
    RejectControl(c)) \/ HandleRequest \/ EndRequest \/ PauseReviewed \/
    EndAck \/ FailAck \/ ReplayReview \/ Crash
  BY DEF Tasks, RecordOutcome, Acquire, ClaimHold, FinishFreeze, WakeJudge,
      RecordVerdict
<1>5. Assigning => ctl' = ctl \/ Dispatch \/ (\E c \in Controls :
    RejectControl(c)) \/ HandleRequest \/ EndRequest \/ PauseReviewed \/
    EndAck \/ FailAck \/ ReplayReview \/ Crash
  BY DEF Assigning, StageAssignment, RepeatAssignment, InstallGoal,
      FindBusy, FlushInstalled, FailInstalled, CommitAssignment, ReleaseHold
<1>6. Starting => ctl' = ctl \/ Dispatch \/ (\E c \in Controls :
    RejectControl(c)) \/ HandleRequest \/ EndRequest \/ PauseReviewed \/
    EndAck \/ FailAck \/ ReplayReview \/ Crash
  BY DEF Starting, StartLab, ActivateRoles, StageRoles, StartInstall,
      FailStartInstall, SettleInstall
<1>7. Restarting => ctl' = ctl \/ Dispatch \/ (\E c \in Controls :
    RejectControl(c)) \/ HandleRequest \/ EndRequest \/ PauseReviewed \/
    EndAck \/ FailAck \/ ReplayReview \/ Crash
  BY DEF Restarting, Close, Shutdown, Boot
<1>8. TrackGoal \/ ChangeLab => ctl' = ctl \/ Dispatch \/ (\E c \in Controls
    : RejectControl(c)) \/ HandleRequest \/ EndRequest \/ PauseReviewed \/
    EndAck \/ FailAck \/ ReplayReview \/ Crash
  BY DEF TrackGoal, ChangeLab
<1> QED BY <1>1, <1>2, <1>3, <1>4, <1>5, <1>6, <1>7, <1>8 DEF Next, vars

(* Every step keeps both controls fit.                                     *)
LEMMA ControlsStep ==
    ASSUME TypeOK, DeliveryInv, [Next]_vars
    PROVE  ControlsFit(ctl')
<1>1. ControlsFit(ctl)
  BY DEF TypeOK, DeliveryInv, IsDelivery, ControlsFit
<1>2. /\ \A c \in Controls : IsDelivery(ctl[c]) /\ ctl[c] \in Deliveries
      /\ ctl["ack"].run # "sent"
  BY <1>1 DEF ControlsFit
<1>5. \A d \in Deliveries : /\ GiveBack(d).run = "no" /\ Completed(d).run = "no"
                            /\ Rejected(d).run = d.run /\ Queued(d).run = d.run
                            /\ \A run : Claimed(d, run).run = run
  BY DEF GiveBack, Completed, Rejected, Queued, Claimed, Deliveries
<1>6. "ack" \in Controls /\ "request" \in Controls /\ "ack" # "request"
  BY DEF Controls
<1>7. CASE Dispatch \/ ReplayReview
  <2>1. IsDelivery(Queued(ctl["request"]))
    BY <1>2, <1>6, DeliveryValues
  <2>2. ctl' = ctl \/ ctl' = [ctl EXCEPT !["request"] = Queued(ctl["request"])]
    BY <1>7, ControlSteps
  <2> QED BY <1>1, <1>6, <2>1, <2>2, ControlsSet
<1>8. CASE \E c \in Controls : RejectControl(c)
  <2>1. PICK c \in Controls : RejectControl(c)
    BY <1>8
  <2>2. Deliverable(ctl[c]) /\ ctl' = [ctl EXCEPT ![c] = Rejected(ctl[c])]
    BY <2>1, ControlSteps
  <2>3. IsDelivery(Rejected(ctl[c]))
    BY <1>2, <2>2, DeliveryValues
  <2>4. c = "ack" => Rejected(ctl[c]).run # "sent"
    BY <1>2, <1>5
  <2> QED BY <1>1, <2>2, <2>3, <2>4, ControlsSet
<1>9. CASE HandleRequest
  <2> DEFINE f == [ctl EXCEPT !["request"] = Claimed(ctl["request"], "sent")]
  <2>1. IsDelivery(Claimed(ctl["request"], "sent")) /\ IsDelivery(Queued(ctl["ack"]))
    BY <1>2, <1>6, <1>9, ControlSteps, DeliveryValues
  <2>2. ControlsFit(f)
    BY <1>1, <1>6, <2>1, ControlsSet
  <2>3. ctl' = [f EXCEPT !["ack"] = Queued(ctl["ack"])]
    BY <1>1, <1>6, <1>9, ControlSteps DEF ControlsFit
  <2>4. Queued(ctl["ack"]).run # "sent"
    BY <1>2, <1>5, <1>6
  <2> HIDE DEF f
  <2> QED BY <1>6, <2>1, <2>2, <2>3, <2>4, ControlsSet
<1>10. CASE EndRequest
  <2>1. IsDelivery(Completed(ctl["request"])) /\ IsDelivery(GiveBack(ctl["request"]))
    BY <1>2, <1>6, <1>10, ControlSteps, DeliveryValues
  <2>2. \/ ctl' = [ctl EXCEPT !["request"] = Completed(ctl["request"])]
        \/ ctl' = [ctl EXCEPT !["request"] = GiveBack(ctl["request"])]
    BY <1>10, ControlSteps
  <2> QED BY <1>1, <1>6, <2>1, <2>2, ControlsSet
<1>11. CASE PauseReviewed
  <2>1. Classified \in {"pause", "applied", "no-goal", "stale"}
    BY DEF Classified
  <2>2. Claimed(ctl["ack"], Classified).run = Classified
    BY <1>2, <1>5, <1>6
  <2>3. Deliverable(ctl["ack"]) /\ ctl' = [ctl EXCEPT !["ack"] = Claimed(ctl["ack"], Classified)]
    BY <1>11, ControlSteps
  <2>4. IsDelivery(Claimed(ctl["ack"], Classified))
    BY <1>2, <1>6, <2>1, <2>3, DeliveryValues
  <2> QED BY <1>1, <1>6, <2>1, <2>2, <2>3, <2>4, ControlsSet
<1>12. CASE EndAck
  <2> DEFINE obs == IF ctl["ack"].run = "stale" THEN 0 ELSE worker.turn
             d == [Completed(ctl["ack"]) EXCEPT !.found = ctl["ack"].run, !.obs = obs]
  <2>1. ctl["ack"].run # "no" /\ ctl' = [ctl EXCEPT !["ack"] = d]
    BY <1>12, ControlSteps
  <2>2. obs \in Nat
    BY DEF TypeOK, Workers
  <2>3. Completed(ctl["ack"]) \in Deliveries /\ Completed(ctl["ack"]).run = "no"
    BY <1>2, <1>5, <1>6, <2>1, DeliveryValues DEF IsDelivery
  <2>4. IsDelivery(d)
    <3> HIDE DEF obs
    <3> QED BY <1>2, <1>6, <2>1, <2>2, DeliveryValues
  <2>5. d.run = "no"
    BY <2>3 DEF Deliveries
  <2> HIDE DEF d
  <2> QED BY <1>1, <1>6, <2>1, <2>4, <2>5, ControlsSet
<1>13. CASE FailAck
  <2>1. IsDelivery(GiveBack(ctl["ack"])) /\ GiveBack(ctl["ack"]).run = "no"
    BY <1>2, <1>5, <1>6, DeliveryValues
  <2>2. ctl' = [ctl EXCEPT !["ack"] = GiveBack(ctl["ack"])]
    BY <1>13, ControlSteps
  <2> QED BY <1>1, <1>6, <2>1, <2>2, ControlsSet
<1>14. CASE Crash
  <2>1. ctl' = [c \in Controls |-> GiveBack(ctl[c])]
    BY <1>14, ControlSteps
  <2>2. \A c \in Controls : IsDelivery(GiveBack(ctl[c])) /\ GiveBack(ctl[c]).run = "no"
    BY <1>2, <1>5, DeliveryValues
  <2> QED BY <1>6, <2>1, <2>2 DEF IsDelivery, ControlsFit
<1>15. CASE ctl' = ctl
  BY <1>1, <1>15
<1> QED
  BY <1>7, <1>8, <1>9, <1>10, <1>11, <1>12, <1>13, <1>14, <1>15, ControlActions

(* What becomes of the acknowledgement in a step.                          *)

AckEnds ==
    /\ EndAck
    /\ ctl["ack"].status = "queued"
    /\ ctl["ack"].run \in {"pause", "applied", "no-goal", "stale"}
    /\ ctl'["ack"].status = "completed" /\ ctl'["ack"].run = "no"
    /\ ctl'["ack"].found = ctl["ack"].run
    /\ ctl'["ack"].obs = IF ctl["ack"].run = "stale" THEN 0 ELSE worker.turn

AckStarts ==
    /\ PauseReviewed
    /\ ctl["ack"].status = "queued" /\ ctl'["ack"].status = "queued"
    /\ ctl'["ack"].run = Classified
    /\ ctl'["ack"].found = ctl["ack"].found /\ ctl'["ack"].obs = ctl["ack"].obs

AckKept ==
    /\ ctl'["ack"].status = "completed" <=> ctl["ack"].status = "completed"
    /\ ctl'["ack"].run \in {ctl["ack"].run, "no"}
    /\ ctl'["ack"].found = ctl["ack"].found /\ ctl'["ack"].obs = ctl["ack"].obs

(* It ends with an outcome, starts to be delivered, or keeps its outcome.  *)
LEMMA AckStep ==
    ASSUME TypeOK, DeliveryInv, [Next]_vars
    PROVE  /\ EndAck => AckEnds
           /\ PauseReviewed => AckStarts
           /\ Dispatch \/ ReplayReview \/ HandleRequest \/ EndRequest \/ FailAck \/ Crash
                 \/ (\E c \in Controls : RejectControl(c)) \/ ctl' = ctl => AckKept
           /\ EndAck \/ PauseReviewed \/ AckKept
           /\ Crash => ctl'["ack"].run = "no"
<1>1. /\ ctl \in [Controls -> Deliveries] /\ ctl["ack"] \in Deliveries
      /\ "ack" \in Controls /\ "request" \in Controls /\ "ack" # "request"
      /\ ctl["ack"].run # "sent"
      /\ ctl["ack"].run # "no" => ctl["ack"].status = "queued"
  BY DEF TypeOK, DeliveryInv, Controls
<1>2. LET d == GiveBack(ctl["ack"])
      IN  /\ d.status = "completed" <=> ctl["ack"].status = "completed"
          /\ d.run = "no" /\ d.found = ctl["ack"].found /\ d.obs = ctl["ack"].obs
  <2> DEFINE status == IF ctl["ack"].run # "no" /\ ctl["ack"].tries = MaxTries
                       THEN "failed" ELSE ctl["ack"].status
             d == [ctl["ack"] EXCEPT !.run = "no", !.status = status]
  <2>1. status = "completed" <=> ctl["ack"].status = "completed"
    BY <1>1
  <2>2. GiveBack(ctl["ack"]) = d
    BY DEF GiveBack
  <2>3. /\ d.status = status /\ d.run = "no" /\ d.found = ctl["ack"].found
        /\ d.obs = ctl["ack"].obs
    <3> HIDE DEF status
    <3> QED BY <1>1 DEF Deliveries
  <2> HIDE DEF status, d
  <2> QED BY <2>1, <2>2, <2>3
<1>3. \A d \in Deliveries :
         /\ Queued(d).status = "completed" <=> d.status = "completed"
         /\ Queued(d).run = d.run /\ Queued(d).found = d.found /\ Queued(d).obs = d.obs
  BY DEF Queued, Deliveries
<1>4. \A d \in Deliveries :
         /\ Rejected(d).status = "rejected"
         /\ Rejected(d).run = d.run /\ Rejected(d).found = d.found /\ Rejected(d).obs = d.obs
  BY DEF Rejected, Deliveries
<1>5. \A d \in Deliveries, run \in {"pause", "applied", "no-goal", "stale"} :
         /\ Claimed(d, run).status = d.status /\ Claimed(d, run).run = run
         /\ Claimed(d, run).found = d.found /\ Claimed(d, run).obs = d.obs
  BY DEF Claimed, Deliveries
<1>6. ASSUME EndAck PROVE AckEnds
  <2>1. /\ ctl["ack"].run # "no"
        /\ ctl' = [ctl EXCEPT !["ack"] =
              [Completed(@) EXCEPT !.found = ctl["ack"].run,
                 !.obs = IF ctl["ack"].run = "stale" THEN 0 ELSE worker.turn]]
    BY <1>6, ControlSteps
  <2>2. ctl'["ack"] = [Completed(ctl["ack"]) EXCEPT !.found = ctl["ack"].run,
                 !.obs = IF ctl["ack"].run = "stale" THEN 0 ELSE worker.turn]
    BY <1>1, <2>1
  <2>3. /\ Completed(ctl["ack"]) \in Deliveries /\ Completed(ctl["ack"]).run = "no"
        /\ Completed(ctl["ack"]).status = "completed"
    BY <1>1 DEF Completed, Deliveries
  <2>4. ctl["ack"].run \in {"pause", "applied", "no-goal", "stale"}
    BY <1>1, <2>1 DEF Deliveries
  <2> QED BY <1>1, <1>6, <2>1, <2>2, <2>3, <2>4 DEF AckEnds, Deliveries
<1>7. ASSUME PauseReviewed PROVE AckStarts
  <2>1. Classified \in {"pause", "applied", "no-goal", "stale"}
    BY DEF Classified
  <2>2. ctl'["ack"] = Claimed(ctl["ack"], Classified) /\ Deliverable(ctl["ack"])
    BY <1>1, <1>7, ControlSteps
  <2> QED BY <1>1, <1>5, <1>7, <2>1, <2>2 DEF AckStarts, Deliverable
<1>8. ASSUME Dispatch \/ ReplayReview \/ EndRequest \/ FailAck \/ Crash PROVE AckKept
  <2>1. ctl'["ack"] \in {ctl["ack"], GiveBack(ctl["ack"])}
    BY <1>1, <1>8, ControlSteps
  <2> QED BY <1>1, <1>2, <2>1 DEF AckKept
<1>9. ASSUME \E c \in Controls : RejectControl(c) PROVE AckKept
  <2>1. PICK c \in Controls : RejectControl(c)
    BY <1>9
  <2>2. ctl' = [ctl EXCEPT ![c] = Rejected(ctl[c])] /\ ctl[c].status = "queued"
    BY <2>1, ControlSteps DEF Deliverable
  <2>3. \/ ctl'["ack"] = ctl["ack"]
        \/ ctl'["ack"] = Rejected(ctl["ack"]) /\ ctl["ack"].status = "queued"
    BY <1>1, <2>2
  <2> QED BY <1>1, <1>4, <2>3 DEF AckKept
<1>10. ASSUME HandleRequest PROVE AckKept
  <2>1. ctl'["ack"] = Queued(ctl["ack"])
    BY <1>1, <1>10, ControlSteps
  <2> QED BY <1>1, <1>3, <2>1 DEF AckKept
<1>11. ASSUME ctl' = ctl PROVE AckKept
  BY <1>1, <1>11 DEF AckKept
<1>12. ASSUME Crash PROVE ctl'["ack"].run = "no"
  BY <1>1, <1>2, <1>12, ControlSteps
<1> QED BY <1>6, <1>7, <1>8, <1>9, <1>10, <1>11, <1>12, ControlActions

(* What the steps write into the review.                                   *)
LEMMA FreezeSteps ==
    ASSUME TypeOK
    PROVE  /\ RecordOutcome =>
                 \/ lab' = lab
                 \/ /\ lab.phase = "reviewing" /\ review.freeze = "pending"
                    /\ lab'.phase = lab.phase /\ lab'.install = lab.install
                    /\ lab'.review = [review EXCEPT !.freeze = Freeze(ctl["ack"]),
                                                    !.obs = ctl["ack"].obs]
           /\ FinishFreeze =>
                 \/ lab' = lab
                 \/ /\ review.freeze = "hold-pending"
                    /\ lab'.phase = lab.phase /\ lab'.install = lab.install
                    /\ lab'.review = [review EXCEPT !.freeze = acq.as,
                          !.holder = IF acq.as = "held" THEN kernel.epoch ELSE 0]
<1>1. lab \in Labs
  BY DEF TypeOK
<1> QED BY <1>1 DEF Labs, Reviews, review, RecordOutcome, FinishFreeze

(* A submission in the queue begins a review or leaves the Lab alone.      *)
LEMMA RequestStep ==
    ASSUME TypeOK, RunSubmission
    PROVE  \/ lab' = lab /\ touched' = touched /\ (kernel'.dispatch => Requested)
           \/ /\ ~Requested /\ kernel.asked # 0
              /\ lab.phase = "working" /\ lab.install.status = "applied"
              /\ lab'.phase = "reviewing" /\ lab'.install = lab.install
              /\ lab'.review \in Reviews
              /\ lab'.review.freeze = "pending" /\ lab'.review.turn = kernel.asked
              /\ lab'.review.holder = 0 /\ ~lab'.review.output /\ ~lab'.review.resolved
<1>1. lab \in Labs /\ kernel \in Kernels /\ touched \in BOOLEAN
  BY DEF TypeOK
<1> DEFINE again == Requested /\ ~review.output /\ lab.phase = "reviewing"
                    /\ lab.install.asg = 1
           new == /\ ~Requested /\ lab.phase = "working" /\ lab.blocked = {}
                  /\ lab.install.status = "applied" /\ goal.asg = lab.install.ref.asg
           r == [NoReview EXCEPT !.freeze = "pending", !.turn = kernel.asked, !.rev = goal.rev]
<1>2. /\ lab' = IF new THEN [lab EXCEPT !.phase = "reviewing", !.review = r] ELSE lab
      /\ kernel' = [kernel EXCEPT !.asked = 0, !.dispatch = new \/ again]
      /\ touched' = (touched /\ ~new) /\ kernel.asked # 0
  BY DEF RunSubmission
<1>3. /\ r \in Reviews /\ r.freeze = "pending" /\ r.turn = kernel.asked /\ r.holder = 0
      /\ ~r.output /\ ~r.resolved
  <2>1. r \in Reviews
    BY ReviewValues
  <2> QED BY <2>1 DEF NoReview
<1>4. CASE new
  <2> HIDE DEF r
  <2> QED BY <1>1, <1>2, <1>3, <1>4 DEF Labs
<1>5. CASE ~new
  <2>1. kernel'.dispatch = (new \/ again)
    BY <1>1, <1>2 DEF Kernels
  <2> QED BY <1>1, <1>2, <1>5, <2>1
<1> QED BY <1>4, <1>5

(* What resolves the review: the freeze ends, the next Goal is applied.    *)
LEMMA ResolveSteps ==
    ASSUME TypeOK, RepeatAssignment \/ CommitAssignment
    PROVE  \/ lab' = lab /\ assign'.at \in {"none", "install"}
           \/ /\ FreezeComplete(review) /\ ~review.resolved /\ lab.install.asg = 2
              /\ assign'.at = "release"
              /\ \/ lab'.install = lab.install /\ lab.install.status = "applied"
                 \/ lab'.install.asg = 2 /\ assign.at = "commit"
              /\ lab'.review \in Reviews
              /\ lab'.review.freeze = "stopped" /\ lab'.review.holder = 0
              /\ lab'.review.resolved /\ lab'.review.output = review.output
              /\ lab'.review.turn = review.turn /\ lab'.review.obs = review.obs
<1>1. lab \in Labs /\ review \in Reviews /\ Resolved(review) \in Reviews
  BY ReviewValues DEF TypeOK
<1>2. LET r == Resolved(review)
      IN  /\ r.freeze = "stopped" /\ r.holder = 0 /\ r.resolved /\ r.output = review.output
          /\ r.turn = review.turn /\ r.obs = review.obs
  BY <1>1 DEF Resolved, Reviews
<1>3. CASE RepeatAssignment
  <2>1. \/ lab' = lab /\ assign'.at \in {"none", "install"}
        \/ /\ FreezeComplete(review) /\ ~review.resolved /\ lab.install.asg = 2
           /\ lab.install.status = "applied" /\ assign'.at = "release"
           /\ lab' = [lab EXCEPT !.review = Resolved(review)]
    BY <1>3 DEF RepeatAssignment, MayAssign, Installing, NoAssign, review
  <2>2. LET l == [lab EXCEPT !.review = Resolved(review)]
        IN  l.review = Resolved(review) /\ l.install = lab.install
    BY <1>1 DEF Labs
  <2> QED BY <1>1, <1>2, <2>1, <2>2
<1>4. CASE CommitAssignment
  <2> DEFINE i == [asg |-> 2, status |-> "applied", ref |-> [asg |-> 2, rev |-> assign.rev]]
  <2>1. \/ lab' = lab /\ assign'.at \in {"none", "install"}
        \/ /\ FreezeComplete(review) /\ ~review.resolved /\ lab.install.asg = 2
           /\ assign.at = "commit" /\ assign'.at = "release"
           /\ lab' = [lab EXCEPT !.phase = "working", !.review = Resolved(review), !.install = i]
    BY <1>4 DEF CommitAssignment, NoAssign, review
  <2>2. LET l == [lab EXCEPT !.phase = "working", !.review = Resolved(review), !.install = i]
        IN  l.review = Resolved(review) /\ l.install = i
    <3> HIDE DEF i
    <3> QED BY <1>1 DEF Labs
  <2>3. i.asg = 2
    OBVIOUS
  <2> HIDE DEF i
  <2> QED BY <1>1, <1>2, <1>4, <2>1, <2>2, <2>3
<1> QED BY <1>3, <1>4

(* No control is sent before the review is requested.                      *)
LEMMA SentStep ==
    ASSUME ReviewInv, [Next]_vars
    PROVE  Requested \/ ctl' = ctl
<1>1. /\ TypeOK /\ ctl \in [Controls -> Deliveries] /\ "ack" \in Controls
      /\ "request" \in Controls /\ kernel.dispatch => Requested
      /\ ~Requested => \A c \in Controls : ctl[c].status = "none" /\ ctl[c].run = "no"
      /\ ~Requested => ctl["ack"].status = "none" /\ ctl["request"].status = "none"
  BY DEF ReviewInv, TypeOK, NewInv, DeliveryInv, Controls
<1>2. CASE Dispatch
  BY <1>1, <1>2 DEF Dispatch
<1>3. CASE \E c \in Controls : RejectControl(c)
  BY <1>1, <1>3 DEF RejectControl, Deliverable
<1>4. CASE HandleRequest \/ PauseReviewed
  BY <1>1, <1>4 DEF HandleRequest, PauseReviewed, Deliverable
<1>5. CASE EndRequest \/ EndAck \/ FailAck
  BY <1>1, <1>5 DEF EndRequest, EndAck, FailAck, MustFlush
<1>6. CASE ReplayReview
  BY <1>6 DEF ReplayReview
<1>7. CASE Crash
  <2>1. SUFFICES ASSUME ~Requested PROVE ctl' = ctl
    OBVIOUS
  <2>2. \A c \in Controls : GiveBack(ctl[c]) = ctl[c]
    BY <1>1, <2>1 DEF GiveBack, Deliveries
  <2>3. ctl' = [c \in Controls |-> GiveBack(ctl[c])]
    BY <1>1, <1>7, ControlSteps
  <2> QED BY <1>1, <2>2, <2>3
<1> QED BY <1>2, <1>3, <1>4, <1>5, <1>6, <1>7, ControlActions

(* What the steps make of the Goal.                                        *)
LEMMA GoalFacts ==
    ASSUME TypeOK
    PROVE  /\ Installed.asg = lab.install.asg
           /\ \A g \in Goals, phase \in {"active", "paused", "complete"} :
                 Raised(g, phase).asg = g.asg /\ Raised(g, phase).phase = phase
           /\ goal \in Goals /\ saved \in Goals /\ lab.install.asg \in {1, 2}
<1>1. \A g \in Goals, phase \in {"active", "paused", "complete"} :
         Raised(g, phase).asg = g.asg /\ Raised(g, phase).phase = phase
  BY DEF Goals, Raised
<1> QED BY <1>1, GoalValues DEF Installed

(* A runtime that is down, or closes, stays without work.                  *)
LEMMA DownStep ==
    ASSUME ReviewInv, [Next]_vars
    PROVE  DownInv'
<1>0. /\ kernel \in Kernels /\ worker \in Workers /\ assign \in Assigns
      /\ acq \in Acquisitions
      /\ DownInv
  BY DEF ReviewInv, TypeOK
<1>1. CASE StartTurn
  BY <1>1, <1>0 DEF StartTurn, DownInv, Open, Kernels, Workers, Assigns,
      Acquisitions
<1>2. CASE EndTurn
  BY <1>2, <1>0 DEF EndTurn, DownInv, Open, Kernels, Workers, Assigns,
      Acquisitions
<1>3. CASE CancelHold
  BY <1>3, <1>0 DEF CancelHold, Spend, DownInv, Open, Kernels, Workers,
      Assigns, Acquisitions
<1>4. CASE Submit
  BY <1>4, <1>0 DEF Submit, Open, review, Requested, Spend, DownInv, Kernels,
      Workers, Assigns, Acquisitions
<1>5. CASE RunSubmission
  BY <1>5, <1>0 DEF RunSubmission, QueueFree, Open, Requested, review,
      NoReview, DownInv, Kernels, Workers, Assigns, Acquisitions
<1>6. CASE Dispatch
  BY <1>6, <1>0 DEF Dispatch, DownInv, Open, Kernels, Workers, Assigns,
      Acquisitions
<1>7. CASE EndAck
  BY <1>7, <1>0 DEF EndAck, MustFlush, Completed, Open, DownInv, Kernels,
      Workers, Assigns, Acquisitions
<1>8. CASE RecordOutcome
  BY <1>8, <1>0 DEF RecordOutcome, QueueFree, Open, review, DownInv, Kernels,
      Workers, Assigns, Acquisitions
<1>9. CASE Acquire
  BY <1>9, <1>0 DEF Acquire, Open, review, Finish, NoAcquisition, Join,
      DownInv, Kernels, Workers, Assigns, Acquisitions
<1>10. CASE ClaimHold
  BY <1>10, <1>0 DEF ClaimHold, Open, Finish, NoAcquisition, Join, DownInv,
      Kernels, Workers, Assigns, Acquisitions
<1>11. CASE FinishFreeze
  BY <1>11, <1>0 DEF FinishFreeze, QueueFree, Open, review, NoAcquisition,
      DownInv, Kernels, Workers, Assigns, Acquisitions
<1>12. CASE WakeJudge
  BY <1>12, <1>0 DEF WakeJudge, Open, DownInv, Kernels, Workers, Assigns,
      Acquisitions
<1>13. CASE StageAssignment
  BY <1>13, <1>0 DEF StageAssignment, MayAssign, QueueFree, Open, review,
      Installing, NoAssign, DownInv, Kernels, Workers, Assigns, Acquisitions
<1>14. CASE RepeatAssignment
  BY <1>14, <1>0 DEF RepeatAssignment, MayAssign, QueueFree, Open, review,
      NoAssign, Installing, DownInv, Kernels, Workers, Assigns, Acquisitions
<1>15. CASE InstallGoal
  BY <1>15, <1>0 DEF InstallGoal, CanMaintain, NoAssign, DownInv, Open,
      Kernels, Workers, Assigns, Acquisitions
<1>16. CASE FindBusy
  BY <1>16, <1>0 DEF FindBusy, CanMaintain, NoAssign, DownInv, Open, Kernels,
      Workers, Assigns, Acquisitions
<1>17. CASE FlushInstalled
  BY <1>17, <1>0 DEF FlushInstalled, JobEnded, DownInv, Open, Kernels,
      Workers, Assigns, Acquisitions
<1>18. CASE FailInstalled
  BY <1>18, <1>0 DEF FailInstalled, Spend, JobEnded, NoAssign, DownInv, Open,
      Kernels, Workers, Assigns, Acquisitions
<1>19. CASE CommitAssignment
  BY <1>19, <1>0 DEF CommitAssignment, QueueFree, Open, review, NoAssign,
      DownInv, Kernels, Workers, Assigns, Acquisitions
<1>20. CASE ReleaseHold
  BY <1>20, <1>0 DEF ReleaseHold, NoAssign, DownInv, Open, Kernels, Workers,
      Assigns, Acquisitions
<1>21. CASE StartLab
  BY <1>21, <1>0 DEF StartLab, Spend, QueueFree, Open, DownInv, Kernels,
      Workers, Assigns, Acquisitions
<1>22. CASE ActivateRoles
  BY <1>22, <1>0 DEF ActivateRoles, Roles, Spend, DownInv, Open, Kernels,
      Workers, Assigns, Acquisitions
<1>23. CASE StageRoles
  BY <1>23, <1>0 DEF StageRoles, DownInv, Open, Kernels, Workers, Assigns,
      Acquisitions
<1>24. CASE StartInstall
  BY <1>24, <1>0 DEF StartInstall, CanMaintain, DownInv, Open, Kernels,
      Workers, Assigns, Acquisitions
<1>25. CASE FailStartInstall
  BY <1>25, <1>0 DEF FailStartInstall, Spend, CanMaintain, DownInv, Open,
      Kernels, Workers, Assigns, Acquisitions
<1>26. CASE SettleInstall
  BY <1>26, <1>0 DEF SettleInstall, DownInv, Open, Kernels, Workers, Assigns,
      Acquisitions
<1>27. CASE ReplayReview
  BY <1>27, <1>0 DEF ReplayReview, Requested, review, Refused, Retracked,
      DownInv, Open, Kernels, Workers, Assigns, Acquisitions
<1>28. CASE Close
  BY <1>28, <1>0 DEF Close, Spend, Open, NoAcquisition, DownInv, Kernels,
      Workers, Assigns, Acquisitions
<1>29. CASE Shutdown
  BY <1>29, <1>0 DEF Shutdown, Raised, Gone, Unloaded, NoAssign, DownInv,
      Open, Kernels, Workers, Assigns, Acquisitions
<1>30. CASE Crash
  BY <1>30, <1>0 DEF Crash, Spend, GiveBack, Gone, Unloaded, NoAcquisition,
      NoAssign, DownInv, Open, Kernels, Workers, Assigns, Acquisitions
<1>31. CASE Boot
  BY <1>31, <1>0 DEF Boot, review, DownInv, Open, Kernels, Workers, Assigns,
      Acquisitions
<1>32. CASE ChangeLab
  BY <1>32, <1>0 DEF ChangeLab, Spend, QueueFree, Open, DownInv, Kernels,
      Workers, Assigns, Acquisitions
<1>33. CASE UNCHANGED <<kernel, worker, assign, acq, todo>>
  BY <1>33, <1>0 DEF DownInv, Open, Requested, review
<1> DEFINE Cases == UNCHANGED <<kernel, worker, assign, acq, todo>> \/
      StartTurn \/ EndTurn \/ CancelHold \/ Submit \/ RunSubmission \/
      Dispatch \/ EndAck \/ RecordOutcome \/ Acquire \/ ClaimHold \/
      FinishFreeze \/ WakeJudge \/ StageAssignment \/ RepeatAssignment \/
      InstallGoal \/ FindBusy \/ FlushInstalled \/ FailInstalled \/
      CommitAssignment \/ ReleaseHold \/ StartLab \/ ActivateRoles \/
      StageRoles \/ StartInstall \/ FailStartInstall \/ SettleInstall \/
      ReplayReview \/ Close \/ Shutdown \/ Crash \/ Boot \/ ChangeLab
<1>34. Next => Cases
  <2>1. Agents => Cases
    BY DEF Agents, Persist, PersistWake, ChangeGoal
  <2>2. Submission => Cases
    BY DEF Submission
  <2>3. Delivery => Cases
    BY DEF Delivery, RejectControl, HandleRequest, EndRequest, PauseReviewed,
        FailAck
  <2>4. Tasks => Cases
    BY DEF Tasks, RecordVerdict
  <2>5. Assigning => Cases
    BY DEF Assigning
  <2>6. Starting => Cases
    BY DEF Starting
  <2>7. Restarting => Cases
    BY DEF Restarting
  <2>8. TrackGoal \/ ChangeLab => Cases
    BY DEF TrackGoal
  <2> QED BY <2>1, <2>2, <2>3, <2>4, <2>5, <2>6, <2>7, <2>8 DEF Next
<1> QED
  BY <1>1, <1>2, <1>3, <1>4, <1>5, <1>6, <1>7, <1>8, <1>9, <1>10, <1>11,
      <1>12, <1>13, <1>14, <1>15, <1>16, <1>17, <1>18, <1>19, <1>20, <1>21,
      <1>22, <1>23, <1>24, <1>25, <1>26, <1>27, <1>28, <1>29, <1>30, <1>31,
      <1>32, <1>33, <1>34 DEF vars

(* The freeze keeps following the outcome of the acknowledgement.          *)
LEMMA OutcomeStep ==
    ASSUME ReviewInv, [Next]_vars
    PROVE  OutcomeInv'
<1>0. /\ lab \in Labs /\ ctl["ack"] \in Deliveries /\ acq \in Acquisitions
      /\ todo \subseteq {"record", "acquire", "wake"} /\ kernel \in Kernels
      /\ DeliveryInv /\ OutcomeInv /\ DownInv /\ TurnInv
  BY DEF ReviewInv, TypeOK, Controls
<1>a. /\ EndAck => AckEnds
      /\ PauseReviewed => AckStarts
      /\ Dispatch \/ ReplayReview \/ FailAck \/ Crash \/ ctl' = ctl => AckKept
      /\ EndAck \/ PauseReviewed \/ AckKept
      /\ Crash => ctl'["ack"].run = "no"
  BY AckStep DEF ReviewInv
<1>1. CASE RunSubmission
  BY <1>1, <1>0, <1>a DEF RunSubmission, QueueFree, Open, Requested, review,
      NoReview, OutcomeInv, TurnInv, TurnOver, DownInv, Labs, Reviews,
      Installs, Refs, Freezes, Deliveries, Acquisitions, Kernels, AckKept
<1>2. CASE PauseReviewed
  BY <1>2, <1>0, <1>a DEF PauseReviewed, Open, Raised, OutcomeInv, TurnInv,
      TurnOver, DownInv, review, Labs, Reviews, Installs, Refs, Freezes,
      Deliveries, Acquisitions, Kernels, AckStarts
<1>3. CASE EndAck
  BY <1>3, <1>0, <1>a DEF EndAck, MustFlush, Open, OutcomeInv, TurnInv,
      TurnOver, DownInv, review, Labs, Reviews, Installs, Refs, Freezes,
      Deliveries, Acquisitions, Kernels, AckEnds
<1>4. CASE RecordOutcome
  <2>1. AckKept /\ ctl["ack"].status = "completed" /\ todo' \in SUBSET (todo \cup {"acquire", "wake"})
    BY <1>4, <1>0, <1>a DEF RecordOutcome, OutcomeInv
  <2>2. \/ lab' = lab
        \/ review.freeze = "pending" /\ lab'.review.freeze = Freeze(ctl["ack"])
    BY <1>4, FreezeSteps, ReviewValues DEF ReviewInv, Reviews
  <2>3. ctl["ack"].found \in {"pause", "applied", "no-goal", "stale"}
    BY <1>0, <2>1 DEF OutcomeInv, Deliveries
  <2> QED BY <1>0, <2>1, <2>2, <2>3 DEF OutcomeInv, AckKept, Freeze, review
<1>5. CASE Acquire
  BY <1>5, <1>0, <1>a DEF Acquire, Open, review, Finish, NoAcquisition, Join,
      OutcomeInv, TurnInv, TurnOver, DownInv, Labs, Reviews, Installs, Refs,
      Freezes, Deliveries, Acquisitions, Kernels, AckKept
<1>6. CASE FinishFreeze
  BY <1>6, <1>0, <1>a DEF FinishFreeze, QueueFree, Open, review,
      NoAcquisition, OutcomeInv, TurnInv, TurnOver, DownInv, Labs, Reviews,
      Installs, Refs, Freezes, Deliveries, Acquisitions, Kernels, AckKept
<1>7. CASE WakeJudge
  BY <1>7, <1>0, <1>a DEF WakeJudge, Open, OutcomeInv, TurnInv, TurnOver,
      DownInv, review, Labs, Reviews, Installs, Refs, Freezes, Deliveries,
      Acquisitions, Kernels, AckKept
<1>8. CASE RecordVerdict
  BY <1>8, <1>0, <1>a DEF RecordVerdict, QueueFree, Open, review, OutcomeInv,
      TurnInv, TurnOver, DownInv, Labs, Reviews, Installs, Refs, Freezes,
      Deliveries, Acquisitions, Kernels, AckKept
<1>9. CASE StageAssignment
  BY <1>9, <1>0, <1>a DEF StageAssignment, MayAssign, QueueFree, Open, review,
      FreezeComplete, Installing, NoAssign, OutcomeInv, TurnInv, TurnOver,
      DownInv, Labs, Reviews, Installs, Refs, Freezes, Deliveries,
      Acquisitions, Kernels, AckKept
<1>10. CASE RepeatAssignment
  BY <1>10, <1>0, <1>a DEF RepeatAssignment, MayAssign, QueueFree, Open,
      review, FreezeComplete, Resolved, NoAssign, Installing, OutcomeInv,
      TurnInv, TurnOver, DownInv, Labs, Reviews, Installs, Refs, Freezes,
      Deliveries, Acquisitions, Kernels, AckKept
<1>11. CASE CommitAssignment
  BY <1>11, <1>0, <1>a DEF CommitAssignment, QueueFree, Open, FreezeComplete,
      review, Resolved, NoAssign, OutcomeInv, TurnInv, TurnOver, DownInv,
      Labs, Reviews, Installs, Refs, Freezes, Deliveries, Acquisitions,
      Kernels, AckKept
<1>12. CASE StageRoles
  BY <1>12, <1>0, <1>a DEF StageRoles, OutcomeInv, TurnInv, TurnOver, DownInv,
      Open, review, Labs, Reviews, Installs, Refs, Freezes, Deliveries,
      Acquisitions, Kernels, AckKept
<1>13. CASE SettleInstall
  BY <1>13, <1>0, <1>a DEF SettleInstall, OutcomeInv, TurnInv, TurnOver,
      DownInv, Open, review, Labs, Reviews, Installs, Refs, Freezes,
      Deliveries, Acquisitions, Kernels, AckKept
<1>14. CASE ReplayReview
  BY <1>14, <1>0, <1>a DEF ReplayReview, Requested, review, FreezeComplete,
      Refused, Retracked, OutcomeInv, TurnInv, TurnOver, DownInv, Open, Labs,
      Reviews, Installs, Refs, Freezes, Deliveries, Acquisitions, Kernels,
      AckKept
<1>15. CASE Close
  BY <1>15, <1>0, <1>a DEF Close, Spend, Open, NoAcquisition, OutcomeInv,
      TurnInv, TurnOver, DownInv, review, Labs, Reviews, Installs, Refs,
      Freezes, Deliveries, Acquisitions, Kernels, AckKept
<1>16. CASE Crash
  BY <1>16, <1>0, <1>a DEF Crash, Spend, Gone, Unloaded, NoAcquisition,
      NoAssign, OutcomeInv, TurnInv, TurnOver, DownInv, Open, review, Labs,
      Reviews, Installs, Refs, Freezes, Deliveries, Acquisitions, Kernels,
      AckKept
<1>17. CASE Boot
  BY <1>17, <1>0, <1>a DEF Boot, review, Recovered, OutcomeInv, TurnInv,
      TurnOver, DownInv, Open, Labs, Reviews, Installs, Refs, Freezes,
      Deliveries, Acquisitions, Kernels, AckKept
<1>18. CASE TrackGoal
  BY <1>18, <1>0, <1>a DEF TrackGoal, QueueFree, Open, OutcomeInv, TurnInv,
      TurnOver, DownInv, review, Labs, Reviews, Installs, Refs, Freezes,
      Deliveries, Acquisitions, Kernels, AckKept
<1>19. CASE lab' = lab /\ todo' = todo /\ AckKept
  BY <1>19, <1>0 DEF OutcomeInv, TurnInv, TurnOver, DownInv, Open, review,
      Labs, Reviews, Installs, Refs, Freezes, Deliveries, Acquisitions,
      Kernels, AckKept, Requested
<1> DEFINE Cases == (lab' = lab /\ todo' = todo) \/ RunSubmission \/
      PauseReviewed \/ EndAck \/ RecordOutcome \/ Acquire \/ FinishFreeze \/
      WakeJudge \/ RecordVerdict \/ StageAssignment \/ RepeatAssignment \/
      CommitAssignment \/ StageRoles \/ SettleInstall \/ ReplayReview \/ Close
      \/ Crash \/ Boot \/ TrackGoal
<1>20. Next => Cases
  <2>1. Agents => Cases
    BY DEF Agents, StartTurn, EndTurn, Persist, PersistWake, ChangeGoal,
        CancelHold
  <2>2. Submission => Cases
    BY DEF Submission, Submit, Dispatch
  <2>3. Delivery => Cases
    BY DEF Delivery, RejectControl, HandleRequest, EndRequest, FailAck
  <2>4. Tasks => Cases
    BY DEF Tasks, ClaimHold
  <2>5. Assigning => Cases
    BY DEF Assigning, InstallGoal, FindBusy, FlushInstalled, FailInstalled,
        ReleaseHold
  <2>6. Starting => Cases
    BY DEF Starting, StartLab, ActivateRoles, StartInstall, FailStartInstall
  <2>7. Restarting => Cases
    BY DEF Restarting, Shutdown
  <2>8. TrackGoal \/ ChangeLab => Cases
    BY DEF ChangeLab
  <2> QED BY <2>1, <2>2, <2>3, <2>4, <2>5, <2>6, <2>7, <2>8 DEF Next
<1> QED
  BY <1>a, <1>1, <1>2, <1>3, <1>4, <1>5, <1>6, <1>7, <1>8, <1>9, <1>10, <1>11,
      <1>12, <1>13, <1>14, <1>15, <1>16, <1>17, <1>18, <1>19, <1>20 DEF vars

(* Nothing of a review is there before it is requested.                    *)
LEMMA NewStep ==
    ASSUME ReviewInv, [Next]_vars
    PROVE  NewInv'
<1>0. /\ lab \in Labs /\ kernel \in Kernels /\ judge \in Judges
      /\ NewInv /\ TypeOK
  BY DEF ReviewInv, TypeOK
<1>b. Requested \/ ctl' = ctl
  BY SentStep
<1>1. CASE PersistWake
  BY <1>1, <1>0, <1>b DEF PersistWake, NewInv, Requested, review, Labs,
      Reviews, Installs, Refs, Freezes, Kernels, Judges
<1>2. CASE Submit
  BY <1>2, <1>0, <1>b DEF Submit, Open, review, Requested, Spend, NewInv,
      Labs, Reviews, Installs, Refs, Freezes, Kernels, Judges
<1>3. CASE RunSubmission
  BY <1>3, <1>0, <1>b DEF RunSubmission, QueueFree, Open, Requested, review,
      NoReview, NewInv, Labs, Reviews, Installs, Refs, Freezes, Kernels,
      Judges
<1>4. CASE Dispatch
  BY <1>4, <1>0, <1>b DEF Dispatch, NewInv, Requested, review, Labs, Reviews,
      Installs, Refs, Freezes, Kernels, Judges
<1>5. CASE RecordOutcome
  <2>1. \/ lab' = lab
        \/ /\ Requested /\ lab'.review.freeze = Freeze(ctl["ack"])
           /\ lab'.review.turn = review.turn
    BY <1>5, FreezeSteps, ReviewValues DEF ReviewInv, Reviews, Requested
  <2>2. UNCHANGED <<kernel, judge, ctl>>
    BY <1>5 DEF RecordOutcome
  <2> QED BY <1>0, <2>1, <2>2 DEF NewInv, Requested, review, Freeze
<1>6. CASE ClaimHold
  BY <1>6, <1>0, <1>b DEF ClaimHold, Open, Finish, NoAcquisition, Join,
      NewInv, Requested, review, Labs, Reviews, Installs, Refs, Freezes,
      Kernels, Judges
<1>7. CASE FinishFreeze
  <2>1. \/ lab' = lab
        \/ /\ Requested /\ lab'.review.freeze = acq.as
           /\ lab'.review.turn = review.turn
    BY <1>7, FreezeSteps, ReviewValues DEF ReviewInv, Reviews, Requested
  <2>2. UNCHANGED <<kernel, judge, ctl>> /\ acq.as # "none"
    BY <1>7 DEF FinishFreeze, ReviewInv, TypeOK, Acquisitions
  <2> QED BY <1>0, <2>1, <2>2 DEF NewInv, Requested, review
<1>8. CASE WakeJudge
  BY <1>8, <1>0, <1>b DEF WakeJudge, Open, Woken, review, FreezeComplete,
      NewInv, Requested, Labs, Reviews, Installs, Refs, Freezes, Kernels,
      Judges
<1>9. CASE RecordVerdict
  BY <1>9, <1>0, <1>b DEF RecordVerdict, QueueFree, Open, review, NewInv,
      Requested, Labs, Reviews, Installs, Refs, Freezes, Kernels, Judges
<1>10. CASE StageAssignment
  BY <1>10, <1>0, <1>b DEF StageAssignment, MayAssign, QueueFree, Open,
      review, FreezeComplete, Installing, NoAssign, NewInv, Requested, Labs,
      Reviews, Installs, Refs, Freezes, Kernels, Judges
<1>11. CASE RepeatAssignment
  <2>1. UNCHANGED <<kernel, judge, ctl>>
    BY <1>11 DEF RepeatAssignment
  <2> QED BY <1>11, <1>0, <2>1, ResolveSteps DEF ReviewInv, FreezeComplete, NewInv, Requested, review
<1>12. CASE CommitAssignment
  <2>1. UNCHANGED <<kernel, judge, ctl>>
    BY <1>12 DEF CommitAssignment
  <2> QED BY <1>12, <1>0, <2>1, ResolveSteps DEF ReviewInv, FreezeComplete, NewInv, Requested, review
<1>13. CASE ReleaseHold
  BY <1>13, <1>0, <1>b DEF ReleaseHold, NoAssign, NewInv, Requested, review,
      Labs, Reviews, Installs, Refs, Freezes, Kernels, Judges
<1>14. CASE StartLab
  BY <1>14, <1>0, <1>b DEF StartLab, Spend, QueueFree, Open, NewInv,
      Requested, review, Labs, Reviews, Installs, Refs, Freezes, Kernels,
      Judges
<1>15. CASE ActivateRoles
  BY <1>15, <1>0, <1>b DEF ActivateRoles, Roles, Spend, NewInv, Requested,
      review, Labs, Reviews, Installs, Refs, Freezes, Kernels, Judges
<1>16. CASE StageRoles
  BY <1>16, <1>0, <1>b DEF StageRoles, NewInv, Requested, review, Labs,
      Reviews, Installs, Refs, Freezes, Kernels, Judges
<1>17. CASE StartInstall
  BY <1>17, <1>0, <1>b DEF StartInstall, CanMaintain, NewInv, Requested,
      review, Labs, Reviews, Installs, Refs, Freezes, Kernels, Judges
<1>18. CASE FailStartInstall
  BY <1>18, <1>0, <1>b DEF FailStartInstall, Spend, CanMaintain, NewInv,
      Requested, review, Labs, Reviews, Installs, Refs, Freezes, Kernels,
      Judges
<1>19. CASE SettleInstall
  BY <1>19, <1>0, <1>b DEF SettleInstall, NewInv, Requested, review, Labs,
      Reviews, Installs, Refs, Freezes, Kernels, Judges
<1>20. CASE ReplayReview
  BY <1>20, <1>0, <1>b DEF ReplayReview, Requested, review, FreezeComplete,
      Refused, Woken, NewInv, Labs, Reviews, Installs, Refs, Freezes, Kernels,
      Judges
<1>21. CASE Close
  BY <1>21, <1>0, <1>b DEF Close, Spend, Open, NoAcquisition, NewInv,
      Requested, review, Labs, Reviews, Installs, Refs, Freezes, Kernels,
      Judges
<1>22. CASE Shutdown
  BY <1>22, <1>0, <1>b DEF Shutdown, Raised, Gone, Unloaded, NoAssign, NewInv,
      Requested, review, Labs, Reviews, Installs, Refs, Freezes, Kernels,
      Judges
<1>23. CASE Crash
  BY <1>23, <1>0, <1>b DEF Crash, Spend, Gone, Unloaded, NoAcquisition,
      NoAssign, NewInv, Requested, review, Labs, Reviews, Installs, Refs,
      Freezes, Kernels, Judges
<1>24. CASE Boot
  BY <1>24, <1>0, <1>b DEF Boot, review, Recovered, NewInv, Requested, Labs,
      Reviews, Installs, Refs, Freezes, Kernels, Judges
<1>25. CASE TrackGoal
  BY <1>25, <1>0, <1>b DEF TrackGoal, QueueFree, Open, Projects, NewInv,
      Requested, review, Labs, Reviews, Installs, Refs, Freezes, Kernels,
      Judges
<1>26. CASE UNCHANGED <<lab, kernel, judge>>
  BY <1>26, <1>0, <1>b DEF NewInv, Requested, review, Open
<1> DEFINE Cases == UNCHANGED <<lab, kernel, judge>> \/ PersistWake \/ Submit
      \/ RunSubmission \/ Dispatch \/ RecordOutcome \/ ClaimHold \/
      FinishFreeze \/ WakeJudge \/ RecordVerdict \/ StageAssignment \/
      RepeatAssignment \/ CommitAssignment \/ ReleaseHold \/ StartLab \/
      ActivateRoles \/ StageRoles \/ StartInstall \/ FailStartInstall \/
      SettleInstall \/ ReplayReview \/ Close \/ Shutdown \/ Crash \/ Boot \/
      TrackGoal
<1>27. Next => Cases
  <2>1. Agents => Cases
    BY DEF Agents, StartTurn, EndTurn, Persist, ChangeGoal, CancelHold
  <2>2. Submission => Cases
    BY DEF Submission
  <2>3. Delivery => Cases
    BY DEF Delivery, RejectControl, HandleRequest, EndRequest, PauseReviewed,
        EndAck, FailAck
  <2>4. Tasks => Cases
    BY DEF Tasks, Acquire
  <2>5. Assigning => Cases
    BY DEF Assigning, InstallGoal, FindBusy, FlushInstalled, FailInstalled
  <2>6. Starting => Cases
    BY DEF Starting
  <2>7. Restarting => Cases
    BY DEF Restarting
  <2>8. TrackGoal \/ ChangeLab => Cases
    BY DEF ChangeLab
  <2> QED BY <2>1, <2>2, <2>3, <2>4, <2>5, <2>6, <2>7, <2>8 DEF Next
<1> QED
  BY <1>1, <1>2, <1>3, <1>4, <1>5, <1>6, <1>7, <1>8, <1>9, <1>10, <1>11,
      <1>12, <1>13, <1>14, <1>15, <1>16, <1>17, <1>18, <1>19, <1>20, <1>21,
      <1>22, <1>23, <1>24, <1>25, <1>26, <1>27 DEF vars

(* The turn of the submission is not opened again.                         *)
LEMMA TurnStep ==
    ASSUME ReviewInv, [Next]_vars
    PROVE  TurnInv'
<1>0. /\ worker \in Workers /\ kernel \in Kernels /\ lab \in Labs
      /\ acq \in Acquisitions /\ judge \in Judges /\ ctl["ack"] \in Deliveries
      /\ TurnInv /\ DownInv /\ OutcomeInv /\ NewInv /\ TypeOK
  BY DEF ReviewInv, TypeOK, Controls
<1>a. /\ EndAck => AckEnds
      /\ PauseReviewed => AckStarts
      /\ Dispatch \/ ReplayReview \/ FailAck \/ Crash \/ ctl' = ctl => AckKept
      /\ EndAck \/ PauseReviewed \/ AckKept
      /\ Crash => ctl'["ack"].run = "no"
  BY AckStep DEF ReviewInv
<1>1. CASE StartTurn
  BY <1>1, <1>0, <1>a DEF StartTurn, TurnInv, TurnOver, Open, review,
      OutcomeInv, NewInv, Requested, DownInv, Workers, Kernels, Labs, Reviews,
      Installs, Refs, Freezes, Acquisitions, Judges, Deliveries, AckKept
<1>2. CASE EndTurn
  BY <1>2, <1>0, <1>a DEF EndTurn, TurnInv, TurnOver, Open, review,
      OutcomeInv, NewInv, Requested, DownInv, Workers, Kernels, Labs, Reviews,
      Installs, Refs, Freezes, Acquisitions, Judges, Deliveries, AckKept
<1>3. CASE PersistWake
  BY <1>3, <1>0, <1>a DEF PersistWake, TurnInv, TurnOver, Open, review,
      OutcomeInv, NewInv, Requested, DownInv, Workers, Kernels, Labs, Reviews,
      Installs, Refs, Freezes, Acquisitions, Judges, Deliveries, AckKept
<1>4. CASE CancelHold
  BY <1>4, <1>0, <1>a DEF CancelHold, Spend, TurnInv, TurnOver, Open, review,
      OutcomeInv, NewInv, Requested, DownInv, Workers, Kernels, Labs, Reviews,
      Installs, Refs, Freezes, Acquisitions, Judges, Deliveries, AckKept
<1>5. CASE Submit
  BY <1>5, <1>0, <1>a DEF Submit, Open, review, Requested, Spend, TurnInv,
      TurnOver, OutcomeInv, NewInv, DownInv, Workers, Kernels, Labs, Reviews,
      Installs, Refs, Freezes, Acquisitions, Judges, Deliveries, AckKept
<1>6. CASE RunSubmission
  <2>1. UNCHANGED <<worker, acq, judge, ctl>> /\ kernel' \in Kernels
        /\ kernel'.asked = 0
    BY <1>6, <1>0, KernelTyped DEF RunSubmission, Kernels
  <2>2. CASE lab' = lab
    BY <1>0, <2>1, <2>2 DEF TurnInv, TurnOver, review, Workers
  <2>3. CASE ~Requested /\ lab'.review.freeze = "pending" /\ lab'.review.turn = kernel.asked
    BY <1>0, <2>1, <2>3 DEF TurnInv, TurnOver, NewInv, OutcomeInv, review, Workers, Kernels, Requested, Controls
  <2> QED BY <1>6, <1>0, <2>2, <2>3, RequestStep
<1>7. CASE Dispatch
  BY <1>7, <1>0, <1>a DEF Dispatch, TurnInv, TurnOver, Open, review,
      OutcomeInv, NewInv, Requested, DownInv, Workers, Kernels, Labs, Reviews,
      Installs, Refs, Freezes, Acquisitions, Judges, Deliveries, AckKept
<1>8. CASE PauseReviewed
  BY <1>8, <1>0, <1>a DEF PauseReviewed, Open, Raised, TurnInv, TurnOver,
      review, OutcomeInv, NewInv, Requested, DownInv, Workers, Kernels, Labs,
      Reviews, Installs, Refs, Freezes, Acquisitions, Judges, Deliveries,
      AckStarts
<1>9. CASE EndAck
  BY <1>9, <1>0, <1>a DEF EndAck, MustFlush, Open, TurnInv, TurnOver, review,
      OutcomeInv, NewInv, Requested, DownInv, Workers, Kernels, Labs, Reviews,
      Installs, Refs, Freezes, Acquisitions, Judges, Deliveries, AckEnds
<1>10. CASE RecordOutcome
  <2>1. UNCHANGED <<worker, kernel, acq, judge, ctl>> /\ ctl["ack"].status = "completed"
    BY <1>10, <1>0 DEF RecordOutcome, OutcomeInv
  <2>2. CASE lab' = lab
    BY <1>0, <2>1, <2>2 DEF TurnInv, TurnOver, review, Workers
  <2>3. CASE /\ review.freeze = "pending" /\ lab'.review.freeze = Freeze(ctl["ack"])
             /\ lab'.review.obs = ctl["ack"].obs /\ lab'.review.turn = review.turn
    BY <1>0, <2>1, <2>3 DEF TurnInv, TurnOver, NewInv, Requested, review, Freeze, Workers
  <2>4. \/ lab' = lab
        \/ /\ review.freeze = "pending" /\ lab'.review.freeze = Freeze(ctl["ack"])
           /\ lab'.review.obs = ctl["ack"].obs /\ lab'.review.turn = review.turn
    BY <1>10, <1>0, FreezeSteps, ReviewValues DEF Reviews
  <2> QED BY <2>2, <2>3, <2>4
<1>11. CASE Acquire
  <2>1. UNCHANGED <<worker, kernel, lab, judge, ctl>>
    BY <1>11 DEF Acquire
  <2>2. \/ acq' = acq
        \/ /\ review.freeze = "hold-pending"
           /\ \/ acq' = Finish("user-override")
              \/ acq' = Finish("stopped") /\ worker.turn = 0
              \/ acq' = Join("cancelled") /\ worker.turn = review.obs
    BY <1>11 DEF Acquire
  <2>3. /\ Finish("user-override").at = "finish" /\ Finish("user-override").as = "user-override"
        /\ Finish("stopped").at = "finish" /\ Finish("stopped").as = "stopped"
        /\ Join("cancelled").at = "cancelled" /\ Join("cancelled").turn = worker.turn
    BY DEF Finish, Join, NoAcquisition
  <2> QED BY <1>0, <2>1, <2>2, <2>3 DEF TurnInv, TurnOver, review
<1>12. CASE ClaimHold
  <2>1. UNCHANGED <<lab, judge, ctl>> /\ acq.at \in {"cancelled", "joined"}
        /\ worker.turn # acq.turn
    BY <1>12 DEF ClaimHold
  <2>2. /\ worker'.turn = worker.turn /\ worker'.last = worker.last
        /\ kernel'.asked = kernel.asked
    BY <1>12, <1>0 DEF ClaimHold, Workers, Kernels
  <2>3. \/ acq' = Finish("held") /\ worker.turn = 0
        \/ acq' = Join("joined") /\ acq.at = "cancelled"
        \/ acq' = Finish("user-override")
    BY <1>12 DEF ClaimHold
  <2>4. /\ Finish("user-override").at = "finish" /\ Finish("user-override").as = "user-override"
        /\ Finish("held").at = "finish" /\ Finish("held").as = "held"
        /\ Join("joined").at = "joined"
    BY DEF Finish, Join, NoAcquisition
  <2> QED BY <1>0, <2>1, <2>2, <2>3, <2>4 DEF TurnInv, TurnOver, review
<1>13. CASE FinishFreeze
  BY <1>13, <1>0, <1>a DEF FinishFreeze, QueueFree, Open, review,
      NoAcquisition, TurnInv, TurnOver, OutcomeInv, NewInv, Requested,
      DownInv, Workers, Kernels, Labs, Reviews, Installs, Refs, Freezes,
      Acquisitions, Judges, Deliveries, AckKept
<1>14. CASE WakeJudge
  BY <1>14, <1>0, <1>a DEF WakeJudge, Open, Woken, review, FreezeComplete,
      TurnInv, TurnOver, OutcomeInv, NewInv, Requested, DownInv, Workers,
      Kernels, Labs, Reviews, Installs, Refs, Freezes, Acquisitions, Judges,
      Deliveries, AckKept
<1>15. CASE RecordVerdict
  BY <1>15, <1>0, <1>a DEF RecordVerdict, QueueFree, Open, review, TurnInv,
      TurnOver, OutcomeInv, NewInv, Requested, DownInv, Workers, Kernels,
      Labs, Reviews, Installs, Refs, Freezes, Acquisitions, Judges,
      Deliveries, AckKept
<1>16. CASE StageAssignment
  BY <1>16, <1>0, <1>a DEF StageAssignment, MayAssign, QueueFree, Open,
      review, FreezeComplete, Installing, NoAssign, TurnInv, TurnOver,
      OutcomeInv, NewInv, Requested, DownInv, Workers, Kernels, Labs, Reviews,
      Installs, Refs, Freezes, Acquisitions, Judges, Deliveries, AckKept
<1>17. CASE RepeatAssignment
  <2>1. UNCHANGED <<worker, kernel, acq, judge, ctl>>
    BY <1>17 DEF RepeatAssignment
  <2> QED BY <1>17, <1>0, <2>1, ResolveSteps DEF ReviewInv, FreezeComplete, TurnInv, TurnOver, review
<1>18. CASE InstallGoal
  BY <1>18, <1>0, <1>a DEF InstallGoal, CanMaintain, NoAssign, TurnInv,
      TurnOver, Open, review, OutcomeInv, NewInv, Requested, DownInv, Workers,
      Kernels, Labs, Reviews, Installs, Refs, Freezes, Acquisitions, Judges,
      Deliveries, AckKept
<1>19. CASE FlushInstalled
  BY <1>19, <1>0, <1>a DEF FlushInstalled, JobEnded, TurnInv, TurnOver, Open,
      review, OutcomeInv, NewInv, Requested, DownInv, Workers, Kernels, Labs,
      Reviews, Installs, Refs, Freezes, Acquisitions, Judges, Deliveries,
      AckKept
<1>20. CASE FailInstalled
  BY <1>20, <1>0, <1>a DEF FailInstalled, Spend, JobEnded, NoAssign, TurnInv,
      TurnOver, Open, review, OutcomeInv, NewInv, Requested, DownInv, Workers,
      Kernels, Labs, Reviews, Installs, Refs, Freezes, Acquisitions, Judges,
      Deliveries, AckKept
<1>21. CASE CommitAssignment
  <2>1. UNCHANGED <<worker, kernel, acq, judge, ctl>>
    BY <1>21 DEF CommitAssignment
  <2> QED BY <1>21, <1>0, <2>1, ResolveSteps DEF ReviewInv, FreezeComplete, TurnInv, TurnOver, review
<1>22. CASE ReleaseHold
  BY <1>22, <1>0, <1>a DEF ReleaseHold, NoAssign, TurnInv, TurnOver, Open,
      review, OutcomeInv, NewInv, Requested, DownInv, Workers, Kernels, Labs,
      Reviews, Installs, Refs, Freezes, Acquisitions, Judges, Deliveries,
      AckKept
<1>23. CASE StartLab
  BY <1>23, <1>0, <1>a DEF StartLab, Spend, QueueFree, Open, TurnInv,
      TurnOver, review, OutcomeInv, NewInv, Requested, DownInv, Workers,
      Kernels, Labs, Reviews, Installs, Refs, Freezes, Acquisitions, Judges,
      Deliveries, AckKept
<1>24. CASE ActivateRoles
  BY <1>24, <1>0, <1>a DEF ActivateRoles, Roles, Spend, TurnInv, TurnOver,
      Open, review, OutcomeInv, NewInv, Requested, DownInv, Workers, Kernels,
      Labs, Reviews, Installs, Refs, Freezes, Acquisitions, Judges,
      Deliveries, AckKept
<1>25. CASE StageRoles
  BY <1>25, <1>0, <1>a DEF StageRoles, TurnInv, TurnOver, Open, review,
      OutcomeInv, NewInv, Requested, DownInv, Workers, Kernels, Labs, Reviews,
      Installs, Refs, Freezes, Acquisitions, Judges, Deliveries, AckKept
<1>26. CASE StartInstall
  BY <1>26, <1>0, <1>a DEF StartInstall, CanMaintain, TurnInv, TurnOver, Open,
      review, OutcomeInv, NewInv, Requested, DownInv, Workers, Kernels, Labs,
      Reviews, Installs, Refs, Freezes, Acquisitions, Judges, Deliveries,
      AckKept
<1>27. CASE FailStartInstall
  BY <1>27, <1>0, <1>a DEF FailStartInstall, Spend, CanMaintain, TurnInv,
      TurnOver, Open, review, OutcomeInv, NewInv, Requested, DownInv, Workers,
      Kernels, Labs, Reviews, Installs, Refs, Freezes, Acquisitions, Judges,
      Deliveries, AckKept
<1>28. CASE SettleInstall
  BY <1>28, <1>0, <1>a DEF SettleInstall, TurnInv, TurnOver, Open, review,
      OutcomeInv, NewInv, Requested, DownInv, Workers, Kernels, Labs, Reviews,
      Installs, Refs, Freezes, Acquisitions, Judges, Deliveries, AckKept
<1>29. CASE ReplayReview
  BY <1>29, <1>0, <1>a DEF ReplayReview, Requested, review, FreezeComplete,
      Refused, Woken, TurnInv, TurnOver, Open, OutcomeInv, NewInv, DownInv,
      Workers, Kernels, Labs, Reviews, Installs, Refs, Freezes, Acquisitions,
      Judges, Deliveries, AckKept
<1>30. CASE Close
  BY <1>30, <1>0, <1>a DEF Close, Spend, Open, NoAcquisition, TurnInv,
      TurnOver, review, OutcomeInv, NewInv, Requested, DownInv, Workers,
      Kernels, Labs, Reviews, Installs, Refs, Freezes, Acquisitions, Judges,
      Deliveries, AckKept
<1>31. CASE Shutdown
  BY <1>31, <1>0, <1>a DEF Shutdown, Raised, Gone, Unloaded, NoAssign,
      TurnInv, TurnOver, Open, review, OutcomeInv, NewInv, Requested, DownInv,
      Workers, Kernels, Labs, Reviews, Installs, Refs, Freezes, Acquisitions,
      Judges, Deliveries, AckKept
<1>32. CASE Crash
  BY <1>32, <1>0, <1>a DEF Crash, Spend, Gone, Unloaded, NoAcquisition,
      NoAssign, TurnInv, TurnOver, Open, review, OutcomeInv, NewInv,
      Requested, DownInv, Workers, Kernels, Labs, Reviews, Installs, Refs,
      Freezes, Acquisitions, Judges, Deliveries, AckKept
<1>33. CASE Boot
  BY <1>33, <1>0, <1>a DEF Boot, review, Recovered, TurnInv, TurnOver, Open,
      OutcomeInv, NewInv, Requested, DownInv, Workers, Kernels, Labs, Reviews,
      Installs, Refs, Freezes, Acquisitions, Judges, Deliveries, AckKept
<1>34. CASE TrackGoal
  BY <1>34, <1>0, <1>a DEF TrackGoal, QueueFree, Open, TurnInv, TurnOver,
      review, OutcomeInv, NewInv, Requested, DownInv, Workers, Kernels, Labs,
      Reviews, Installs, Refs, Freezes, Acquisitions, Judges, Deliveries,
      AckKept
<1>35. CASE UNCHANGED <<worker, kernel, lab, acq, judge>> /\ AckKept
  BY <1>35, <1>0 DEF TurnInv, TurnOver, Open, review, OutcomeInv, NewInv,
      Requested, DownInv, Workers, Kernels, Labs, Reviews, Installs, Refs,
      Freezes, Acquisitions, Judges, Deliveries, AckKept
<1> DEFINE Cases == UNCHANGED <<worker, kernel, lab, acq, judge>> \/ StartTurn
      \/ EndTurn \/ PersistWake \/ CancelHold \/ Submit \/ RunSubmission \/
      Dispatch \/ PauseReviewed \/ EndAck \/ RecordOutcome \/ Acquire \/
      ClaimHold \/ FinishFreeze \/ WakeJudge \/ RecordVerdict \/
      StageAssignment \/ RepeatAssignment \/ InstallGoal \/ FlushInstalled \/
      FailInstalled \/ CommitAssignment \/ ReleaseHold \/ StartLab \/
      ActivateRoles \/ StageRoles \/ StartInstall \/ FailStartInstall \/
      SettleInstall \/ ReplayReview \/ Close \/ Shutdown \/ Crash \/ Boot \/
      TrackGoal
<1>36. Next => Cases
  <2>1. Agents => Cases
    BY DEF Agents, Persist, ChangeGoal
  <2>2. Submission => Cases
    BY DEF Submission
  <2>3. Delivery => Cases
    BY DEF Delivery, RejectControl, HandleRequest, EndRequest, FailAck
  <2>4. Tasks => Cases
    BY DEF Tasks
  <2>5. Assigning => Cases
    BY DEF Assigning, FindBusy
  <2>6. Starting => Cases
    BY DEF Starting
  <2>7. Restarting => Cases
    BY DEF Restarting
  <2>8. TrackGoal \/ ChangeLab => Cases
    BY DEF ChangeLab
  <2> QED BY <2>1, <2>2, <2>3, <2>4, <2>5, <2>6, <2>7, <2>8 DEF Next
<1> QED
  BY <1>a, <1>1, <1>2, <1>3, <1>4, <1>5, <1>6, <1>7, <1>8, <1>9, <1>10, <1>11,
      <1>12, <1>13, <1>14, <1>15, <1>16, <1>17, <1>18, <1>19, <1>20, <1>21,
      <1>22, <1>23, <1>24, <1>25, <1>26, <1>27, <1>28, <1>29, <1>30, <1>31,
      <1>32, <1>33, <1>34, <1>35, <1>36 DEF vars

(* The present owner's hold is kept until the resolution.                  *)
LEMMA HoldStep ==
    ASSUME ReviewInv, [Next]_vars
    PROVE  HoldInv'
<1>0. /\ worker \in Workers /\ kernel \in Kernels /\ lab \in Labs
      /\ acq \in Acquisitions /\ assign \in Assigns /\ touched \in BOOLEAN
      /\ HoldInv /\ TurnInv /\ DownInv /\ TypeOK
  BY DEF ReviewInv, TypeOK
<1>1. CASE StartTurn
  BY <1>1, <1>0 DEF StartTurn, HoldInv, HeldMeansHeld, TurnInv, Open, review,
      DownInv, Workers, Kernels, Labs, Reviews, Installs, Refs, Freezes,
      Acquisitions, Assigns
<1>2. CASE EndTurn
  BY <1>2, <1>0 DEF EndTurn, HoldInv, HeldMeansHeld, TurnInv, Open, review,
      DownInv, Workers, Kernels, Labs, Reviews, Installs, Refs, Freezes,
      Acquisitions, Assigns
<1>3. CASE ChangeGoal
  BY <1>3, <1>0 DEF ChangeGoal, Spend, HoldInv, HeldMeansHeld, TurnInv, Open,
      review, DownInv, Workers, Kernels, Labs, Reviews, Installs, Refs,
      Freezes, Acquisitions, Assigns
<1>4. CASE CancelHold
  BY <1>4, <1>0 DEF CancelHold, Spend, HoldInv, HeldMeansHeld, TurnInv, Open,
      review, DownInv, Workers, Kernels, Labs, Reviews, Installs, Refs,
      Freezes, Acquisitions, Assigns
<1>5. CASE Submit
  BY <1>5, <1>0 DEF Submit, Open, review, Requested, Spend, HoldInv,
      HeldMeansHeld, TurnInv, DownInv, Workers, Kernels, Labs, Reviews,
      Installs, Refs, Freezes, Acquisitions, Assigns
<1>6. CASE RunSubmission
  <2>1. UNCHANGED <<worker, acq, assign>> /\ kernel'.mode = kernel.mode
        /\ kernel'.epoch = kernel.epoch /\ kernel'.hold = kernel.hold
    BY <1>6, <1>0 DEF RunSubmission, Kernels
  <2>2. CASE lab' = lab /\ touched' = touched
    BY <1>0, <2>1, <2>2 DEF HoldInv, HeldMeansHeld, Open, review
  <2>3. CASE /\ ~Requested /\ lab'.review.freeze = "pending" /\ lab'.review.holder = 0
             /\ ~lab'.review.resolved
    BY <1>0, <2>1, <2>3 DEF HoldInv, TurnInv, HeldMeansHeld, Open, review, Requested, Kernels
  <2> QED BY <1>6, <1>0, <2>2, <2>3, RequestStep
<1>7. CASE Dispatch
  BY <1>7, <1>0 DEF Dispatch, HoldInv, HeldMeansHeld, TurnInv, Open, review,
      DownInv, Workers, Kernels, Labs, Reviews, Installs, Refs, Freezes,
      Acquisitions, Assigns
<1>8. CASE RecordOutcome
  <2>1. UNCHANGED <<worker, kernel, acq, assign, touched>>
    BY <1>8 DEF RecordOutcome
  <2>2. \/ lab' = lab
        \/ /\ review.freeze = "pending" /\ lab'.review.freeze = Freeze(ctl["ack"])
           /\ lab'.review.holder = review.holder /\ lab'.review.resolved = review.resolved
    BY <1>8, <1>0, FreezeSteps, ReviewValues DEF Reviews
  <2>3. Freeze(ctl["ack"]) # "held"
    BY DEF Freeze
  <2> QED BY <1>0, <2>1, <2>2, <2>3 DEF HoldInv, TurnInv, HeldMeansHeld, Open, review
<1>9. CASE Acquire
  BY <1>9, <1>0 DEF Acquire, Open, review, Finish, NoAcquisition, Join,
      HoldInv, HeldMeansHeld, TurnInv, DownInv, Workers, Kernels, Labs,
      Reviews, Installs, Refs, Freezes, Acquisitions, Assigns
<1>10. CASE ClaimHold
  BY <1>10, <1>0 DEF ClaimHold, Open, Finish, NoAcquisition, Join, HoldInv,
      HeldMeansHeld, TurnInv, review, DownInv, Workers, Kernels, Labs,
      Reviews, Installs, Refs, Freezes, Acquisitions, Assigns
<1>11. CASE FinishFreeze
  <2>1. UNCHANGED <<worker, kernel, assign, touched>> /\ acq.at = "finish" /\ acq'.at = "none"
    BY <1>11 DEF FinishFreeze, NoAcquisition
  <2>2. \/ lab' = lab
        \/ /\ review.freeze = "hold-pending" /\ lab'.review.freeze = acq.as
           /\ lab'.review.holder = IF acq.as = "held" THEN kernel.epoch ELSE 0
           /\ lab'.review.resolved = review.resolved
    BY <1>11, <1>0, FreezeSteps, ReviewValues DEF Reviews
  <2> QED BY <1>0, <2>1, <2>2 DEF HoldInv, HeldMeansHeld, Open, review, Kernels
<1>12. CASE RecordVerdict
  BY <1>12, <1>0 DEF RecordVerdict, QueueFree, Open, review, HoldInv,
      HeldMeansHeld, TurnInv, DownInv, Workers, Kernels, Labs, Reviews,
      Installs, Refs, Freezes, Acquisitions, Assigns
<1>13. CASE StageAssignment
  BY <1>13, <1>0 DEF StageAssignment, MayAssign, QueueFree, Open, review,
      FreezeComplete, Installing, NoAssign, HoldInv, HeldMeansHeld, TurnInv,
      DownInv, Workers, Kernels, Labs, Reviews, Installs, Refs, Freezes,
      Acquisitions, Assigns
<1>14. CASE RepeatAssignment
  <2>1. UNCHANGED <<worker, kernel, acq, touched>>
    BY <1>14 DEF RepeatAssignment
  <2> QED BY <1>14, <1>0, <2>1, ResolveSteps DEF HoldInv, TurnInv, HeldMeansHeld, FreezeComplete, Open, review, Kernels
<1>15. CASE InstallGoal
  <2>1. UNCHANGED <<lab, kernel, acq, touched>>
    BY <1>15 DEF InstallGoal
  <2>2. worker.maint = "hold" => worker'.maint = "hold"
    BY <1>15 DEF InstallGoal
  <2>3. assign'.at # "release"
    <3>1. NoAssign.at # "release"
      BY DEF NoAssign
    <3>2. [assign EXCEPT !.at = "flush", !.rev = Installed.rev].at # "release"
      BY <1>0 DEF Assigns
    <3> QED BY <1>15, <3>1, <3>2 DEF InstallGoal
  <2> QED BY <1>0, <2>1, <2>2, <2>3 DEF HoldInv, HeldMeansHeld, Open, review
<1>16. CASE FindBusy
  BY <1>16, <1>0 DEF FindBusy, CanMaintain, NoAssign, HoldInv, HeldMeansHeld,
      TurnInv, Open, review, DownInv, Workers, Kernels, Labs, Reviews,
      Installs, Refs, Freezes, Acquisitions, Assigns
<1>17. CASE FlushInstalled
  BY <1>17, <1>0 DEF FlushInstalled, JobEnded, HoldInv, HeldMeansHeld,
      TurnInv, Open, review, DownInv, Workers, Kernels, Labs, Reviews,
      Installs, Refs, Freezes, Acquisitions, Assigns
<1>18. CASE FailInstalled
  BY <1>18, <1>0 DEF FailInstalled, Spend, JobEnded, NoAssign, HoldInv,
      HeldMeansHeld, TurnInv, Open, review, DownInv, Workers, Kernels, Labs,
      Reviews, Installs, Refs, Freezes, Acquisitions, Assigns
<1>19. CASE CommitAssignment
  <2>1. UNCHANGED <<worker, kernel, acq, touched>>
    BY <1>19 DEF CommitAssignment
  <2> QED BY <1>19, <1>0, <2>1, ResolveSteps DEF HoldInv, TurnInv, HeldMeansHeld, FreezeComplete, Open, review, Kernels
<1>20. CASE ReleaseHold
  BY <1>20, <1>0 DEF ReleaseHold, NoAssign, HoldInv, HeldMeansHeld, TurnInv,
      Open, review, DownInv, Workers, Kernels, Labs, Reviews, Installs, Refs,
      Freezes, Acquisitions, Assigns
<1>21. CASE StartLab
  BY <1>21, <1>0 DEF StartLab, Spend, QueueFree, Open, HoldInv, HeldMeansHeld,
      TurnInv, review, DownInv, Workers, Kernels, Labs, Reviews, Installs,
      Refs, Freezes, Acquisitions, Assigns
<1>22. CASE ActivateRoles
  BY <1>22, <1>0 DEF ActivateRoles, Roles, Spend, HoldInv, HeldMeansHeld,
      TurnInv, Open, review, DownInv, Workers, Kernels, Labs, Reviews,
      Installs, Refs, Freezes, Acquisitions, Assigns
<1>23. CASE StageRoles
  BY <1>23, <1>0 DEF StageRoles, HoldInv, HeldMeansHeld, TurnInv, Open,
      review, DownInv, Workers, Kernels, Labs, Reviews, Installs, Refs,
      Freezes, Acquisitions, Assigns
<1>24. CASE StartInstall
  BY <1>24, <1>0 DEF StartInstall, CanMaintain, HoldInv, HeldMeansHeld,
      TurnInv, Open, review, DownInv, Workers, Kernels, Labs, Reviews,
      Installs, Refs, Freezes, Acquisitions, Assigns
<1>25. CASE FailStartInstall
  BY <1>25, <1>0 DEF FailStartInstall, Spend, CanMaintain, HoldInv,
      HeldMeansHeld, TurnInv, Open, review, DownInv, Workers, Kernels, Labs,
      Reviews, Installs, Refs, Freezes, Acquisitions, Assigns
<1>26. CASE SettleInstall
  BY <1>26, <1>0 DEF SettleInstall, HoldInv, HeldMeansHeld, TurnInv, Open,
      review, DownInv, Workers, Kernels, Labs, Reviews, Installs, Refs,
      Freezes, Acquisitions, Assigns
<1>27. CASE ReplayReview
  BY <1>27, <1>0 DEF ReplayReview, Requested, review, FreezeComplete, Refused,
      HoldInv, HeldMeansHeld, TurnInv, Open, DownInv, Workers, Kernels, Labs,
      Reviews, Installs, Refs, Freezes, Acquisitions, Assigns
<1>28. CASE Close
  BY <1>28, <1>0 DEF Close, Spend, Open, NoAcquisition, HoldInv,
      HeldMeansHeld, TurnInv, review, DownInv, Workers, Kernels, Labs,
      Reviews, Installs, Refs, Freezes, Acquisitions, Assigns
<1>29. CASE Shutdown
  BY <1>29, <1>0 DEF Shutdown, Gone, Unloaded, NoAssign, HoldInv,
      HeldMeansHeld, TurnInv, Open, review, DownInv, Workers, Kernels, Labs,
      Reviews, Installs, Refs, Freezes, Acquisitions, Assigns
<1>30. CASE Crash
  BY <1>30, <1>0 DEF Crash, Spend, Gone, Unloaded, NoAcquisition, NoAssign,
      HoldInv, HeldMeansHeld, TurnInv, Open, review, DownInv, Workers,
      Kernels, Labs, Reviews, Installs, Refs, Freezes, Acquisitions, Assigns
<1>31. CASE Boot
  BY <1>31, <1>0 DEF Boot, review, Recovered, HoldInv, HeldMeansHeld, TurnInv,
      Open, DownInv, Workers, Kernels, Labs, Reviews, Installs, Refs, Freezes,
      Acquisitions, Assigns
<1>32. CASE TrackGoal
  BY <1>32, <1>0 DEF TrackGoal, QueueFree, Open, HoldInv, HeldMeansHeld,
      TurnInv, review, DownInv, Workers, Kernels, Labs, Reviews, Installs,
      Refs, Freezes, Acquisitions, Assigns
<1>33. CASE ChangeLab
  BY <1>33, <1>0 DEF ChangeLab, Spend, QueueFree, Open, HoldInv,
      HeldMeansHeld, TurnInv, review, DownInv, Workers, Kernels, Labs,
      Reviews, Installs, Refs, Freezes, Acquisitions, Assigns
<1>34. CASE UNCHANGED <<worker, kernel, lab, acq, assign, touched>>
  BY <1>34, <1>0 DEF HoldInv, HeldMeansHeld, TurnInv, Open, review, DownInv,
      Requested
<1> DEFINE Cases == UNCHANGED <<worker, kernel, lab, acq, assign, touched>> \/
      StartTurn \/ EndTurn \/ ChangeGoal \/ CancelHold \/ Submit \/
      RunSubmission \/ Dispatch \/ RecordOutcome \/ Acquire \/ ClaimHold \/
      FinishFreeze \/ RecordVerdict \/ StageAssignment \/ RepeatAssignment \/
      InstallGoal \/ FindBusy \/ FlushInstalled \/ FailInstalled \/
      CommitAssignment \/ ReleaseHold \/ StartLab \/ ActivateRoles \/
      StageRoles \/ StartInstall \/ FailStartInstall \/ SettleInstall \/
      ReplayReview \/ Close \/ Shutdown \/ Crash \/ Boot \/ TrackGoal \/
      ChangeLab
<1>35. Next => Cases
  <2>1. Agents => Cases
    BY DEF Agents, Persist, PersistWake
  <2>2. Submission => Cases
    BY DEF Submission
  <2>3. Delivery => Cases
    BY DEF Delivery, RejectControl, HandleRequest, EndRequest, PauseReviewed,
        EndAck, FailAck
  <2>4. Tasks => Cases
    BY DEF Tasks, WakeJudge
  <2>5. Assigning => Cases
    BY DEF Assigning
  <2>6. Starting => Cases
    BY DEF Starting
  <2>7. Restarting => Cases
    BY DEF Restarting
  <2>8. TrackGoal \/ ChangeLab => Cases
    OBVIOUS
  <2> QED BY <2>1, <2>2, <2>3, <2>4, <2>5, <2>6, <2>7, <2>8 DEF Next
<1> QED
  BY <1>1, <1>2, <1>3, <1>4, <1>5, <1>6, <1>7, <1>8, <1>9, <1>10, <1>11,
      <1>12, <1>13, <1>14, <1>15, <1>16, <1>17, <1>18, <1>19, <1>20, <1>21,
      <1>22, <1>23, <1>24, <1>25, <1>26, <1>27, <1>28, <1>29, <1>30, <1>31,
      <1>32, <1>33, <1>34, <1>35 DEF vars

(* The Goal of the next Assignment stays on the disk.                      *)
LEMMA EffectStep ==
    ASSUME ReviewInv, [Next]_vars
    PROVE  EffectInv'
<1>0. /\ kernel \in Kernels /\ lab \in Labs /\ assign \in Assigns
      /\ EffectInv /\ HoldInv /\ NewInv /\ TypeOK
  BY DEF ReviewInv, TypeOK
<1>b. /\ goal.asg \in {1, 2} /\ saved.asg \in {1, 2} /\ Installed.asg = lab.install.asg
      /\ lab.install.asg \in {1, 2}
      /\ \A p \in {"active", "paused", "complete"} :
            Raised(goal, p).asg = goal.asg /\ Raised(goal, p).phase = p
  BY <1>0, GoalFacts DEF Goals
<1>1. CASE Persist
  BY <1>1, <1>0, <1>b DEF Persist, EffectInv, review, Kernels, Labs, Reviews,
      Installs, Refs, Freezes, Assigns
<1>2. CASE ChangeGoal
  BY <1>2, <1>0, <1>b DEF ChangeGoal, Spend, EffectInv, review, Kernels, Labs,
      Reviews, Installs, Refs, Freezes, Assigns
<1>3. CASE Submit
  BY <1>3, <1>0, <1>b DEF Submit, Open, review, Requested, Spend, EffectInv,
      Kernels, Labs, Reviews, Installs, Refs, Freezes, Assigns
<1>4. CASE RunSubmission
  <2>1. UNCHANGED <<goal, saved, assign>> /\ kernel'.start = kernel.start
    BY <1>4, <1>0 DEF RunSubmission, Kernels
  <2> QED BY <1>4, <1>0, <2>1, RequestStep DEF EffectInv, review
<1>5. CASE Dispatch
  BY <1>5, <1>0, <1>b DEF Dispatch, EffectInv, review, Kernels, Labs, Reviews,
      Installs, Refs, Freezes, Assigns
<1>6. CASE PauseReviewed
  BY <1>6, <1>0, <1>b DEF PauseReviewed, Deliverable, Open, Claimed,
      EffectInv, review, Kernels, Labs, Reviews, Installs, Refs, Freezes,
      Assigns
<1>7. CASE EndAck
  BY <1>7, <1>0, <1>b DEF EndAck, MustFlush, Completed, Open, EffectInv,
      review, Kernels, Labs, Reviews, Installs, Refs, Freezes, Assigns
<1>8. CASE RecordOutcome
  <2>1. UNCHANGED <<goal, saved, kernel, assign>>
    BY <1>8 DEF RecordOutcome
  <2>2. lab'.install = lab.install /\ lab'.review.resolved = review.resolved
    BY <1>8, <1>0, FreezeSteps, ReviewValues DEF Reviews, review
  <2> QED BY <1>0, <2>1, <2>2 DEF EffectInv, review
<1>9. CASE ClaimHold
  BY <1>9, <1>0, <1>b DEF ClaimHold, Open, Finish, NoAcquisition, Join,
      EffectInv, review, Kernels, Labs, Reviews, Installs, Refs, Freezes,
      Assigns
<1>10. CASE FinishFreeze
  <2>1. UNCHANGED <<goal, saved, kernel, assign>>
    BY <1>10 DEF FinishFreeze
  <2>2. lab'.install = lab.install /\ lab'.review.resolved = review.resolved
    BY <1>10, <1>0, FreezeSteps, ReviewValues DEF Reviews, review
  <2> QED BY <1>0, <2>1, <2>2 DEF EffectInv, review
<1>11. CASE RecordVerdict
  BY <1>11, <1>0, <1>b DEF RecordVerdict, QueueFree, Open, review, EffectInv,
      Kernels, Labs, Reviews, Installs, Refs, Freezes, Assigns
<1>12. CASE StageAssignment
  BY <1>12, <1>0, <1>b DEF StageAssignment, MayAssign, QueueFree, Open,
      review, FreezeComplete, Installing, NoAssign, EffectInv, Kernels, Labs,
      Reviews, Installs, Refs, Freezes, Assigns
<1>13. CASE RepeatAssignment
  <2>1. UNCHANGED <<goal, saved, kernel>> /\ lab.install.asg = 2
        /\ assign.at = "none"
    BY <1>13 DEF RepeatAssignment, MayAssign
  <2> QED BY <1>13, <1>0, <2>1, ResolveSteps DEF EffectInv, review
<1>14. CASE InstallGoal
  <2>1. UNCHANGED <<lab, kernel, saved>> /\ assign.at \in {"install", "again"}
    BY <1>14 DEF InstallGoal
  <2>2. goal' = Installed \/ goal' = goal
    BY <1>14 DEF InstallGoal
  <2>3. assign'.at = "flush" => goal' = Installed
    BY <1>14 DEF InstallGoal, NoAssign
  <2>4. assign'.at \in {"flush", "none"}
    <3>1. NoAssign.at = "none"
      BY DEF NoAssign
    <3>2. [assign EXCEPT !.at = "flush", !.rev = Installed.rev].at = "flush"
      BY <1>0 DEF Assigns
    <3> QED BY <1>14, <3>1, <3>2 DEF InstallGoal
  <2> QED BY <1>0, <1>b, <2>1, <2>2, <2>3, <2>4 DEF EffectInv, review
<1>15. CASE FindBusy
  BY <1>15, <1>0, <1>b DEF FindBusy, CanMaintain, NoAssign, EffectInv, review,
      Kernels, Labs, Reviews, Installs, Refs, Freezes, Assigns
<1>16. CASE FlushInstalled
  BY <1>16, <1>0, <1>b DEF FlushInstalled, JobEnded, EffectInv, review,
      Kernels, Labs, Reviews, Installs, Refs, Freezes, Assigns
<1>17. CASE FailInstalled
  BY <1>17, <1>0, <1>b DEF FailInstalled, Spend, JobEnded, NoAssign,
      EffectInv, review, Kernels, Labs, Reviews, Installs, Refs, Freezes,
      Assigns
<1>18. CASE CommitAssignment
  <2>1. UNCHANGED <<goal, saved, kernel>> /\ assign.at = "commit"
        /\ (lab' = lab => assign'.at # "install")
    BY <1>18, <1>0 DEF CommitAssignment, NoAssign
  <2> QED BY <1>18, <1>0, <2>1, ResolveSteps DEF EffectInv, review
<1>19. CASE ReleaseHold
  BY <1>19, <1>0, <1>b DEF ReleaseHold, NoAssign, EffectInv, review, Kernels,
      Labs, Reviews, Installs, Refs, Freezes, Assigns
<1>20. CASE StartLab
  BY <1>20, <1>0, <1>b DEF StartLab, Spend, QueueFree, Open, EffectInv,
      review, Kernels, Labs, Reviews, Installs, Refs, Freezes, Assigns
<1>21. CASE ActivateRoles
  BY <1>21, <1>0, <1>b DEF ActivateRoles, Roles, Spend, EffectInv, review,
      Kernels, Labs, Reviews, Installs, Refs, Freezes, Assigns
<1>22. CASE StageRoles
  BY <1>22, <1>0, <1>b DEF StageRoles, EffectInv, review, Kernels, Labs,
      Reviews, Installs, Refs, Freezes, Assigns
<1>23. CASE StartInstall
  BY <1>23, <1>0, <1>b DEF StartInstall, CanMaintain, EffectInv, review,
      Kernels, Labs, Reviews, Installs, Refs, Freezes, Assigns
<1>24. CASE FailStartInstall
  BY <1>24, <1>0, <1>b DEF FailStartInstall, Spend, CanMaintain, EffectInv,
      review, Kernels, Labs, Reviews, Installs, Refs, Freezes, Assigns
<1>25. CASE SettleInstall
  BY <1>25, <1>0, <1>b DEF SettleInstall, EffectInv, review, Kernels, Labs,
      Reviews, Installs, Refs, Freezes, Assigns
<1>26. CASE ReplayReview
  BY <1>26, <1>0, <1>b DEF ReplayReview, Requested, review, FreezeComplete,
      Refused, EffectInv, Kernels, Labs, Reviews, Installs, Refs, Freezes,
      Assigns
<1>27. CASE Close
  BY <1>27, <1>0, <1>b DEF Close, Spend, Open, NoAcquisition, EffectInv,
      review, Kernels, Labs, Reviews, Installs, Refs, Freezes, Assigns
<1>28. CASE Shutdown
  BY <1>28, <1>0, <1>b DEF Shutdown, Gone, Unloaded, NoAssign, EffectInv,
      review, Kernels, Labs, Reviews, Installs, Refs, Freezes, Assigns
<1>29. CASE Crash
  BY <1>29, <1>0, <1>b DEF Crash, Spend, Gone, Unloaded, NoAcquisition,
      NoAssign, EffectInv, review, Kernels, Labs, Reviews, Installs, Refs,
      Freezes, Assigns
<1>30. CASE Boot
  BY <1>30, <1>0, <1>b DEF Boot, review, Recovered, EffectInv, Kernels, Labs,
      Reviews, Installs, Refs, Freezes, Assigns
<1>31. CASE TrackGoal
  BY <1>31, <1>0, <1>b DEF TrackGoal, QueueFree, Open, EffectInv, review,
      Kernels, Labs, Reviews, Installs, Refs, Freezes, Assigns
<1>32. CASE ChangeLab
  BY <1>32, <1>0, <1>b DEF ChangeLab, Spend, QueueFree, Open, EffectInv,
      review, Kernels, Labs, Reviews, Installs, Refs, Freezes, Assigns
<1>33. CASE UNCHANGED <<goal, saved, lab, kernel, assign>>
  BY <1>33, <1>0, <1>b DEF EffectInv, review, Requested, Open
<1> DEFINE Cases == UNCHANGED <<goal, saved, lab, kernel, assign>> \/ Persist
      \/ ChangeGoal \/ Submit \/ RunSubmission \/ Dispatch \/ PauseReviewed \/
      EndAck \/ RecordOutcome \/ ClaimHold \/ FinishFreeze \/ RecordVerdict \/
      StageAssignment \/ RepeatAssignment \/ InstallGoal \/ FindBusy \/
      FlushInstalled \/ FailInstalled \/ CommitAssignment \/ ReleaseHold \/
      StartLab \/ ActivateRoles \/ StageRoles \/ StartInstall \/
      FailStartInstall \/ SettleInstall \/ ReplayReview \/ Close \/ Shutdown
      \/ Crash \/ Boot \/ TrackGoal \/ ChangeLab
<1>34. Next => Cases
  <2>1. Agents => Cases
    BY DEF Agents, StartTurn, EndTurn, PersistWake, CancelHold
  <2>2. Submission => Cases
    BY DEF Submission
  <2>3. Delivery => Cases
    BY DEF Delivery, RejectControl, HandleRequest, EndRequest, FailAck
  <2>4. Tasks => Cases
    BY DEF Tasks, Acquire, WakeJudge
  <2>5. Assigning => Cases
    BY DEF Assigning
  <2>6. Starting => Cases
    BY DEF Starting
  <2>7. Restarting => Cases
    BY DEF Restarting
  <2>8. TrackGoal \/ ChangeLab => Cases
    OBVIOUS
  <2> QED BY <2>1, <2>2, <2>3, <2>4, <2>5, <2>6, <2>7, <2>8 DEF Next
<1> QED
  BY <1>1, <1>2, <1>3, <1>4, <1>5, <1>6, <1>7, <1>8, <1>9, <1>10, <1>11,
      <1>12, <1>13, <1>14, <1>15, <1>16, <1>17, <1>18, <1>19, <1>20, <1>21,
      <1>22, <1>23, <1>24, <1>25, <1>26, <1>27, <1>28, <1>29, <1>30, <1>31,
      <1>32, <1>33, <1>34 DEF vars

(* The Goal under review keeps resting.                                    *)
LEMMA RestStep ==
    ASSUME ReviewInv, [Next]_vars
    PROVE  RestInv'
<1>0. /\ kernel \in Kernels /\ lab \in Labs /\ touched \in BOOLEAN
      /\ ctl["ack"] \in Deliveries
      /\ RestInv /\ EffectInv /\ HoldInv /\ NewInv /\ OutcomeInv /\ DeliveryInv /\ TypeOK
  BY DEF ReviewInv, TypeOK, Controls
<1>a. /\ EndAck => AckEnds
      /\ PauseReviewed => AckStarts
      /\ Dispatch \/ ReplayReview \/ FailAck \/ Crash \/ ctl' = ctl => AckKept
      /\ EndAck \/ PauseReviewed \/ AckKept
      /\ Crash => ctl'["ack"].run = "no"
  BY AckStep DEF ReviewInv
<1>b. /\ goal.asg \in {1, 2} /\ saved.asg \in {1, 2} /\ Installed.asg = lab.install.asg
      /\ lab.install.asg \in {1, 2}
      /\ \A p \in {"active", "paused", "complete"} :
            Raised(goal, p).asg = goal.asg /\ Raised(goal, p).phase = p
      /\ ctl["ack"].run # "no" \/ ctl["ack"].found # "no" => Requested
  BY <1>0, GoalFacts DEF NewInv, DeliveryInv, OutcomeInv, Controls, Goals
<1>1. CASE Persist
  BY <1>1, <1>0, <1>b, <1>a DEF Persist, RestInv, Rests, Requested, review,
      EffectInv, Kernels, Labs, Reviews, Installs, Refs, Freezes, Deliveries,
      AckKept
<1>2. CASE ChangeGoal
  BY <1>2, <1>0, <1>b, <1>a DEF ChangeGoal, Spend, RestInv, Rests, Requested,
      review, EffectInv, Kernels, Labs, Reviews, Installs, Refs, Freezes,
      Deliveries, AckKept
<1>3. CASE CancelHold
  BY <1>3, <1>0, <1>b, <1>a DEF CancelHold, Spend, RestInv, Rests, Requested,
      review, EffectInv, Kernels, Labs, Reviews, Installs, Refs, Freezes,
      Deliveries, AckKept
<1>4. CASE Submit
  BY <1>4, <1>0, <1>b, <1>a DEF Submit, Open, review, Requested, Spend,
      RestInv, Rests, EffectInv, Kernels, Labs, Reviews, Installs, Refs,
      Freezes, Deliveries, AckKept
<1>5. CASE RunSubmission
  BY <1>5, <1>0, <1>b, <1>a DEF RunSubmission, QueueFree, Open, Requested,
      review, NoReview, RestInv, Rests, EffectInv, Kernels, Labs, Reviews,
      Installs, Refs, Freezes, Deliveries, AckKept
<1>6. CASE Dispatch
  BY <1>6, <1>0, <1>b, <1>a DEF Dispatch, RestInv, Rests, Requested, review,
      EffectInv, Kernels, Labs, Reviews, Installs, Refs, Freezes, Deliveries,
      AckKept
<1>7. CASE PauseReviewed
  BY <1>7, <1>0, <1>b, <1>a DEF PauseReviewed, Open, Classified, review,
      RestInv, Rests, Requested, EffectInv, Kernels, Labs, Reviews, Installs,
      Refs, Freezes, Deliveries, AckStarts
<1>8. CASE EndAck
  BY <1>8, <1>0, <1>b, <1>a DEF EndAck, MustFlush, Open, RestInv, Rests,
      Requested, review, EffectInv, Kernels, Labs, Reviews, Installs, Refs,
      Freezes, Deliveries, AckEnds
<1>9. CASE RecordOutcome
  <2>1. UNCHANGED <<goal, saved, kernel, ctl, touched>>
    BY <1>9 DEF RecordOutcome
  <2>2. \/ lab' = lab
        \/ lab'.phase = lab.phase /\ lab'.install = lab.install /\ Requested
    BY <1>9, <1>0, FreezeSteps DEF Requested
  <2> QED BY <1>0, <2>1, <2>2 DEF RestInv, Rests, Requested, review
<1>10. CASE ClaimHold
  BY <1>10, <1>0, <1>b, <1>a DEF ClaimHold, Open, Finish, NoAcquisition, Join,
      RestInv, Rests, Requested, review, EffectInv, Kernels, Labs, Reviews,
      Installs, Refs, Freezes, Deliveries, AckKept
<1>11. CASE FinishFreeze
  BY <1>11, <1>0, <1>b, <1>a DEF FinishFreeze, QueueFree, Open, review,
      NoAcquisition, RestInv, Rests, Requested, EffectInv, Kernels, Labs,
      Reviews, Installs, Refs, Freezes, Deliveries, AckKept
<1>12. CASE RecordVerdict
  BY <1>12, <1>0, <1>b, <1>a DEF RecordVerdict, QueueFree, Open, review,
      RestInv, Rests, Requested, EffectInv, Kernels, Labs, Reviews, Installs,
      Refs, Freezes, Deliveries, AckKept
<1>13. CASE StageAssignment
  BY <1>13, <1>0, <1>b, <1>a DEF StageAssignment, MayAssign, QueueFree, Open,
      review, FreezeComplete, Installing, NoAssign, RestInv, Rests, Requested,
      EffectInv, Kernels, Labs, Reviews, Installs, Refs, Freezes, Deliveries,
      AckKept
<1>14. CASE RepeatAssignment
  BY <1>14, <1>0, <1>b, <1>a DEF RepeatAssignment, MayAssign, QueueFree, Open,
      review, FreezeComplete, Resolved, NoAssign, Installing, RestInv, Rests,
      Requested, EffectInv, Kernels, Labs, Reviews, Installs, Refs, Freezes,
      Deliveries, AckKept
<1>15. CASE InstallGoal
  BY <1>15, <1>0, <1>b, <1>a DEF InstallGoal, CanMaintain, NoAssign, RestInv,
      Rests, Requested, review, EffectInv, Kernels, Labs, Reviews, Installs,
      Refs, Freezes, Deliveries, AckKept
<1>16. CASE FlushInstalled
  BY <1>16, <1>0, <1>b, <1>a DEF FlushInstalled, JobEnded, RestInv, Rests,
      Requested, review, EffectInv, Kernels, Labs, Reviews, Installs, Refs,
      Freezes, Deliveries, AckKept
<1>17. CASE CommitAssignment
  <2>1. UNCHANGED <<goal, saved, kernel, ctl, touched>>
    BY <1>17 DEF CommitAssignment
  <2> QED BY <1>17, <1>0, <2>1, ResolveSteps DEF RestInv, EffectInv, Rests, Requested, review
<1>18. CASE ReleaseHold
  BY <1>18, <1>0, <1>b, <1>a DEF ReleaseHold, NoAssign, RestInv, Rests,
      Requested, review, EffectInv, Kernels, Labs, Reviews, Installs, Refs,
      Freezes, Deliveries, AckKept
<1>19. CASE StartLab
  BY <1>19, <1>0, <1>b, <1>a DEF StartLab, Spend, QueueFree, Open, RestInv,
      Rests, Requested, review, EffectInv, Kernels, Labs, Reviews, Installs,
      Refs, Freezes, Deliveries, AckKept
<1>20. CASE ActivateRoles
  BY <1>20, <1>0, <1>b, <1>a DEF ActivateRoles, Roles, Spend, RestInv, Rests,
      Requested, review, EffectInv, Kernels, Labs, Reviews, Installs, Refs,
      Freezes, Deliveries, AckKept
<1>21. CASE StageRoles
  BY <1>21, <1>0, <1>b, <1>a DEF StageRoles, RestInv, Rests, Requested,
      review, EffectInv, Kernels, Labs, Reviews, Installs, Refs, Freezes,
      Deliveries, AckKept
<1>22. CASE StartInstall
  BY <1>22, <1>0, <1>b, <1>a DEF StartInstall, CanMaintain, RestInv, Rests,
      Requested, review, EffectInv, Kernels, Labs, Reviews, Installs, Refs,
      Freezes, Deliveries, AckKept
<1>23. CASE FailStartInstall
  BY <1>23, <1>0, <1>b, <1>a DEF FailStartInstall, Spend, CanMaintain,
      RestInv, Rests, Requested, review, EffectInv, Kernels, Labs, Reviews,
      Installs, Refs, Freezes, Deliveries, AckKept
<1>24. CASE SettleInstall
  BY <1>24, <1>0, <1>b, <1>a DEF SettleInstall, RestInv, Rests, Requested,
      review, EffectInv, Kernels, Labs, Reviews, Installs, Refs, Freezes,
      Deliveries, AckKept
<1>25. CASE ReplayReview
  BY <1>25, <1>0, <1>b, <1>a DEF ReplayReview, Requested, review,
      FreezeComplete, Refused, RestInv, Rests, EffectInv, Kernels, Labs,
      Reviews, Installs, Refs, Freezes, Deliveries, AckKept
<1>26. CASE Close
  BY <1>26, <1>0, <1>b, <1>a DEF Close, Spend, Open, NoAcquisition, RestInv,
      Rests, Requested, review, EffectInv, Kernels, Labs, Reviews, Installs,
      Refs, Freezes, Deliveries, AckKept
<1>27. CASE Shutdown
  <2>1. /\ UNCHANGED <<lab, ctl, touched>> /\ kernel'.start = "none"
        /\ goal' = saved' /\ saved' \in {saved, Raised(goal, "paused"), goal}
        /\ ctl["ack"].run = "no"
    BY <1>27, <1>0 DEF Shutdown, Gone, Kernels, Controls
  <2>2. Raised(goal, "paused").phase = "paused"
    BY <1>b
  <2> QED BY <1>0, <1>b, <2>1, <2>2 DEF RestInv, Rests, Requested, review
<1>28. CASE Crash
  BY <1>28, <1>0, <1>b, <1>a DEF Crash, Spend, Gone, Unloaded, NoAcquisition,
      NoAssign, RestInv, Rests, Requested, review, EffectInv, Kernels, Labs,
      Reviews, Installs, Refs, Freezes, Deliveries, AckKept
<1>29. CASE Boot
  BY <1>29, <1>0, <1>b, <1>a DEF Boot, review, Recovered, RestInv, Rests,
      Requested, EffectInv, Kernels, Labs, Reviews, Installs, Refs, Freezes,
      Deliveries, AckKept
<1>30. CASE TrackGoal
  BY <1>30, <1>0, <1>b, <1>a DEF TrackGoal, QueueFree, Open, RestInv, Rests,
      Requested, review, EffectInv, Kernels, Labs, Reviews, Installs, Refs,
      Freezes, Deliveries, AckKept
<1>31. CASE UNCHANGED <<goal, saved, lab, kernel, touched>> /\ AckKept
  BY <1>31, <1>0, <1>b DEF RestInv, Rests, Requested, review, EffectInv,
      Kernels, Labs, Reviews, Installs, Refs, Freezes, Deliveries, AckKept,
      Open
<1> DEFINE Cases == UNCHANGED <<goal, saved, lab, kernel, touched>> \/ Persist
      \/ ChangeGoal \/ CancelHold \/ Submit \/ RunSubmission \/ Dispatch \/
      PauseReviewed \/ EndAck \/ RecordOutcome \/ ClaimHold \/ FinishFreeze \/
      RecordVerdict \/ StageAssignment \/ RepeatAssignment \/ InstallGoal \/
      FlushInstalled \/ CommitAssignment \/ ReleaseHold \/ StartLab \/
      ActivateRoles \/ StageRoles \/ StartInstall \/ FailStartInstall \/
      SettleInstall \/ ReplayReview \/ Close \/ Shutdown \/ Crash \/ Boot \/
      TrackGoal
<1>32. Next => Cases
  <2>1. Agents => Cases
    BY DEF Agents, StartTurn, EndTurn, PersistWake
  <2>2. Submission => Cases
    BY DEF Submission
  <2>3. Delivery => Cases
    BY DEF Delivery, RejectControl, HandleRequest, EndRequest, FailAck
  <2>4. Tasks => Cases
    BY DEF Tasks, Acquire, WakeJudge
  <2>5. Assigning => Cases
    BY DEF Assigning, FindBusy, FailInstalled
  <2>6. Starting => Cases
    BY DEF Starting
  <2>7. Restarting => Cases
    BY DEF Restarting
  <2>8. TrackGoal \/ ChangeLab => Cases
    BY DEF ChangeLab
  <2> QED BY <2>1, <2>2, <2>3, <2>4, <2>5, <2>6, <2>7, <2>8 DEF Next
<1> QED
  BY <1>a, <1>1, <1>2, <1>3, <1>4, <1>5, <1>6, <1>7, <1>8, <1>9, <1>10, <1>11,
      <1>12, <1>13, <1>14, <1>15, <1>16, <1>17, <1>18, <1>19, <1>20, <1>21,
      <1>22, <1>23, <1>24, <1>25, <1>26, <1>27, <1>28, <1>29, <1>30, <1>31,
      <1>32 DEF vars

-----------------------------------------------------------------------------
(* The invariant.                                                          *)

(* The types are kept.                                                     *)
LEMMA TypeStep ==
    ASSUME TypeOK, DeliveryInv, [Next]_vars
    PROVE  TypeOK'
<1>1. ctl' \in [Controls -> Deliveries]
  BY ControlsStep DEF ControlsFit
<1>2. \A c \in Controls : Deliverable(ctl'[c]) => ctl'[c].tries < MaxTries
  BY ControlsStep DEF ControlsFit, IsDelivery
<1> QED
  BY <1>1, <1>2, LabTyped, KernelTyped, WorkerTyped, JudgeTyped, GoalTyped, SavedTyped,
     EdgesTyped, TodoTyped, AcqTyped, AssignTyped, TroubleTyped, TouchedTyped
  DEF TypeOK

(* So are the deliveries.                                                  *)
LEMMA DeliveryStep ==
    ASSUME ReviewInv, [Next]_vars
    PROVE  DeliveryInv'
BY ControlsStep DEF ReviewInv, DeliveryInv, ControlsFit, IsDelivery

(* The invariant holds at the beginning.                                   *)
LEMMA ReviewInit == Init => ReviewInv
<1> SUFFICES ASSUME Init PROVE ReviewInv
  OBVIOUS
<1>1. NoReview \in Reviews /\ NoControl \in Deliveries /\ NoAcquisition \in Acquisitions
      /\ NoAssign \in Assigns
  BY ReviewAssumption DEF NoReview, NoControl, NoAcquisition, NoAssign, Reviews, Deliveries,
     Acquisitions, Assigns
<1>2. lab \in Labs
  <2>1. [asg |-> 1, status |-> "applied", ref |-> [asg |-> 1, rev |-> 1]] \in Installs
    BY DEF Installs, Refs
  <2> QED BY <1>1, <2>1 DEF Init, Labs
<1>3. kernel \in Kernels /\ worker \in Workers /\ judge \in Judges /\ goal \in Goals
  BY DEF Init, Kernels, Workers, Judges, Goals
<1>4. /\ \A c \in Controls : ctl[c] = NoControl
      /\ "ack" \in Controls /\ ctl \in [Controls -> Deliveries]
  BY <1>1 DEF Init, Controls
<1>5. TypeOK
  <2>1. \A c \in Controls : ~Deliverable(ctl[c])
    BY <1>4 DEF NoControl, Deliverable
  <2>2. /\ saved \in Goals /\ edges \subseteq Refs
        /\ todo \subseteq {"record", "acquire", "wake"}
        /\ acq \in Acquisitions /\ assign \in Assigns /\ touched \in BOOLEAN
    BY <1>1, <1>3 DEF Init
  <2>3. trouble \in 0..MaxTrouble
    BY ReviewAssumption DEF Init
  <2> QED BY <1>2, <1>3, <1>4, <2>1, <2>2, <2>3 DEF TypeOK
<1>6. review = NoReview /\ ~Requested /\ NoReview.freeze = "none" /\ ~NoReview.resolved
      /\ NoReview.turn = 0 /\ NoReview.holder = 0 /\ NoReview.obs = 0
  BY DEF Init, review, Requested, NoReview
<1>7. DeliveryInv /\ OutcomeInv
  BY <1>4, <1>6 DEF DeliveryInv, OutcomeInv, NoControl, Init
<1>8. DownInv /\ NewInv
  BY <1>4, <1>6 DEF DownInv, NewInv, NoControl, NoAcquisition, Open, Init
<1>9. TurnInv /\ HoldInv
  BY <1>4, <1>6 DEF TurnInv, TurnOver, HoldInv, HeldMeansHeld, NoControl, NoAcquisition,
     NoAssign, Init
<1>10. EffectInv /\ RestInv
  BY <1>4, <1>6 DEF EffectInv, RestInv, Rests, NoControl, NoAssign, Init
<1> QED BY <1>5, <1>7, <1>8, <1>9, <1>10 DEF ReviewInv

(* Together they hold in every reachable state.                            *)
THEOREM ReviewInvariant == Spec => []ReviewInv
<1>1. ReviewInv /\ [Next]_vars => ReviewInv'
  <2> SUFFICES ASSUME ReviewInv, [Next]_vars PROVE ReviewInv'
    OBVIOUS
  <2>1. TypeOK'
    BY TypeStep DEF ReviewInv
  <2> QED BY <2>1, DeliveryStep, DownStep, NewStep, OutcomeStep, TurnStep, HoldStep,
             EffectStep, RestStep DEF ReviewInv
<1> QED BY <1>1, ReviewInit, PTL DEF Spec

-----------------------------------------------------------------------------
(* What it gives.                                                          *)

(* Every variable of a review has its type in every reachable state: no    *)
(* control is delivered more often than its attempts, and one that has     *)
(* used them up does not wait (LocalSessionMessaging's retry limit).       *)
THEOREM ReviewTypeCorrect == Spec => []TypeOK
<1>1. ReviewInv => TypeOK
  BY DEF ReviewInv
<1> QED BY <1>1, ReviewInvariant, PTL

(* From the wake of the Judge to the resolution the reviewed work stands   *)
(* still: startJudgeReviewOnce wakes only for a freeze that is complete,   *)
(* and no start, crash or shutdown lets the turn or the Goal go on.        *)
THEOREM JudgeWork == Spec => []JudgeSeesFrozenWork
<1>1. ReviewInv => JudgeSeesFrozenWork
  <2> SUFFICES ASSUME ReviewInv, judge.wake # "none", ctl["ack"].found # "no-goal", ~touched
               PROVE  /\ worker.turn # review.turn \/ worker.turn = 0
                      /\ \A g \in {goal, saved} : Rests(g)
    BY DEF JudgeSeesFrozenWork, Rests
  <2>1. review.freeze \in {"stopped", "held"}
    BY DEF ReviewInv, TurnInv
  <2>2. TurnOver /\ ctl["ack"].found \in {"pause", "applied"}
    BY <2>1 DEF ReviewInv, TurnInv, OutcomeInv
  <2>3. Rests(goal) /\ Rests(saved)
    BY <2>2 DEF ReviewInv, RestInv
  <2> QED BY <2>2, <2>3 DEF TurnOver
<1> QED BY <1>1, ReviewInvariant, PTL

(* A freeze recorded as held by the present owner is held (acquireReview-  *)
(* Hold, finishReviewFreeze, and the release after the resolution).        *)
THEOREM HoldHolds == Spec => []HeldMeansHeld
<1>1. ReviewInv => HeldMeansHeld
  BY DEF ReviewInv, HoldInv
<1> QED BY <1>1, ReviewInvariant, PTL

(* A review is recorded as resolved only when the next Assignment's Goal   *)
(* is on the disk of the worker's Session, through any crash (assignMethod *)
(* commits after installLocalGoal has flushed).                            *)
THEOREM ResolutionEffect == Spec => []ResolutionHasEffect
<1>1. ReviewInv => ResolutionHasEffect
  <2>1. TypeOK /\ EffectInv => ResolutionHasEffect
    <3>1. TypeOK => lab.install.asg \in {1, 2}
      BY DEF TypeOK, Labs, Installs
    <3> QED BY <3>1 DEF EffectInv, ResolutionHasEffect
  <2> QED BY <2>1 DEF ReviewInv
<1> QED BY <1>1, ReviewInvariant, PTL

=============================================================================
