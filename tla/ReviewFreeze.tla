--------------------------- MODULE ReviewFreeze ---------------------------
(***************************************************************************)
(* One Preflight review of a Method's work: the controls that announce it, *)
(* the pause of the reviewed Goal, the maintenance hold that freezes a     *)
(* turn that goes on, the wake of the Judge, the verdict, and the next     *)
(* Assignment of the Method that resolves the review and gives the hold    *)
(* back (dsh-autolab/src/index.ts, review.ts, goal.ts, state.ts).          *)
(*                                                                         *)
(* What the code does between two awaits is one action.  The operations of *)
(* a Lab run one after the other in its queue; only the start of the Lab   *)
(* and a submission wait inside of it.  The role Agents are owned by the   *)
(* kernel: they come with its start and go with its end.  The verdict      *)
(* demands a revision or rejects.  The Goal of Assignment n stands for all *)
(* Goals with its objective.                                               *)
(***************************************************************************)
EXTENDS Naturals, FiniteSets

CONSTANTS
    MaxTries,     \* deliveries of one control (DEFAULT_MAX_ATTEMPTS)
    MaxTurns,     \* bound on the turns of the worker
    MaxTrouble    \* bound on faults, restarts, acts of the user and repeated calls

ASSUME ReviewAssumption ==
    MaxTries \in Nat \ {0} /\ MaxTurns \in Nat /\ MaxTrouble \in Nat

VARIABLES
    lab,      \* the RuntimeState: the Method role and its review
    kernel,   \* the runtime: mode, epoch, what occupies the Lab's queue, and
              \* whether reviewHolds has the hold
    ctl,      \* the two controls in the mailbox, with their outcome
    worker,   \* the Method's Agent: its open turn and its maintenance
    judge,    \* the Judge's Agent and the wake in its Session
    goal,     \* the Goal of the worker's Session in memory
    saved,    \* the Goal that a reload of the Session finds
    edges,    \* Goal changes that wait to be projected
    todo,     \* what the status tasks still have to do
    acq,      \* acquireReviewHold: where it waits, and for the end of which turn
    assign,   \* assignMethod, likewise
    trouble,  \* disturbances so far
    touched   \* history: a user changed the Goal or ended the hold

vars == <<lab, kernel, ctl, worker, judge, goal, saved, edges, todo, acq,
          assign, trouble, touched>>

Controls == {"request", "ack"}
Roles == {"method", "judge"}
NoReview == [freeze |-> "none", holder |-> 0, obs |-> 0, output |-> FALSE,
             resolved |-> FALSE, turn |-> 0, rev |-> 0]
NoControl == [status |-> "none", tries |-> 0, run |-> "no", found |-> "no",
              obs |-> 0]
NoAcquisition == [at |-> "none", turn |-> 0, as |-> "stopped"]
NoAssign == [at |-> "none", turn |-> 0, rev |-> 0, fresh |-> FALSE]

review == lab.review
Requested == review.freeze # "none"
Open == kernel.mode = "open"
QueueFree == Open /\ kernel.start = "none" /\ ~kernel.dispatch
Spend == trouble < MaxTrouble /\ trouble' = trouble + 1

-----------------------------------------------------------------------------
(* What the code reads.                                                    *)

(* reviewFreezeComplete: a hold counts for the owner that took it.         *)
FreezeComplete(r) ==
    \/ r.freeze = "stopped"
    \/ r.freeze = "held" /\ r.holder = kernel.epoch

(* resolveReviewCapability: the role is under review, nobody is blocked.   *)
Capable == lab.phase = "reviewing" /\ lab.blocked = {}

(* classifyReviewGoal: what a pause finds of the Goal the capability names. *)
Classified ==
    IF goal.asg = 1 /\ goal.phase = "active" /\ goal.rev = review.rev
    THEN "pause"
    ELSE IF goal.asg = 1 /\ goal.phase = "paused"
            /\ goal.rev \in {review.rev, review.rev + 1}
    THEN "applied"
    ELSE IF goal.asg = 1 /\ goal.phase = "complete" /\ goal.rev >= review.rev
    THEN "no-goal"
    ELSE "stale"

(* roleOwnsExactAssignmentGoal: the projection names the Goal exactly.     *)
OwnsExactGoal ==
    /\ lab.install.status = "applied"
    /\ goal.asg = lab.install.ref.asg /\ goal.rev = lab.install.ref.rev

(* projectRoleGoalRevision: a Goal change the projection follows.          *)
Projects(install, e) ==
    /\ install.status = "applied"
    /\ e.asg = install.ref.asg /\ e.rev > install.ref.rev

(* A Goal change is emitted; trackRoleGoalChange drops it at once when it  *)
(* does not fit, or nobody listens.                                        *)
Emitted(g) ==
    LET e == [asg |-> g.asg, rev |-> g.rev]
    IN IF Open /\ Projects(lab.install, e) THEN edges \cup {e} ELSE edges

Raised(g, phase) == [g EXCEPT !.rev = @ + 1, !.phase = phase]

(* installLocalGoal: the Goal of the staged Assignment is resumed.  Another *)
(* Goal is replaced when it is the expected one, or that one paused        *)
(* (mayReplaceCurrent).                                                    *)
Installable ==
    LET ref == lab.install.ref
    IN IF goal.asg = lab.install.asg
       THEN goal.phase # "complete"
       ELSE /\ goal.asg = ref.asg
            /\ goal.rev = ref.rev \/ (goal.rev = ref.rev + 1 /\ goal.phase = "paused")

Installed ==
    IF goal.asg # lab.install.asg
    THEN [asg |-> lab.install.asg, rev |-> 1, phase |-> "active"]
    ELSE IF goal.phase = "active" THEN goal ELSE Raised(goal, "active")

CanMaintain == worker.live /\ (worker.maint = "hold" \/ worker.turn = 0)

(* recordReviewResolution: the resolution ends the freeze.                 *)
Resolved(r) == [r EXCEPT !.resolved = TRUE, !.freeze = "stopped", !.holder = 0]

(* Mutant of GiveBack: the attempts are not counted out.                   *)
GiveBackUncounted(c) == [c EXCEPT !.run = "no"]

(* A leased control whose delivery ends without an outcome: retried, or    *)
(* failed when its attempts are used up.                                   *)
GiveBack(c) ==
    [c EXCEPT !.run = "no",
              !.status = IF c.run # "no" /\ c.tries = MaxTries THEN "failed" ELSE @]

Completed(c) == [c EXCEPT !.run = "no", !.status = "completed"]
Claimed(c, run) == [c EXCEPT !.run = run, !.tries = @ + 1]
Rejected(c) == [c EXCEPT !.status = "rejected", !.tries = @ + 1]
Deliverable(c) == c.status = "queued" /\ c.run = "no"
Refused(c) == c.status \in {"failed", "rejected"}

-----------------------------------------------------------------------------
Init ==
    /\ lab = [phase |-> "working", blocked |-> {}, review |-> NoReview,
              install |-> [asg |-> 1, status |-> "applied",
                           ref |-> [asg |-> 1, rev |-> 1]]]
    /\ kernel = [mode |-> "open", epoch |-> 1, start |-> "none", asked |-> 0,
                 rev |-> 0, dispatch |-> FALSE, hold |-> FALSE]
    /\ ctl = [c \in Controls |-> NoControl]
    /\ worker = [live |-> TRUE, turn |-> 0, last |-> 0, maint |-> "none"]
    /\ judge = [live |-> TRUE, wake |-> "none"]
    /\ goal = [asg |-> 1, rev |-> 1, phase |-> "active"] /\ saved = goal
    /\ edges = {} /\ todo = {} /\ acq = NoAcquisition /\ assign = NoAssign
    /\ trouble = 0 /\ touched = FALSE

-----------------------------------------------------------------------------
(* The worker and its Agent.                                               *)

(* A turn begins, by the Goal or by the user, unless a maintenance runs.   *)
StartTurn ==
    /\ worker.live /\ worker.turn = 0 /\ worker.maint = "none"
    /\ worker.last < MaxTurns
    /\ worker' = [worker EXCEPT !.turn = worker.last + 1, !.last = @ + 1]
    /\ UNCHANGED <<lab, kernel, ctl, judge, goal, saved, edges, todo, acq,
                   assign, trouble, touched>>

EndTurn ==
    /\ worker.turn # 0
    /\ worker' = [worker EXCEPT !.turn = 0]
    /\ UNCHANGED <<lab, kernel, ctl, judge, goal, saved, edges, todo, acq,
                   assign, trouble, touched>>

(* The Session stores write on their own what they have.                   *)
Persist ==
    /\ worker.live /\ saved # goal /\ saved' = goal
    /\ UNCHANGED <<lab, kernel, ctl, worker, judge, goal, edges, todo, acq,
                   assign, trouble, touched>>

PersistWake ==
    /\ judge.wake = "mem" /\ judge' = [judge EXCEPT !.wake = "logged"]
    /\ UNCHANGED <<lab, kernel, ctl, worker, goal, saved, edges, todo, acq,
                   assign, trouble, touched>>

(* The user or the agent pauses, resumes or completes the Goal.            *)
ChangeGoal ==
    /\ Spend /\ worker.live /\ goal.phase # "complete"
    /\ \E phase \in {"active", "paused", "complete"} \ {goal.phase} :
          goal' = Raised(goal, phase)
    /\ edges' = Emitted(goal')
    /\ touched' = TRUE
    /\ UNCHANGED <<lab, kernel, ctl, worker, judge, saved, todo, acq, assign>>

(* The user cancels the maintenance; its job at hand still ends.           *)
CancelHold ==
    /\ Spend /\ worker.maint = "hold" /\ assign.at # "flush"
    /\ worker' = [worker EXCEPT !.maint = "none"]
    /\ touched' = TRUE
    /\ UNCHANGED <<lab, kernel, ctl, judge, goal, saved, edges, todo, acq, assign>>

-----------------------------------------------------------------------------
(* The submission.                                                         *)

(* The worker submits from its open turn, which is read before the queue.  *)
(* To submit once more counts as a disturbance.                            *)
Submit ==
    /\ Open /\ worker.turn # 0 /\ kernel.asked = 0 /\ "method" \notin lab.blocked
    /\ ~review.output
    /\ IF Requested THEN Spend ELSE trouble' = trouble
    /\ kernel' = [kernel EXCEPT !.asked = worker.turn]
    /\ UNCHANGED <<lab, ctl, worker, judge, goal, saved, edges, todo, acq,
                   assign, touched>>

(* In the queue: a new review with the live Goal in its capability, or the *)
(* review that waits; in both cases its request is sent next.  A submission *)
(* that does not fit throws.                                               *)
RunSubmission ==
    /\ QueueFree /\ kernel.asked # 0
    /\ LET again == Requested /\ ~review.output /\ lab.phase = "reviewing"
                    /\ lab.install.asg = 1
           new == /\ ~Requested /\ lab.phase = "working" /\ lab.blocked = {}
                  /\ lab.install.status = "applied" /\ goal.asg = lab.install.ref.asg
       IN /\ lab' = IF new
                    THEN [lab EXCEPT !.phase = "reviewing",
                            !.review = [NoReview EXCEPT !.freeze = "pending",
                               !.turn = kernel.asked, !.rev = goal.rev]]
                    ELSE lab
          /\ kernel' = [kernel EXCEPT !.asked = 0, !.dispatch = new \/ again]
          /\ touched' = (touched /\ ~new)
    /\ UNCHANGED <<ctl, worker, judge, goal, saved, edges, todo, acq, assign, trouble>>

(* dispatchReviewRequest: the request enters the mailbox, once.            *)
Dispatch ==
    /\ kernel.dispatch
    /\ ctl' = IF ctl["request"].status = "none"
              THEN [ctl EXCEPT !["request"].status = "queued"] ELSE ctl
    /\ kernel' = [kernel EXCEPT !.dispatch = FALSE]
    /\ UNCHANGED <<lab, worker, judge, goal, saved, edges, todo, acq, assign,
                   trouble, touched>>

-----------------------------------------------------------------------------
(* The two controls.  Each is delivered until an outcome is recorded.      *)

RejectControl(c) ==
    /\ Deliverable(ctl[c]) /\ Open /\ ~Capable
    /\ IF c = "request" THEN judge.live ELSE worker.live
    /\ ctl' = [ctl EXCEPT ![c] = Rejected(@)]
    /\ UNCHANGED <<lab, kernel, worker, judge, goal, saved, edges, todo, acq,
                   assign, trouble, touched>>

(* The Judge's side: the handler sends the acknowledgement, once, and      *)
(* waits for its receipt.                                                  *)
HandleRequest ==
    /\ Deliverable(ctl["request"]) /\ Open /\ judge.live /\ Capable
    /\ ctl' = [ctl EXCEPT !["request"] = Claimed(@, "sent"),
                          !["ack"].status = IF @ = "none" THEN "queued" ELSE @]
    /\ UNCHANGED <<lab, kernel, worker, judge, goal, saved, edges, todo, acq,
                   assign, trouble, touched>>

(* The outcome of the request, or another attempt when the acknowledgement *)
(* has failed or the owner shuts down.                                     *)
EndRequest ==
    /\ ctl["request"].run # "no"
    /\ ctl' = [ctl EXCEPT !["request"] =
                  IF Open /\ ~Refused(ctl["ack"]) THEN Completed(@) ELSE GiveBack(@)]
    /\ UNCHANGED <<lab, kernel, worker, judge, goal, saved, edges, todo, acq,
                   assign, trouble, touched>>

(* pauseExpectedReviewGoal up to its flush: exactly the Goal of the        *)
(* capability is paused, no turn is cancelled.                             *)
PauseReviewed ==
    /\ Deliverable(ctl["ack"]) /\ Open /\ worker.live /\ Capable
    /\ goal' = IF Classified = "pause" THEN Raised(goal, "paused") ELSE goal
    /\ edges' = IF Classified = "pause" THEN Emitted(goal') ELSE edges
    /\ ctl' = [ctl EXCEPT !["ack"] = Claimed(@, Classified)]
    /\ UNCHANGED <<lab, kernel, worker, judge, saved, todo, acq, assign,
                   trouble, touched>>

(* Mutant of MustFlush: a pause that is there already is not flushed again. *)
MustFlushPause(run) == run = "pause"

(* A pause in memory may have lost its flush: it is flushed again.          *)
MustFlush(run) == run \in {"pause", "applied"}

(* The pause is on disk: the outcome says what the Goal was found to be    *)
(* and which turn is open.  Its status starts a task while the kernel      *)
(* accepts.                                                                *)
EndAck ==
    /\ ctl["ack"].run # "no"
    /\ saved' = IF MustFlush(ctl["ack"].run) THEN goal ELSE saved
    /\ ctl' = [ctl EXCEPT !["ack"] =
                  [Completed(@) EXCEPT !.found = ctl["ack"].run,
                     !.obs = IF ctl["ack"].run = "stale" THEN 0 ELSE worker.turn]]
    /\ todo' = IF Open THEN todo \cup {"record"} ELSE todo
    /\ UNCHANGED <<lab, kernel, worker, judge, goal, edges, acq, assign,
                   trouble, touched>>

(* The flush fails: the control is delivered again.                        *)
FailAck ==
    /\ Spend /\ MustFlush(ctl["ack"].run)
    /\ ctl' = [ctl EXCEPT !["ack"] = GiveBack(@)]
    /\ UNCHANGED <<lab, kernel, worker, judge, goal, saved, edges, todo, acq,
                   assign, touched>>

-----------------------------------------------------------------------------
(* The tasks that follow the outcome of the acknowledgement.               *)

(* handleReviewControlStatus: what the outcome means for the freeze.       *)
Freeze(c) ==
    IF c.found = "stale" THEN "stale"
    ELSE IF c.obs = 0 THEN "stopped"
    ELSE IF c.obs = review.turn THEN "hold-pending"
    ELSE "user-override"

(* recordReviewPauseOutcome, and the next step of the task.                *)
RecordOutcome ==
    /\ "record" \in todo /\ QueueFree
    /\ LET freeze == Freeze(ctl["ack"])
           next == IF freeze = "hold-pending" THEN {"acquire"} ELSE {"wake"}
       IN IF lab.phase # "reviewing"
          THEN /\ todo' = todo \ {"record"} /\ lab' = lab
          ELSE /\ todo' = (todo \ {"record"}) \cup next
               /\ lab' = IF review.freeze # "pending" THEN lab
                         ELSE [lab EXCEPT !.review.freeze = freeze,
                                          !.review.obs = ctl["ack"].obs]
    /\ UNCHANGED <<kernel, ctl, worker, judge, goal, saved, edges, acq, assign,
                   trouble, touched>>

Finish(freeze) == [NoAcquisition EXCEPT !.at = "finish", !.as = freeze]
Join(at) == [NoAcquisition EXCEPT !.at = at, !.turn = worker.turn]

(* acquireReviewHold, one at a time: nothing to do, the turn has ended, it *)
(* is another one, or it is cancelled and its end awaited.                 *)
Acquire ==
    /\ Open /\ "acquire" \in todo /\ acq.at = "none"
    /\ IF review.freeze # "hold-pending"
       THEN todo' = (todo \ {"acquire"}) \cup {"wake"} /\ acq' = acq
       ELSE /\ todo' = todo \ {"acquire"}
            /\ acq' = IF ~worker.live THEN Finish("user-override")
                      ELSE IF worker.turn = 0 THEN Finish("stopped")
                      ELSE IF worker.turn # review.obs THEN Finish("user-override")
                      ELSE Join("cancelled")
    /\ UNCHANGED <<lab, kernel, ctl, worker, judge, goal, saved, edges, assign,
                   trouble, touched>>

(* acquireMaintenanceHoldBounded: the turn has ended.  The idle Agent is   *)
(* claimed; a turn that came between is joined once, a second one wins.    *)
ClaimHold ==
    /\ Open /\ acq.at \in {"cancelled", "joined"} /\ worker.turn # acq.turn
    /\ IF worker.turn = 0
       THEN /\ worker' = [worker EXCEPT !.maint = "hold"]
            /\ kernel' = [kernel EXCEPT !.hold = TRUE]
            /\ acq' = Finish("held")
       ELSE /\ acq' = IF acq.at = "cancelled" THEN Join("joined")
                      ELSE Finish("user-override")
            /\ UNCHANGED <<worker, kernel>>
    /\ UNCHANGED <<lab, ctl, judge, goal, saved, edges, todo, assign, trouble,
                   touched>>

(* finishReviewFreeze, with the owner of a hold.                           *)
FinishFreeze ==
    /\ acq.at = "finish" /\ QueueFree
    /\ lab' = IF review.freeze # "hold-pending" THEN lab
              ELSE [lab EXCEPT !.review.freeze = acq.as,
                       !.review.holder = IF acq.as = "held" THEN kernel.epoch ELSE 0]
    /\ acq' = NoAcquisition
    /\ todo' = todo \cup {"wake"}
    /\ UNCHANGED <<kernel, ctl, worker, judge, goal, saved, edges, assign,
                   trouble, touched>>

(* startJudgeReviewOnce: the wake enters the Judge's Session, once.        *)
Woken == IF judge.live /\ judge.wake = "none" /\ ~review.output /\ FreezeComplete(review)
         THEN [judge EXCEPT !.wake = "mem"] ELSE judge

WakeJudge ==
    /\ Open /\ "wake" \in todo
    /\ todo' = todo \ {"wake"}
    /\ judge' = Woken
    /\ UNCHANGED <<lab, kernel, ctl, worker, goal, saved, edges, acq, assign,
                   trouble, touched>>

(* submitPreflightVerdict; it does not look at the freeze.                 *)
RecordVerdict ==
    /\ QueueFree /\ judge.live /\ judge.wake # "none" /\ "judge" \notin lab.blocked
    /\ ~review.output
    /\ lab' = [lab EXCEPT !.review.output = TRUE]
    /\ UNCHANGED <<kernel, ctl, worker, judge, goal, saved, edges, todo, acq,
                   assign, trouble, touched>>

-----------------------------------------------------------------------------
(* assignMethod with the review as its source.                             *)

(* requireMethodRevisionReview, for a Method that is available.            *)
MayAssign ==
    /\ QueueFree /\ assign.at = "none" /\ "method" \notin lab.blocked
    /\ review.output /\ FreezeComplete(review)

Installing == [NoAssign EXCEPT !.at = "install", !.fresh = TRUE]

(* The next Assignment is staged while the Goal is still the one under     *)
(* review.                                                                 *)
StageAssignment ==
    /\ MayAssign /\ worker.live
    /\ lab.install.asg = 1 /\ lab.phase = "reviewing" /\ ~review.resolved
    /\ OwnsExactGoal
    /\ lab' = [lab EXCEPT !.install = [asg |-> 2, status |-> "activating",
                 ref |-> [asg |-> goal.asg, rev |-> goal.rev]]]
    /\ assign' = Installing
    /\ UNCHANGED <<kernel, ctl, worker, judge, goal, saved, edges, todo, acq,
                   trouble, touched>>

(* Mutant of RepeatAssignment: it resolves without a look at the Goal.      *)
RepeatAssignmentAtOnce ==
    /\ MayAssign /\ lab.install.asg = 2 /\ ~review.resolved
    /\ lab' = [lab EXCEPT !.review = Resolved(@)]
    /\ assign' = [NoAssign EXCEPT !.at = "release"]
    /\ UNCHANGED <<kernel, ctl, worker, judge, goal, saved, edges, todo, acq,
                   trouble, touched>>

(* The same Assignment again: a Goal that is applied resolves the review   *)
(* and gives the hold back, one that is not is installed.                  *)
RepeatAssignment ==
    /\ MayAssign /\ lab.install.asg = 2 /\ ~review.resolved
    /\ IF lab.install.status = "applied"
       THEN /\ lab' = [lab EXCEPT !.review = Resolved(@)]
            /\ assign' = [NoAssign EXCEPT !.at = "release"]
       ELSE /\ lab' = lab
            /\ assign' = Installing
    /\ UNCHANGED <<kernel, ctl, worker, judge, goal, saved, edges, todo, acq,
                   trouble, touched>>

(* installLocalGoal up to its flush, as a job of the hold or in a          *)
(* maintenance of its own.                                                 *)
InstallGoal ==
    /\ assign.at \in {"install", "again"} /\ CanMaintain
    /\ IF Installable
       THEN /\ goal' = Installed
            /\ edges' = IF Installed = goal THEN edges ELSE Emitted(Installed)
            /\ worker' = IF worker.maint = "none"
                         THEN [worker EXCEPT !.maint = "job"] ELSE worker
            /\ assign' = [assign EXCEPT !.at = "flush", !.rev = Installed.rev]
       ELSE /\ assign' = NoAssign
            /\ UNCHANGED <<goal, edges, worker>>
    /\ UNCHANGED <<lab, kernel, ctl, judge, saved, todo, acq, trouble, touched>>

(* A turn runs: it is joined once, and the next one wins.                  *)
FindBusy ==
    /\ assign.at \in {"install", "again"} /\ worker.live /\ ~CanMaintain
    /\ worker.turn # assign.turn
    /\ assign' = IF assign.at = "install"
                 THEN [assign EXCEPT !.at = "again", !.turn = worker.turn]
                 ELSE NoAssign
    /\ UNCHANGED <<lab, kernel, ctl, worker, judge, goal, saved, edges, todo,
                   acq, trouble, touched>>

(* Mutant of JobEnded: the end of the installation ends the hold, too.      *)
JobEndedWithHold == [worker EXCEPT !.maint = "none"]

(* A maintenance of its own ends with its job, a hold goes on.              *)
JobEnded == [worker EXCEPT !.maint = IF @ = "job" THEN "none" ELSE @]

FlushInstalled ==
    /\ assign.at = "flush"
    /\ saved' = goal /\ worker' = JobEnded
    /\ assign' = [assign EXCEPT !.at = "commit"]
    /\ UNCHANGED <<lab, kernel, ctl, judge, goal, edges, todo, acq, trouble, touched>>

FailInstalled ==
    /\ Spend /\ assign.at = "flush"
    /\ worker' = JobEnded /\ assign' = NoAssign
    /\ UNCHANGED <<lab, kernel, ctl, judge, goal, saved, edges, todo, acq, touched>>

(* Goal and resolution are recorded together, if the Lab has not changed;  *)
(* otherwise the call throws.                                              *)
CommitAssignment ==
    /\ assign.at = "commit" /\ (QueueFree \/ ~Open)
    /\ IF /\ Open /\ assign.fresh /\ lab.install.asg = 2
          /\ lab.install.status = "activating"
          /\ FreezeComplete(review) /\ ~review.resolved
       THEN /\ lab' = [lab EXCEPT !.phase = "working", !.review = Resolved(@),
                         !.install = [asg |-> 2, status |-> "applied",
                                      ref |-> [asg |-> 2, rev |-> assign.rev]]]
            /\ assign' = [NoAssign EXCEPT !.at = "release"]
       ELSE lab' = lab /\ assign' = NoAssign
    /\ UNCHANGED <<kernel, ctl, worker, judge, goal, saved, edges, todo, acq,
                   trouble, touched>>

(* Only then the hold is given back.                                       *)
ReleaseHold ==
    /\ assign.at = "release"
    /\ kernel' = [kernel EXCEPT !.hold = FALSE]
    /\ worker' = IF kernel.hold /\ worker.maint = "hold"
                 THEN [worker EXCEPT !.maint = "none"] ELSE worker
    /\ assign' = NoAssign
    /\ UNCHANGED <<lab, ctl, judge, goal, saved, edges, todo, acq, trouble, touched>>

-----------------------------------------------------------------------------
(* Other changes of the Lab.                                               *)

(* trackRoleGoalChange in the queue.                                       *)
TrackGoal ==
    /\ QueueFree
    /\ \E e \in edges :
          /\ edges' = edges \ {e}
          /\ lab' = IF Projects(lab.install, e)
                    THEN [lab EXCEPT !.install.ref.rev = e.rev] ELSE lab
    /\ UNCHANGED <<kernel, ctl, worker, judge, goal, saved, todo, acq, assign,
                   trouble, touched>>

(* Another role's event advances the revision of the Lab.                  *)
ChangeLab ==
    /\ Spend /\ QueueFree /\ assign.fresh
    /\ assign' = [assign EXCEPT !.fresh = FALSE]
    /\ UNCHANGED <<lab, kernel, ctl, worker, judge, goal, saved, edges, todo,
                   acq, touched>>

-----------------------------------------------------------------------------
(* The start of the Lab occupies its queue from "activate" to "replay".    *)

(* A user starts a Lab that runs: all roles attached, free of blockers and *)
(* applied are only replayed.                                              *)
StartLab ==
    /\ Spend /\ QueueFree
    /\ kernel' = [kernel EXCEPT !.start =
                    IF /\ worker.live /\ judge.live /\ lab.blocked = {}
                       /\ lab.install.status = "applied"
                    THEN "replay" ELSE "activate"]
    /\ UNCHANGED <<lab, ctl, worker, judge, goal, saved, edges, todo, acq,
                   assign, touched>>

(* activateRolesForControl: the Sessions are loaded, or some of them are   *)
(* not.                                                                    *)
ActivateRoles ==
    /\ kernel.start = "activate"
    /\ \E up \in SUBSET Roles :
          /\ worker.live => "method" \in up
          /\ judge.live => "judge" \in up
          /\ IF up = Roles THEN trouble' = trouble ELSE Spend
          /\ worker' = [worker EXCEPT !.live = "method" \in up]
          /\ judge' = [judge EXCEPT !.live = "judge" \in up]
    /\ kernel' = [kernel EXCEPT !.start = "stage"]
    /\ UNCHANGED <<lab, ctl, goal, saved, edges, todo, acq, assign, touched>>

(* Roles that are not live are blocked; the Goal of a working role is      *)
(* installed again, that of a role under review is left alone.             *)
StageRoles ==
    /\ kernel.start = "stage"
    /\ lab' = [lab EXCEPT
          !.blocked = (IF worker.live THEN {} ELSE {"method"})
                      \cup (IF judge.live THEN {} ELSE {"judge"}),
          !.install.status = IF worker.live /\ lab.phase = "working"
                             THEN "activating" ELSE @]
    /\ kernel' = [kernel EXCEPT !.start =
          IF worker.live /\ lab'.install.status = "activating"
          THEN "install" ELSE "replay"]
    /\ assign' = [assign EXCEPT !.fresh = FALSE]
    /\ UNCHANGED <<ctl, worker, judge, goal, saved, edges, todo, acq, trouble,
                   touched>>

(* installLocalGoal for the start, with its flush.                         *)
StartInstall ==
    /\ kernel.start = "install" /\ CanMaintain /\ worker.maint # "job"
    /\ Installable
    /\ goal' = Installed /\ saved' = Installed
    /\ kernel' = [kernel EXCEPT !.start = "applied", !.rev = Installed.rev]
    /\ UNCHANGED <<lab, ctl, worker, judge, edges, todo, acq, assign, trouble,
                   touched>>

(* It may not be done, the flush fails, or the Session stays busy.         *)
FailStartInstall ==
    /\ kernel.start = "install"
    /\ \/ ~Installable /\ UNCHANGED <<goal, trouble>>
       \/ Installable /\ Spend /\ goal' = IF CanMaintain THEN Installed ELSE goal
    /\ kernel' = [kernel EXCEPT !.start = "failed"]
    /\ UNCHANGED <<lab, ctl, worker, judge, saved, edges, todo, acq, assign, touched>>

SettleInstall ==
    /\ kernel.start \in {"applied", "failed"}
    /\ lab' = IF kernel.start = "failed"
              THEN [lab EXCEPT !.blocked = @ \cup {"method"}]
              ELSE [lab EXCEPT !.phase = "working",
                      !.install = [@ EXCEPT !.status = "applied",
                                     !.ref = [asg |-> lab.install.asg, rev |-> kernel.rev]]]
    /\ kernel' = [kernel EXCEPT !.start = "replay", !.rev = 0]
    /\ UNCHANGED <<ctl, worker, judge, goal, saved, edges, todo, acq, assign,
                   trouble, touched>>

(* Mutant of Retracked: only a review that is frozen already is helped.     *)
RetrackedNever(told) == todo

(* The outcome of the acknowledgement is read again.                        *)
Retracked(told) ==
    IF told /\ ctl["ack"].status = "completed" THEN todo \cup {"record"} ELSE todo

(* replayActiveReviewRequests: the request is sent again; once it has been *)
(* acknowledged the Judge is woken and the outcome read again.             *)
ReplayReview ==
    /\ kernel.start = "replay"
    /\ kernel' = [kernel EXCEPT !.start = "none"]
    /\ LET pending == /\ Requested /\ worker.live
                      /\ ~review.output \/ ~FreezeComplete(review)
           told == pending /\ ~Refused(ctl["request"]) /\ ~Refused(ctl["ack"])
                           /\ ctl["ack"].status # "none"
       IN /\ ctl' = IF pending /\ ctl["request"].status = "none"
                    THEN [ctl EXCEPT !["request"].status = "queued"] ELSE ctl
          /\ judge' = IF told THEN Woken ELSE judge
          /\ todo' = Retracked(told)
    /\ UNCHANGED <<lab, worker, goal, saved, edges, acq, assign, trouble, touched>>

-----------------------------------------------------------------------------
(* The end of the kernel, and the next one.                                *)

(* performTeardown up to the wait for its handlers: nothing new is         *)
(* admitted and the tasks are aborted.                                     *)
Close ==
    /\ Spend /\ Open /\ kernel.start = "none"
    /\ kernel' = [kernel EXCEPT !.mode = "closing", !.asked = 0]
    /\ edges' = {} /\ todo' = {} /\ acq' = NoAcquisition
    /\ UNCHANGED <<lab, ctl, worker, judge, goal, saved, assign, touched>>

Gone == [kernel EXCEPT !.mode = "down", !.start = "none", !.asked = 0, !.rev = 0,
                       !.dispatch = FALSE, !.hold = FALSE]
Unloaded == [worker EXCEPT !.live = FALSE, !.turn = 0, !.maint = "none"]

(* Then the hold is given back, the Goals are paused, and the Agents go.   *)
Shutdown ==
    /\ kernel.mode = "closing" /\ ~kernel.dispatch /\ assign.at # "flush"
    /\ \A c \in Controls : ctl[c].run = "no"
    /\ saved' \in {saved, IF worker.live /\ goal.phase = "active"
                          THEN Raised(goal, "paused") ELSE goal}
    /\ goal' = saved'
    /\ \E wake \in IF judge.wake = "mem" THEN {"none", "logged"} ELSE {judge.wake} :
          judge' = [live |-> FALSE, wake |-> wake]
    /\ kernel' = Gone /\ worker' = Unloaded /\ assign' = NoAssign
    /\ UNCHANGED <<lab, ctl, edges, todo, acq, trouble, touched>>

(* The process dies: what was not written is lost, the leases run out.     *)
Crash ==
    /\ Spend /\ kernel.mode # "down"
    /\ goal' = saved
    /\ judge' = [live |-> FALSE, wake |-> IF judge.wake = "mem" THEN "none" ELSE judge.wake]
    /\ ctl' = [c \in Controls |-> GiveBack(ctl[c])]
    /\ kernel' = Gone /\ worker' = Unloaded
    /\ edges' = {} /\ todo' = {} /\ acq' = NoAcquisition /\ assign' = NoAssign
    /\ UNCHANGED <<lab, saved, touched>>

(* recoverReviewFreezeProjection: a hold of an earlier owner and one that  *)
(* was never taken count as a stopped worker.                              *)
Recovered(r, epoch) ==
    IF r.freeze = "hold-pending" \/ (r.freeze = "held" /\ r.holder # epoch)
    THEN [r EXCEPT !.freeze = "stopped", !.holder = 0] ELSE r

(* A new owner adopts the Lab, registers the handlers and starts it.       *)
Boot ==
    /\ kernel.mode = "down"
    /\ kernel' = [kernel EXCEPT !.mode = "open", !.epoch = @ + 1, !.start = "activate"]
    /\ lab' = [lab EXCEPT !.review = Recovered(@, kernel.epoch + 1)]
    /\ UNCHANGED <<ctl, worker, judge, goal, saved, edges, todo, acq, assign,
                   trouble, touched>>

-----------------------------------------------------------------------------
Agents == StartTurn \/ EndTurn \/ Persist \/ PersistWake \/ ChangeGoal \/ CancelHold
Submission == Submit \/ RunSubmission \/ Dispatch
Delivery == \/ \E c \in Controls : RejectControl(c)
            \/ HandleRequest \/ EndRequest \/ PauseReviewed \/ EndAck \/ FailAck
Tasks == RecordOutcome \/ Acquire \/ ClaimHold \/ FinishFreeze \/ WakeJudge
         \/ RecordVerdict
Assigning == StageAssignment \/ RepeatAssignment \/ InstallGoal \/ FindBusy
             \/ FlushInstalled \/ FailInstalled \/ CommitAssignment \/ ReleaseHold
Starting == StartLab \/ ActivateRoles \/ StageRoles \/ StartInstall
            \/ FailStartInstall \/ SettleInstall \/ ReplayReview
Restarting == Close \/ Shutdown \/ Crash \/ Boot

Next == Agents \/ Submission \/ Delivery \/ Tasks \/ Assigning \/ TrackGoal
        \/ ChangeLab \/ Starting \/ Restarting

Spec == Init /\ [][Next]_vars

(* A turn ends (a cancelled one in any case), the pump delivers, promises  *)
(* run on, and what the start waits for arrives.                           *)
FairSpec ==
    /\ Spec
    /\ WF_vars(EndTurn) /\ WF_vars(Dispatch)
    /\ WF_vars(Delivery) /\ WF_vars(RecordOutcome) /\ WF_vars(Acquire)
    /\ WF_vars(ClaimHold) /\ WF_vars(FinishFreeze) /\ WF_vars(WakeJudge)
    /\ WF_vars(ActivateRoles \/ StageRoles \/ StartInstall \/ SettleInstall
               \/ ReplayReview)

-----------------------------------------------------------------------------
(* Properties.                                                             *)

Goals == [asg : {1, 2}, rev : Nat, phase : {"active", "paused", "complete"}]
Refs == [asg : {1, 2}, rev : Nat]
Freezes == {"pending", "stale", "user-override", "hold-pending", "stopped", "held"}
Reviews ==
    [freeze : Freezes \cup {"none"}, holder : Nat, obs : Nat,
     output : BOOLEAN, resolved : BOOLEAN, turn : Nat, rev : Nat]
Installs == [asg : {1, 2}, status : {"applied", "activating"}, ref : Refs]
Labs ==
    [phase : {"working", "reviewing"}, blocked : SUBSET Roles, review : Reviews,
     install : Installs]
Kernels ==
    [mode : {"open", "closing", "down"}, epoch : Nat,
     start : {"none", "activate", "stage", "install", "applied", "failed", "replay"},
     asked : Nat, rev : Nat, dispatch : BOOLEAN, hold : BOOLEAN]
Deliveries ==
    [status : {"none", "queued", "completed", "rejected", "failed"},
     tries : 0..MaxTries,
     run : {"no", "sent", "pause", "applied", "no-goal", "stale"},
     found : {"no", "pause", "applied", "no-goal", "stale"}, obs : Nat]
Workers == [live : BOOLEAN, turn : Nat, last : Nat, maint : {"none", "hold", "job"}]
Judges == [live : BOOLEAN, wake : {"none", "mem", "logged"}]
Acquisitions ==
    [at : {"none", "cancelled", "joined", "finish"}, turn : Nat,
     as : {"stopped", "held", "user-override"}]
Assigns ==
    [at : {"none", "install", "again", "flush", "commit", "release"},
     turn : Nat, rev : Nat, fresh : BOOLEAN]

(* Every variable has its type; in particular no control is delivered more *)
(* often than its attempts, and one that has used them up does not wait.   *)
TypeOK ==
    /\ lab \in Labs /\ kernel \in Kernels
    /\ ctl \in [Controls -> Deliveries]
    /\ \A c \in Controls : Deliverable(ctl[c]) => ctl[c].tries < MaxTries
    /\ worker \in Workers /\ judge \in Judges
    /\ goal \in Goals /\ saved \in Goals
    /\ edges \subseteq Refs /\ todo \subseteq {"record", "acquire", "wake"}
    /\ acq \in Acquisitions /\ assign \in Assigns
    /\ trouble \in 0..MaxTrouble /\ touched \in BOOLEAN

(* From the wake of the Judge to the resolution, and across crashes,       *)
(* shutdowns and starts, the reviewed work stands still, unless a user     *)
(* changed it: the turn of the submission is not open, and the Goal under  *)
(* review is active neither in the Session nor on its disk.  A Goal that   *)
(* was found complete is left out: the code does not flush that.           *)
JudgeSeesFrozenWork ==
    judge.wake # "none" /\ ctl["ack"].found # "no-goal" /\ ~review.resolved /\ ~touched =>
        /\ worker.turn # review.turn \/ worker.turn = 0
        /\ \A g \in {goal, saved} : ~(g.asg = 1 /\ g.phase = "active")

(* A freeze that is recorded as held by the present owner is held: until   *)
(* its resolution is recorded the worker is in maintenance, unless a user  *)
(* cancels that, and reviewHolds still has the hold to give it back.       *)
HeldMeansHeld ==
    review.freeze = "held" /\ review.holder = kernel.epoch /\ Open =>
        /\ kernel.hold
        /\ worker.maint = "hold" \/ touched

(* A resolution is recorded only after its effect: the disk of the worker's *)
(* Session has the Goal of the next Assignment, whatever crashed between.  *)
ResolutionHasEffect ==
    review.resolved => saved.asg = 2 /\ lab.install.asg = 2

(* A review without a verdict wakes the Judge, unless a user overrode the   *)
(* freeze, a control was refused, a role is blocked or the kernel ends;    *)
(* also after a crash in the middle of the handshake.                      *)
ReviewProceeds ==
    (Requested /\ ~review.output /\ Open) ~>
        \/ judge.wake # "none" \/ ~Open
        \/ review.freeze \in {"stale", "user-override"}
        \/ \E c \in Controls : Refused(ctl[c])
        \/ lab.blocked # {}
=============================================================================
