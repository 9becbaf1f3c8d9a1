--------------------------- MODULE LabLifecycle ---------------------------
(***************************************************************************)
(* The life of one Lab: start, pause, resume, stop, AutoLabWait and the    *)
(* restarts of the runtime; the Goals of its Controller and of one worker  *)
(* that these arm and rest; the worker's Assignments, their results, and   *)
(* the event that tells the Controller of a result                         *)
(* (dsh-autolab/src/index.ts, goal.ts, state.ts).                          *)
(*                                                                         *)
(* The operations of a Lab run one after the other in its queue; what one  *)
(* of them does between two awaits is an action.  assignRole and           *)
(* submitAutoLabRoleResult leave the queue in between.  The worker takes   *)
(* Assignments of the Controller (Ops, Coordinator); the Lab is committed. *)
(* Goals are changed by this code only, never complete, and keep the       *)
(* objective of their Assignment; API recovery is ApiRecovery's.           *)
(***************************************************************************)
EXTENDS Naturals

CONSTANTS
    MaxOrders,    \* bound on the Assignments of the worker
    MaxTrouble    \* bound on faults, losses of Agents, restarts

ASSUME LifecycleAssumption == MaxOrders \in Nat \ {0} /\ MaxTrouble \in Nat

VARIABLES
    lab,      \* the RuntimeState of the Lab, on disk
    kernel,   \* the runtime: its mode, and how far the recovery of its init is
    op,       \* the operation in the Lab's queue, and where it awaits
    ctrl,     \* the Controller's Agent and the Goal of its Session in memory
    worker,   \* likewise for the worker
    saved,    \* what a reload of the two Sessions finds
    told,     \* whether the event of a result is in the Controller's Session
    assign,   \* assignRole between its two operations
    sub,      \* submitAutoLabRoleResult between its operations
    pend,     \* operations that follow another one or an Agent
    trouble,  \* disturbances so far
    marks     \* history: see the properties

vars == <<lab, kernel, op, ctrl, worker, saved, told, assign, sub, pend,
          trouble, marks>>

Orders == 1..MaxOrders
Lifecycles ==
    {"ready", "starting", "running", "pausing", "paused", "blocked", "stopped"}

(* LEGAL_TRANSITIONS, for a Lab that is committed and not revised.         *)
LegalNext(life) ==
    CASE life = "ready"    -> {"starting", "paused", "blocked", "stopped"}
      [] life = "starting" -> {"running", "blocked", "paused"}
      [] life = "running"  -> {"starting", "pausing", "blocked", "stopped"}
      [] life = "pausing"  -> {"paused", "blocked"}
      [] life = "paused"   -> {"starting", "blocked", "stopped"}
      [] life = "blocked"  -> {"ready", "starting", "pausing", "paused", "stopped"}
      [] life = "stopped"  -> {}

NoOp == [at |-> "none", who |-> "user", own |-> FALSE, then |-> "done",
         ok |-> TRUE, asg |-> 0]
NoPend == [attach |-> "no", start |-> "no", stop |-> FALSE]
NoAssign == [at |-> "none", asg |-> 0, fresh |-> FALSE]
NoSub == [at |-> "none", asg |-> 0, fresh |-> FALSE]

Open == kernel.mode = "open"
Spend == trouble < MaxTrouble /\ trouble' = trouble + 1
Settled == Open /\ op = NoOp /\ pend = NoPend /\ kernel.boot = "none"

(* A caller whose signal is that of the shutdown finds it aborted.         *)
Aborted == op.who = "boot" /\ ~Open

-----------------------------------------------------------------------------
(* What the steps are made of.  A change of a Goal and the flush of its    *)
(* Session are one step: nothing reads the Goal in between, and a crash    *)
(* there is a crash before the change or after the flush.                  *)

(* transition: a new revision of the RuntimeState.                         *)
Transition(next) == lab' = next /\ assign' = [assign EXCEPT !.fresh = FALSE]
KeepLab == UNCHANGED <<lab, assign>>

(* A submission holds the revision of the worker's Goal.                   *)
WorkerGoal(asg, armed) ==
    /\ worker' = [worker EXCEPT !.asg = asg, !.armed = armed]
    /\ sub' = [sub EXCEPT !.fresh = @ /\ asg = worker.asg /\ armed = worker.armed]
RestWorker == WorkerGoal(worker.asg, FALSE) /\ UNCHANGED saved
InstallWorker(asg) == WorkerGoal(asg, TRUE) /\ saved' = [saved EXCEPT !.worker = asg]
KeepWorker == UNCHANGED <<worker, saved, sub>>

Goto(at) == op' = [op EXCEPT !.at = at]
Finish == op' = NoOp

(* Where an operation goes when armControllerGoal is done; and when it     *)
(* throws: the start that declared itself blocks the Lab, others just end. *)
Onward == IF op.then = "done" THEN Finish ELSE Goto(op.then)
Throw == IF op.then = "activate" THEN Goto("fail") ELSE Finish

(* What lets start take its short way.                                     *)
StaysStarted ==
    /\ lab.life = "running" /\ worker.live
    /\ ~lab.blocked /\ lab.inst # "activating"

(* start projects the role it activated anew, without the receipt, and     *)
(* stages the Goal of a working role.                                      *)
Staged(l) ==
    [l EXCEPT !.blocked = FALSE, !.receipt = 0,
              !.phase = IF @ = "starting" THEN "declared" ELSE @,
              !.inst = IF l.phase = "working" THEN "activating" ELSE @]

(* installLocalGoal: the Assignment's Goal is there, or may replace what is *)
(* there.                                                                  *)
MayInstall(asg) == worker.live /\ worker.asg \in {0, asg - 1, asg}

-----------------------------------------------------------------------------
Init ==
    /\ lab = [life |-> "ready", st |-> "none", named |-> FALSE,
              waiting |-> FALSE, phase |-> "none", inst |-> "none", asg |-> 0,
              receipt |-> 0, blocked |-> FALSE]
    /\ kernel = [mode |-> "open", boot |-> "none"]
    /\ op = NoOp /\ pend = NoPend /\ assign = NoAssign /\ sub = NoSub
    /\ ctrl = [live |-> TRUE, goal |-> FALSE, armed |-> FALSE]
    /\ worker = [live |-> FALSE, asg |-> 0, armed |-> FALSE]
    /\ saved = [ctrl |-> FALSE, worker |-> 0]
    /\ told = [a \in Orders |-> "no"]
    /\ trouble = 0 /\ marks = {}

-----------------------------------------------------------------------------
(* armControllerGoal, of start and of an attach.                           *)

(* The Goal the Lab wants of its Controller; only the live caller gets it. *)
Desired(l) ==
    [l EXCEPT !.st = IF op.own THEN "activating" ELSE "pending",
              !.named = @ \/ (ctrl.live /\ ctrl.goal),
              !.waiting = FALSE]

ArmNow ==
    /\ Transition(Desired(lab))
    /\ IF op.own THEN Goto("apply") ELSE Onward

(* Mutant of Arm: a Controller that waits is armed as well.                *)
ArmWaiting ==
    /\ op.at = "arm" /\ ArmNow
    /\ KeepWorker /\ UNCHANGED <<kernel, ctrl, told, pend, trouble, marks>>

Arm ==
    /\ op.at = "arm"
    /\ IF lab.waiting THEN KeepLab /\ Onward ELSE ArmNow
    /\ KeepWorker /\ UNCHANGED <<kernel, ctrl, told, pend, trouble, marks>>

(* applyControllerGoal and the transition to "applied".                    *)
Apply ==
    /\ op.at = "apply" /\ op.own
    /\ ctrl' = [ctrl EXCEPT !.goal = TRUE, !.armed = TRUE]
    /\ \/ /\ Transition([lab EXCEPT !.st = "applied", !.named = TRUE])
          /\ saved' = [saved EXCEPT !.ctrl = TRUE]
          /\ marks' = marks \ {"halfway"}
          /\ Onward /\ UNCHANGED trouble
       \/ Spend /\ Throw /\ KeepLab /\ UNCHANGED <<saved, marks>>
    /\ UNCHANGED <<kernel, worker, told, sub, pend>>

(* The Controller's Agent was disposed of under way.                       *)
ApplyInVain ==
    /\ op.at = "apply" /\ ~op.own
    /\ Throw /\ KeepLab /\ KeepWorker
    /\ UNCHANGED <<kernel, ctrl, told, pend, trouble, marks>>

-----------------------------------------------------------------------------
(* start, by a command, after a resume, or of the init of the runtime.     *)

(* Mutant of Startable: a Lab that is being paused is started.             *)
StartableAlways == lab.life # "stopped"

Startable == lab.life \notin {"stopped", "pausing"}

(* Mutant of Starting: a Lab that runs already needs nothing.              *)
StartingOnce(who, own) ==
    IF Startable /\ ~(who = "boot" /\ ~Open)
    THEN IF StaysStarted
         THEN /\ op' = [NoOp EXCEPT !.at = "rest", !.who = who, !.own = own,
                                    !.then = "rest"]
              /\ KeepLab
         ELSE /\ op' = [NoOp EXCEPT !.at = "arm", !.who = who, !.own = own,
                                    !.then = "activate"]
              /\ IF lab.life = "starting" THEN KeepLab
                 ELSE Transition([lab EXCEPT !.life = "starting",
                        !.phase = IF @ = "none" THEN "starting" ELSE @])
    ELSE KeepLab /\ op' = op

Starting(who, own) ==
    IF Startable /\ ~(who = "boot" /\ ~Open)
    THEN IF StaysStarted
         THEN /\ op' = [NoOp EXCEPT !.at = "arm", !.who = who, !.own = own,
                                    !.then = "rest"]
              /\ KeepLab
         ELSE /\ op' = [NoOp EXCEPT !.at = "arm", !.who = who, !.own = own,
                                    !.then = "activate"]
              /\ IF lab.life = "starting" THEN KeepLab
                 ELSE Transition([lab EXCEPT !.life = "starting",
                        !.phase = IF @ = "none" THEN "starting" ELSE @])
    ELSE KeepLab /\ op' = op

(* Commands come from the Controller's Agent, behind what is in the queue. *)
Surveyed == kernel.boot \in {"start", "pause"}
Commanded ==
    Open /\ op = NoOp /\ ctrl.live /\ pend.attach = "no" /\ ~Surveyed

Start ==
    /\ Commanded /\ Startable
    /\ Starting("user", TRUE)
    /\ KeepWorker /\ UNCHANGED <<kernel, ctrl, told, pend, trouble, marks>>

(* activateRolesForControl, the access lists, and the staged transition.   *)
Activate ==
    /\ op.at = "activate" /\ ~Aborted
    /\ worker' = [worker EXCEPT !.live = TRUE]
    /\ Transition(Staged(lab)) /\ Goto("install")
    /\ UNCHANGED <<kernel, ctrl, saved, told, sub, pend, trouble, marks>>

(* The role cannot be activated: a live one is rested, start goes on.      *)
ActivationBlocked ==
    /\ op.at = "activate" /\ ~Aborted /\ Spend
    /\ RestWorker
    /\ Transition([lab EXCEPT !.blocked = TRUE]) /\ Goto("install")
    /\ UNCHANGED <<kernel, ctrl, told, pend, marks>>

(* The call is aborted, or the access lists are not safe.                  *)
ActivationFails ==
    /\ op.at = "activate"
    /\ IF Aborted THEN UNCHANGED trouble ELSE Spend
    /\ \E live \in {worker.live, TRUE} : worker' = [worker EXCEPT !.live = live]
    /\ Goto("fail") /\ KeepLab
    /\ UNCHANGED <<kernel, ctrl, saved, told, sub, pend, marks>>

(* The staged Goal is installed, and the Lab runs, with or without it.     *)
Run ==
    /\ op.at = "install"
    /\ \/ /\ lab.inst = "activating" /\ ~lab.blocked /\ MayInstall(lab.asg)
          /\ InstallWorker(lab.asg)
          /\ Transition([lab EXCEPT !.life = "running", !.phase = "working",
                                    !.inst = "applied"])
          /\ UNCHANGED trouble
       \/ /\ lab.inst = "activating" /\ ~lab.blocked
          /\ \/ ~MayInstall(lab.asg) /\ KeepWorker /\ UNCHANGED trouble
             \/ KeepWorker /\ Spend
             \/ /\ MayInstall(lab.asg) /\ Spend
                /\ WorkerGoal(lab.asg, TRUE) /\ UNCHANGED saved
          /\ Transition([lab EXCEPT !.life = "running", !.blocked = TRUE])
       \/ /\ lab.inst # "activating" \/ lab.blocked
          /\ Transition([lab EXCEPT !.life = "running"])
          /\ KeepWorker /\ UNCHANGED trouble
    /\ Goto("rest")
    /\ UNCHANGED <<kernel, ctrl, told, pend, marks>>

(* reconcileProjectedPausedRoleGoals; on the short way the access lists    *)
(* may fail before.                                                        *)
Rest ==
    /\ op.at = "rest"
    /\ \/ /\ IF lab.phase = "paused" THEN RestWorker ELSE KeepWorker
          /\ UNCHANGED trouble
       \/ op.then = "rest" /\ Spend /\ KeepWorker
    /\ Finish /\ KeepLab
    /\ UNCHANGED <<kernel, ctrl, told, pend, marks>>

(* The Lab is blocked; the Goals of its roles rest, the Controller's does  *)
(* not.                                                                    *)
StartFails ==
    /\ op.at = "fail"
    /\ RestWorker
    /\ Transition([lab EXCEPT !.life = "blocked"])
    /\ Finish
    /\ UNCHANGED <<kernel, ctrl, told, pend, trouble, marks>>

-----------------------------------------------------------------------------
(* pause, and the second half of stop.                                     *)

Pausing(who, own, then) ==
    IF lab.life \notin {"paused", "stopped"} /\ ~(who = "boot" /\ ~Open)
    THEN /\ op' = [NoOp EXCEPT !.who = who, !.own = own, !.then = then,
                   !.at = IF lab.phase = "none" \/ worker.live
                          THEN "roles" ELSE "attach"]
         /\ IF lab.life = "running"
            THEN Transition([lab EXCEPT !.life = "pausing"]) ELSE KeepLab
    ELSE KeepLab /\ op' = op

(* pause by a command, of itself or as the first half of stop.             *)
Pause ==
    /\ Commanded /\ lab.life \notin {"paused", "stopped"}
    /\ \E then \in {"done", "stop"} : Pausing("user", TRUE, then)
    /\ KeepWorker /\ UNCHANGED <<kernel, ctrl, told, pend, trouble, marks>>

(* stop of a paused Lab: pause returns at once.                            *)
Stop ==
    /\ Commanded /\ lab.life = "paused" /\ ~pend.stop
    /\ pend' = [pend EXCEPT !.stop = TRUE]
    /\ KeepLab /\ KeepWorker
    /\ UNCHANGED <<kernel, op, ctrl, told, trouble, marks>>

(* A Lab without its Agents needs them to pause their Goals.               *)
PauseAttaches ==
    /\ op.at = "attach" /\ ~Aborted
    /\ worker' = [worker EXCEPT !.live = TRUE]
    /\ Goto("roles") /\ KeepLab
    /\ UNCHANGED <<kernel, ctrl, saved, told, sub, pend, trouble, marks>>

PauseAttachFails ==
    /\ op.at = "attach"
    /\ IF Aborted THEN UNCHANGED trouble ELSE Spend
    /\ \E live \in BOOLEAN : worker' = [worker EXCEPT !.live = live]
    /\ Transition([lab EXCEPT !.life = "blocked"]) /\ Finish
    /\ UNCHANGED <<kernel, ctrl, saved, told, sub, pend, marks>>

PauseRoles ==
    /\ op.at = "roles"
    /\ \/ ~Aborted /\ RestWorker /\ Goto("controller") /\ UNCHANGED trouble
       \/ /\ ~Aborted /\ RestWorker /\ Spend
          /\ op' = [op EXCEPT !.at = "controller", !.ok = FALSE]
       \/ /\ Aborted /\ lab.phase # "none" /\ KeepWorker /\ UNCHANGED trouble
          /\ op' = [op EXCEPT !.at = "controller", !.ok = FALSE]
       \/ /\ Aborted /\ lab.phase = "none" /\ KeepWorker /\ UNCHANGED trouble
          /\ Goto("controller")
    /\ marks' = IF Aborted THEN marks ELSE marks \ {"late"}
    /\ KeepLab /\ UNCHANGED <<kernel, ctrl, told, pend>>

(* pauseControllerNativeGoal, for the live caller and a Goal the Lab names. *)
MayPause == op.own /\ lab.named /\ ctrl.goal
FlushController == saved' = [saved EXCEPT !.ctrl = ctrl.goal]

PauseController ==
    /\ op.at = "controller"
    /\ ctrl' = IF MayPause THEN [ctrl EXCEPT !.armed = FALSE] ELSE ctrl
    /\ \/ /\ op.ok
          /\ IF MayPause THEN FlushController ELSE UNCHANGED saved
          /\ Transition([lab EXCEPT !.life = "paused"])
          /\ pend' = [pend EXCEPT !.stop = @ \/ (op.then = "stop" /\ Open)]
          /\ UNCHANGED trouble
       \/ /\ IF op.ok THEN MayPause /\ Spend ELSE UNCHANGED trouble
          /\ Transition([lab EXCEPT !.life = "blocked"])
          /\ UNCHANGED <<saved, pend>>
    /\ marks' = (marks \ {"woken"}) \cup (IF op.who = "boot" /\ ctrl.armed
                                          THEN {"woken"} ELSE {})
    /\ Finish
    /\ UNCHANGED <<kernel, worker, told, sub>>

StopEnds ==
    /\ op = NoOp /\ pend.stop
    /\ pend' = [pend EXCEPT !.stop = FALSE]
    /\ IF lab.life = "paused"
       THEN Transition([lab EXCEPT !.life = "stopped"]) ELSE KeepLab
    /\ KeepWorker /\ UNCHANGED <<kernel, op, ctrl, told, trouble, marks>>

-----------------------------------------------------------------------------
(* AutoLabWait and resume.                                                 *)

(* The Goal is paused, then the Lab remembers that its Controller waits.   *)
WaitController ==
    /\ Commanded /\ lab.named /\ ctrl.goal /\ ~lab.waiting
    /\ ctrl' = [ctrl EXCEPT !.armed = FALSE]
    /\ \/ /\ Transition([lab EXCEPT !.waiting = TRUE]) /\ FlushController
          /\ UNCHANGED <<trouble, marks>>
       \/ /\ Spend /\ KeepLab /\ marks' = marks \cup {"halfway"}
          /\ UNCHANGED saved
    /\ UNCHANGED <<kernel, op, worker, told, sub, pend>>

Resume ==
    /\ Commanded /\ pend.start = "no"
    /\ Startable /\ lab.waiting
    /\ Transition([lab EXCEPT !.waiting = FALSE])
    /\ pend' = [pend EXCEPT !.start = "own"]
    /\ KeepWorker /\ UNCHANGED <<kernel, op, ctrl, told, trouble, marks>>

ResumeStarts ==
    /\ op = NoOp /\ pend.start # "no"
    /\ IF Open THEN Starting("user", pend.start = "own") ELSE KeepLab /\ op' = op
    /\ pend' = [pend EXCEPT !.start = "no"]
    /\ marks' = IF pend.start = "stale" THEN marks \cup {"halfway"} ELSE marks
    /\ KeepWorker /\ UNCHANGED <<kernel, ctrl, told, trouble>>

-----------------------------------------------------------------------------
(* The Controller's Agent comes and goes; reconcileControllerAgent.        *)

(* An Agent comes back only after the queue has dealt with the one before. *)
Attach ==
    /\ ~ctrl.live /\ kernel.mode # "down" /\ pend.attach = "no"
    /\ ctrl' = [ctrl EXCEPT !.live = TRUE]
    /\ pend' = [pend EXCEPT !.attach = IF Open THEN "own" ELSE "no"]
    /\ KeepLab /\ KeepWorker /\ UNCHANGED <<kernel, op, told, trouble, marks>>

(* A reload of the Session finds the Goal disarmed.                        *)
Reloaded(goal) == [ctrl EXCEPT !.live = FALSE, !.goal = goal, !.armed = FALSE]
Stale(p) == IF p = "own" THEN "stale" ELSE p

(* What is in the Inbox, but not in the log, may be lost with the Agent.   *)
Forgets ==
    \E t \in {"no", "logged"} :
        told' = [a \in Orders |-> IF told[a] = "shown" THEN t ELSE told[a]]
Lost == IF \E a \in Orders : told[a] = "shown" /\ told'[a] = "no"
        THEN {"missed"} ELSE {}

Detach ==
    /\ ctrl.live /\ kernel.mode # "down" /\ Spend
    /\ \E goal \in {ctrl.goal, saved.ctrl} : ctrl' = Reloaded(goal)
    /\ Forgets /\ marks' = marks \cup Lost
    /\ op' = [op EXCEPT !.own = FALSE]
    /\ pend' = [pend EXCEPT !.attach = Stale(@), !.start = Stale(@)]
    /\ KeepLab /\ KeepWorker /\ UNCHANGED kernel

(* Mutant of Reconcile: a Lab at rest is treated like the others.          *)
ReconcileAlways ==
    /\ op = NoOp /\ pend.attach # "no" /\ ~Surveyed
    /\ pend' = [pend EXCEPT !.attach = "no"]
    /\ op' = [NoOp EXCEPT !.at = "arm", !.who = "attach",
                          !.own = pend.attach = "own", !.then = "replay"]
    /\ KeepLab /\ KeepWorker /\ UNCHANGED <<kernel, ctrl, told, trouble, marks>>

Reconcile ==
    /\ op = NoOp /\ pend.attach # "no" /\ ~Surveyed
    /\ pend' = [pend EXCEPT !.attach = "no"]
    /\ \/ /\ lab.life \in {"running", "starting", "blocked"}
          /\ op' = [NoOp EXCEPT !.at = "arm", !.who = "attach",
                                !.own = pend.attach = "own", !.then = "replay"]
          /\ KeepLab /\ UNCHANGED <<ctrl, saved>>
       \/ /\ lab.life \in {"paused", "pausing", "stopped"}
          /\ IF pend.attach = "own" /\ lab.named /\ ctrl.goal
             THEN /\ ctrl' = [ctrl EXCEPT !.armed = FALSE] /\ FlushController
                  /\ Transition(lab)
             ELSE KeepLab /\ UNCHANGED <<ctrl, saved>>
          /\ UNCHANGED op
       \/ lab.life = "ready" /\ KeepLab /\ UNCHANGED <<op, ctrl, saved>>
    /\ UNCHANGED <<kernel, worker, told, sub, trouble, marks>>

(* Mutant of Replay: an attach does not repeat the events.                 *)
ReplayNothing ==
    /\ op.at = "replay" /\ Finish
    /\ marks' = marks \ {"missed"}
    /\ KeepLab /\ KeepWorker /\ UNCHANGED <<kernel, ctrl, told, pend, trouble>>

(* replayRecordedReviewNotifications, for the receipt of the worker.       *)
Replay ==
    /\ op.at = "replay"
    /\ IF lab.receipt = 0 THEN Finish
       ELSE op' = [op EXCEPT !.at = "wake", !.asg = lab.receipt]
    /\ marks' = marks \ {"missed"}
    /\ KeepLab /\ KeepWorker /\ UNCHANGED <<kernel, ctrl, told, pend, trouble>>

-----------------------------------------------------------------------------
(* wakeControllerForEvent.                                                 *)

Wakes(a) == lab.st = "applied" /\ ctrl.live /\ told[a] = "no"

(* An event of the past must never clear a later wait.                     *)
Wake ==
    /\ op.at = "wake"
    /\ IF Wakes(op.asg)
       THEN /\ IF lab.waiting THEN Transition([lab EXCEPT !.waiting = FALSE])
               ELSE KeepLab
            /\ op' = [op EXCEPT !.at = "deliver", !.own = TRUE]
            /\ UNCHANGED marks
       ELSE /\ Finish /\ KeepLab
            /\ marks' = IF told[op.asg] = "no" THEN marks \cup {"missed"} ELSE marks
    /\ KeepWorker /\ UNCHANGED <<kernel, ctrl, told, pend, trouble>>

AtRest(mark) == IF lab.life \in {"paused", "stopped"} THEN {mark} ELSE {}

(* The Goal is resumed and flushed, the event injected and flushed.        *)
Deliver ==
    /\ op.at = "deliver" /\ op.own /\ ctrl.goal
    /\ ctrl' = [ctrl EXCEPT !.armed = TRUE]
    /\ \/ /\ \/ told' = [told EXCEPT ![op.asg] = "logged"] /\ UNCHANGED trouble
             \/ told' = [told EXCEPT ![op.asg] = "shown"] /\ Spend
          /\ FlushController
          /\ IF ctrl.armed THEN KeepLab ELSE Transition(lab)
          /\ marks' = (marks \ {"halfway"}) \cup AtRest("woken")
       \/ /\ Spend /\ ~ctrl.armed /\ KeepLab /\ UNCHANGED <<saved, told>>
          /\ marks' = (marks \ {"halfway"}) \cup AtRest("woken") \cup {"missed"}
    /\ Finish
    /\ UNCHANGED <<kernel, worker, sub, pend>>

(* The Goal or its Agent is gone.                                          *)
DeliverInVain ==
    /\ op.at = "deliver" /\ ~(op.own /\ ctrl.goal)
    /\ marks' = marks \cup {"missed"}
    /\ Finish /\ KeepLab /\ KeepWorker
    /\ UNCHANGED <<kernel, ctrl, told, pend, trouble>>

-----------------------------------------------------------------------------
(* assignRole: staged in the queue, installed outside of it, committed.    *)

CanAssign ==
    /\ Commanded /\ assign = NoAssign
    /\ lab.life = "running" /\ ~lab.blocked

AssignNew ==
    /\ CanAssign /\ lab.inst # "activating" /\ lab.asg < MaxOrders
    /\ lab.phase \in {"declared", "paused"}
    /\ worker.live /\ worker.asg = lab.asg
    /\ lab' = [lab EXCEPT !.asg = @ + 1, !.receipt = 0, !.inst = "activating"]
    /\ assign' = [at |-> "install", asg |-> lab.asg + 1, fresh |-> TRUE]
    /\ KeepWorker /\ UNCHANGED <<kernel, op, ctrl, told, pend, trouble, marks>>

(* A call that failed is repeated.                                         *)
AssignAgain ==
    /\ CanAssign /\ lab.inst = "activating"
    /\ assign' = [at |-> "install", asg |-> lab.asg, fresh |-> TRUE]
    /\ KeepWorker
    /\ UNCHANGED <<lab, kernel, op, ctrl, told, pend, trouble, marks>>

InstallAssigned ==
    /\ assign.at = "install" /\ kernel.mode # "down" /\ MayInstall(assign.asg)
    /\ WorkerGoal(assign.asg, TRUE)
    /\ \/ saved' = [saved EXCEPT !.worker = assign.asg]
          /\ assign' = [assign EXCEPT !.at = "commit"] /\ UNCHANGED trouble
       \/ Spend /\ assign' = NoAssign /\ UNCHANGED saved
    /\ marks' = IF assign.fresh THEN marks ELSE marks \cup {"late"}
    /\ UNCHANGED <<lab, kernel, op, ctrl, told, pend>>

InstallFails ==
    /\ assign.at = "install" /\ kernel.mode # "down"
    /\ IF MayInstall(assign.asg) THEN Spend ELSE UNCHANGED trouble
    /\ assign' = NoAssign
    /\ KeepWorker /\ UNCHANGED <<lab, kernel, op, ctrl, told, pend, marks>>

CommitAssigned ==
    /\ assign.at = "commit" /\ (op = NoOp \/ ~Open)
    /\ IF Open /\ assign.fresh
       THEN lab' = [lab EXCEPT !.phase = "working", !.inst = "applied"]
       ELSE UNCHANGED lab
    /\ assign' = NoAssign
    /\ KeepWorker /\ UNCHANGED <<kernel, op, ctrl, told, pend, trouble, marks>>

-----------------------------------------------------------------------------
(* submitAutoLabRoleResult by the worker.                                  *)

Called == Open /\ op = NoOp /\ sub = NoSub /\ worker.live /\ ~lab.blocked

Submit ==
    /\ Called /\ lab.life = "running"
    /\ lab.inst = "applied" /\ lab.receipt = 0 /\ lab.phase = "working"
    /\ worker.asg = lab.asg
    /\ sub' = [at |-> "record", asg |-> lab.asg, fresh |-> TRUE]
    /\ KeepLab
    /\ UNCHANGED <<kernel, op, ctrl, worker, saved, told, pend, trouble, marks>>

(* The result is recorded already: the Goal is paused, the event repeated. *)
SubmitAgain ==
    /\ Called /\ lab.life = "running"
    /\ lab.inst = "applied" /\ lab.receipt # 0 /\ lab.phase = "paused"
    /\ worker' = [worker EXCEPT !.armed = FALSE]
    /\ sub' = [at |-> "notify", asg |-> lab.receipt, fresh |-> TRUE]
    /\ KeepLab
    /\ UNCHANGED <<kernel, op, ctrl, saved, told, pend, trouble, marks>>

(* The receipt is recorded, and the Goal paused as soon as it is.          *)
Record ==
    /\ sub.at = "record" /\ (op = NoOp \/ ~Open)
    /\ IF /\ Open /\ sub.fresh /\ ~lab.blocked
          /\ lab.inst = "applied" /\ lab.receipt = 0 /\ lab.phase = "working"
          /\ lab.asg = sub.asg /\ worker.asg = sub.asg
       THEN /\ Transition([lab EXCEPT !.phase = "paused", !.receipt = sub.asg])
            /\ worker' = [worker EXCEPT !.armed = FALSE]
            /\ sub' = [sub EXCEPT !.at = "notify"]
       ELSE sub' = NoSub /\ KeepLab /\ UNCHANGED worker
    /\ UNCHANGED <<kernel, op, ctrl, saved, told, pend, trouble, marks>>

(* finalizeRoleResultNotification enters the queue.                        *)
Notify ==
    /\ sub.at = "notify" /\ (op = NoOp \/ ~Open)
    /\ sub' = NoSub
    /\ IF Open /\ lab.phase = "paused" /\ lab.receipt = sub.asg
       THEN /\ op' = [NoOp EXCEPT !.at = "wake", !.who = "event", !.asg = sub.asg]
            /\ UNCHANGED marks
       ELSE /\ marks' = marks \cup {"missed"} /\ UNCHANGED op
    /\ KeepLab
    /\ UNCHANGED <<kernel, ctrl, worker, saved, told, pend, trouble>>

-----------------------------------------------------------------------------
(* The runtime: init recovers what it finds, teardown, crash.              *)

Boot ==
    /\ kernel.mode = "down"
    /\ kernel' = [mode |-> "open", boot |-> "attach"]
    /\ pend' = [NoPend EXCEPT !.attach = IF ctrl.live THEN "own" ELSE "no"]
    /\ KeepLab /\ KeepWorker
    /\ UNCHANGED <<op, ctrl, told, trouble, marks>>

(* Mutant of Survey: a pause that was under way is left alone.             *)
SurveyStarts ==
    /\ kernel.boot = "attach" /\ pend.attach = "no" /\ op.who # "attach"
    /\ kernel' = [kernel EXCEPT !.boot =
         IF Open /\ lab.life \in {"running", "starting"} THEN "start" ELSE "none"]
    /\ KeepLab /\ KeepWorker
    /\ UNCHANGED <<op, ctrl, told, pend, trouble, marks>>

(* The live Controllers are reconciled: what has to be recovered?  A pause *)
(* may have begun meanwhile, its transition not be there yet.              *)
Survey ==
    /\ kernel.boot = "attach" /\ pend.attach = "no" /\ op.who # "attach"
    /\ \E life \in {lab.life} \cup
          (IF lab.life = "pausing" /\ op.at \in {"attach", "roles"}
           THEN {"running"} ELSE {}) :
        kernel' = [kernel EXCEPT !.boot =
          IF ~Open THEN "none"
          ELSE IF life = "pausing" THEN "pause"
          ELSE IF life \in {"running", "starting"} THEN "start" ELSE "none"]
    /\ KeepLab /\ KeepWorker
    /\ UNCHANGED <<op, ctrl, told, pend, trouble, marks>>

(* The caller is not an Agent, but the id of one.  A start undoes a pause  *)
(* that came before it, but for the Controller.                            *)
Recover ==
    /\ Surveyed /\ op = NoOp
    /\ IF kernel.boot = "start" THEN Starting("boot", FALSE)
       ELSE Pausing("boot", FALSE, "done")
    /\ kernel' = [kernel EXCEPT !.boot = "none"]
    /\ marks' = IF kernel.boot = "start" /\ lab.life \in {"paused", "blocked"}
                THEN marks \cup {"halfway"} ELSE marks
    /\ KeepWorker /\ UNCHANGED <<ctrl, told, pend, trouble>>

(* performTeardown refuses new operations, then joins those under way.     *)
Close ==
    /\ Open /\ Spend
    /\ kernel' = [kernel EXCEPT !.mode = "closing"]
    /\ KeepLab /\ KeepWorker /\ UNCHANGED <<op, ctrl, told, pend, marks>>

(* The Controller's Agent outlives the runtime, or goes with the process.  *)
Shutdown ==
    /\ kernel.mode = "closing" /\ op = NoOp /\ pend = NoPend
    /\ kernel' = [mode |-> "down", boot |-> "none"]
    /\ \/ ctrl' = [ctrl EXCEPT !.armed = FALSE] /\ UNCHANGED told
       \/ /\ \E goal \in {ctrl.goal, saved.ctrl} : ctrl' = Reloaded(goal)
          /\ Forgets
    /\ worker' = [worker EXCEPT !.live = FALSE, !.armed = FALSE]
    /\ saved' = [saved EXCEPT !.worker = worker.asg]
    /\ assign' = NoAssign /\ sub' = NoSub
    /\ marks' = marks \cup Lost
                \cup (IF sub.at = "notify" THEN {"missed"} ELSE {})
    /\ UNCHANGED <<lab, op, pend, trouble>>

Crash ==
    /\ kernel.mode # "down" /\ Spend
    /\ kernel' = [mode |-> "down", boot |-> "none"]
    /\ \E goal \in {ctrl.goal, saved.ctrl} : ctrl' = Reloaded(goal)
    /\ \E asg \in {worker.asg, saved.worker} :
          worker' = [live |-> FALSE, asg |-> asg, armed |-> FALSE]
    /\ Forgets
    /\ marks' = marks \cup Lost
                \cup (IF sub.at = "notify" \/ op.at \in {"wake", "deliver"}
                      THEN {"missed"} ELSE {})
    /\ op' = NoOp /\ pend' = NoPend /\ assign' = NoAssign /\ sub' = NoSub
    /\ UNCHANGED <<lab, saved>>

(* Another operation changes the Lab: a review, an Attempt, a revision.    *)
Disturb ==
    /\ Open /\ op = NoOp /\ assign.fresh /\ Spend
    /\ Transition(lab)
    /\ KeepWorker /\ UNCHANGED <<kernel, op, ctrl, told, pend, marks>>

-----------------------------------------------------------------------------
Operate ==
    \/ Arm \/ Apply \/ ApplyInVain \/ Activate \/ ActivationBlocked
    \/ ActivationFails \/ Run \/ Rest \/ StartFails
    \/ PauseAttaches \/ PauseAttachFails \/ PauseRoles \/ PauseController
    \/ Replay \/ Wake \/ Deliver \/ DeliverInVain

Follow == StopEnds \/ ResumeStarts \/ Reconcile \/ Survey \/ Recover

Command == Start \/ Pause \/ Stop \/ WaitController \/ Resume

Work ==
    \/ AssignNew \/ AssignAgain \/ InstallAssigned \/ InstallFails
    \/ CommitAssigned \/ Submit \/ SubmitAgain \/ Record \/ Notify

Environment == Attach \/ Detach \/ Boot \/ Close \/ Shutdown \/ Crash \/ Disturb

Next == Operate \/ Follow \/ Command \/ Work \/ Environment

Spec == Init /\ [][Next]_vars

(* The queue runs what is in it; init goes on.                             *)
FairSpec == Spec /\ WF_vars(Operate) /\ WF_vars(Follow)

-----------------------------------------------------------------------------
Labs ==
    [life : Lifecycles, st : {"none", "pending", "activating", "applied"},
     named : BOOLEAN, waiting : BOOLEAN,
     phase : {"none", "starting", "declared", "working", "paused"},
     inst : {"none", "activating", "applied"},
     asg : 0..MaxOrders, receipt : 0..MaxOrders, blocked : BOOLEAN]
Kernels == [mode : {"open", "closing", "down"},
            boot : {"none", "attach", "start", "pause"}]
Places ==
    {"none", "arm", "apply", "activate", "install", "rest", "fail", "attach",
     "roles", "controller", "replay", "wake", "deliver"}
Ops ==
    [at : Places,
     who : {"user", "boot", "attach", "event"}, own : BOOLEAN,
     then : {"done", "activate", "rest", "replay", "stop"},
     ok : BOOLEAN, asg : 0..MaxOrders]
Controllers == [live : BOOLEAN, goal : BOOLEAN, armed : BOOLEAN]
Workers == [live : BOOLEAN, asg : 0..MaxOrders, armed : BOOLEAN]
Saves == [ctrl : BOOLEAN, worker : 0..MaxOrders]
Assigns == [at : {"none", "install", "commit"}, asg : 0..MaxOrders, fresh : BOOLEAN]
Subs == [at : {"none", "record", "notify"}, asg : 0..MaxOrders, fresh : BOOLEAN]
Pends == [attach : {"no", "own", "stale"}, start : {"no", "own", "stale"},
          stop : BOOLEAN]

TypeOK ==
    /\ lab \in Labs /\ kernel \in Kernels /\ op \in Ops
    /\ ctrl \in Controllers /\ worker \in Workers /\ saved \in Saves
    /\ told \in [Orders -> {"no", "shown", "logged"}]
    /\ assign \in Assigns /\ sub \in Subs /\ pend \in Pends
    /\ trouble \in 0..MaxTrouble
    /\ marks \subseteq {"missed", "halfway", "woken", "late"}

(* A Controller that waits is re-armed by an event or by an explicit       *)
(* resume, and by nothing else: not by an attach, a start or a restart     *)
(* (index.ts armControllerGoal; state.ts:283).                             *)
WaitIsKept ==
    [][lab.waiting =>
          \/ lab'.waiting /\ ~ctrl'.armed
          \/ op.at = "wake"
          \/ pend.start = "no" /\ pend'.start = "own"]_vars

(* A Goal that was put to rest does not continue: the Controller's while   *)
(* it waits, the Goals of both in a Lab that is paused or stopped, and the *)
(* worker's once its result is recorded; also after a restart              *)
(* (restart-recovery.test.ts:1078).  What breaks this is known: the event  *)
(* of a result wakes the Controller without a look at the lifecycle, and a *)
(* pause of init has no Agent to pause it for ("woken"); an installation   *)
(* that was under way arms the worker ("late").                            *)
Dormant ==
    /\ lab.waiting => ~ctrl.armed
    /\ lab.life \in {"paused", "stopped"} =>
          /\ lab.named /\ ctrl.armed => "woken" \in marks
          /\ worker.armed => "late" \in marks
    /\ lab.phase = "paused" /\ lab.inst = "applied" /\ worker.armed =>
          "late" \in marks

(* In a running Lab the Goal of a live Controller that does not wait       *)
(* continues, for nobody polls.  Left half-way are an AutoLabWait whose    *)
(* flush fails, a resume that loses its Agent, and a Lab that a user       *)
(* pauses while the init is about to start it.                             *)
AwakeWhenRunning ==
    Settled /\ lab.life = "running" /\ ctrl.live /\ ~lab.waiting =>
        ctrl.armed \/ "halfway" \in marks

(* The Controller of a running Lab is told of every recorded result, the   *)
(* latest attach at the latest, unless the notice was missed since: by a   *)
(* Controller that was not there or not applied, or a runtime that closed. *)
ResultIsTold ==
    Settled /\ sub = NoSub /\ lab.life = "running" /\ lab.receipt # 0 =>
        told[lab.receipt] # "no" \/ "missed" \in marks

(* No operation asks for a transition that LEGAL_TRANSITIONS refuses.      *)
TransitionsAreLegal ==
    [][lab'.life # lab.life => lab'.life \in LegalNext(lab.life)]_vars

(* A Lab does not stay starting or pausing while the runtime is there: the *)
(* init picks up what a crash left behind.                                 *)
NoLimbo ==
    (lab.life \in {"starting", "pausing"} /\ Open) ~>
        (lab.life \notin {"starting", "pausing"} \/ ~Open)
=============================================================================
