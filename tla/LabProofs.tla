----------------------------- MODULE LabProofs -----------------------------
(***************************************************************************)
(* What LabLifecycle promises for any number of Assignments and of         *)
(* disturbances: its types; that no Goal continues that was put to rest    *)
(* (Dormant); that a Controller that waits stays at rest (WaitIsKept), and *)
(* one that does not is awake while its Lab runs (AwakeWhenRunning); that  *)
(* it is told of results (ResultIsTold); and that no operation asks for an *)
(* illegal transition (TransitionsAreLegal).                               *)
(*                                                                         *)
(* Dormant alone is not inductive: whether an operation in the queue may   *)
(* arm a Goal depends on what the Lab looked like when it entered.         *)
(***************************************************************************)
EXTENDS LabLifecycle, TLAPS

(* A start, and an attach, of a Lab that is not at rest.                   *)
StartInv ==
    /\ op.at \in {"arm", "apply"} => lab.life \in {"running", "starting", "blocked"}
    /\ op.at \in {"arm", "apply"} /\ op.then = "activate" => lab.life = "starting"
    /\ op.at \in {"activate", "install", "fail"} => lab.life = "starting"
    /\ op.at \in {"arm", "apply"} => op.then # "stop"

(* A pause finds its Controller by the Agent that called it, or the Goal   *)
(* is not armed; the worker was rested, or armed late.                     *)
PauseInv ==
    /\ op.at \in {"attach", "roles", "controller"} =>
          /\ lab.life \in {"ready", "starting", "pausing", "blocked"}
          /\ op.who \in {"user", "boot"}
          /\ ~op.own /\ op.who = "user" => ~ctrl.armed
    /\ op.at = "controller" /\ op.ok /\ worker.armed => "late" \in marks

(* A Controller that waits is not about to be armed.                       *)
WaitInv ==
    /\ lab.waiting => ~ctrl.armed /\ op.at \notin {"apply", "deliver"}
    /\ ctrl.armed => ctrl.goal

(* An installation that is still in time; a worker not yet activated.      *)
AssignInv ==
    /\ assign.fresh => lab.life = "running" /\ lab.inst = "activating"
    /\ lab.phase = "none" =>
          ~worker.armed /\ assign.at = "none" /\ lab.inst # "activating"

(* A Goal that the Lab calls applied is there, and on the disk.            *)
GoalInv ==
    /\ saved.ctrl => ctrl.goal
    /\ lab.st = "applied" => saved.ctrl
    /\ op.at = "deliver" => lab.st = "applied"
    /\ kernel.boot = "start" => lab.life # "ready"

(* While a Lab runs or starts, its Controller is armed, or something that  *)
(* arms it is under way: an attach, a resume, an operation of its Agent.   *)
AwakeInv ==
    Open /\ lab.life \in {"running", "starting"} /\ ctrl.live /\ ~lab.waiting
      /\ pend.attach = "no" /\ pend.start = "no"
      /\ ~(op.own /\ op.at \in {"arm", "apply", "deliver"}) =>
        ctrl.armed \/ "halfway" \in marks

(* An attach whose Agent went away is of no live Agent.                    *)
PendInv == pend.attach = "stale" => ~ctrl.live

(* A result that was not told is about to be.                              *)
ToldInv ==
    lab.receipt # 0 /\ told[lab.receipt] = "no" /\ "missed" \notin marks =>
        \/ sub.at = "notify" /\ sub.asg = lab.receipt
        \/ op.at \in {"wake", "deliver"} /\ op.asg = lab.receipt

LabInv ==
    /\ TypeOK /\ StartInv /\ PauseInv /\ WaitInv /\ AssignInv /\ Dormant
    /\ GoalInv /\ AwakeInv /\ PendInv /\ ToldInv

-----------------------------------------------------------------------------
(* The values the actions give to the variables.                           *)

LEMMA LabValues ==
    ASSUME TypeOK
    PROVE  /\ lab \in Labs /\ Desired(lab) \in Labs /\ Staged(lab) \in Labs
           /\ [lab EXCEPT !.life = "running"] \in Labs
           /\ [lab EXCEPT !.life = "pausing"] \in Labs
           /\ [lab EXCEPT !.life = "paused"] \in Labs
           /\ [lab EXCEPT !.life = "blocked"] \in Labs
           /\ [lab EXCEPT !.life = "stopped"] \in Labs
           /\ [lab EXCEPT !.waiting = TRUE] \in Labs
           /\ [lab EXCEPT !.waiting = FALSE] \in Labs
           /\ [lab EXCEPT !.blocked = TRUE] \in Labs
           /\ [lab EXCEPT !.st = "applied", !.named = TRUE] \in Labs
           /\ [lab EXCEPT !.life = "starting",
                          !.phase = IF @ = "none" THEN "starting" ELSE @] \in Labs
           /\ [lab EXCEPT !.life = "running", !.phase = "working",
                          !.inst = "applied"] \in Labs
           /\ [lab EXCEPT !.life = "running", !.blocked = TRUE] \in Labs
           /\ [lab EXCEPT !.phase = "working", !.inst = "applied"] \in Labs
           /\ [lab EXCEPT !.phase = "paused", !.receipt = sub.asg] \in Labs
           /\ lab.asg < MaxOrders =>
                 [lab EXCEPT !.asg = @ + 1, !.receipt = 0, !.inst = "activating"] \in Labs
<1>1. lab \in Labs /\ op.own \in BOOLEAN /\ ctrl.live \in BOOLEAN /\ ctrl.goal \in BOOLEAN
  BY DEF TypeOK, Ops, Controllers
<1>2. Desired(lab) \in Labs
  BY <1>1 DEF Desired, Labs
<1>3. Staged(lab) \in Labs
  <2> DEFINE phase == IF lab.phase = "starting" THEN "declared" ELSE lab.phase
             inst == IF lab.phase = "working" THEN "activating" ELSE lab.inst
  <2>1. phase \in {"none", "starting", "declared", "working", "paused"}
        /\ inst \in {"none", "activating", "applied"}
    BY <1>1 DEF Labs
  <2>2. Staged(lab) = [lab EXCEPT !.blocked = FALSE, !.receipt = 0,
                                  !.phase = phase, !.inst = inst]
    BY <1>1 DEF Staged, Labs
  <2>3. 0 \in 0..MaxOrders
    BY LifecycleAssumption
  <2> HIDE DEF phase, inst
  <2> QED BY <1>1, <2>1, <2>2, <2>3 DEF Labs
<1>4. \A life \in {"running", "pausing", "paused", "blocked", "stopped"} :
         [lab EXCEPT !.life = life] \in Labs
  BY <1>1 DEF Labs, Lifecycles
<1>5. /\ [lab EXCEPT !.waiting = TRUE] \in Labs
      /\ [lab EXCEPT !.waiting = FALSE] \in Labs
  BY <1>1 DEF Labs
<1>6. [lab EXCEPT !.blocked = TRUE] \in Labs
  BY <1>1 DEF Labs
<1>7. [lab EXCEPT !.st = "applied", !.named = TRUE] \in Labs
  BY <1>1 DEF Labs
<1>8. [lab EXCEPT !.life = "starting",
                  !.phase = IF @ = "none" THEN "starting" ELSE @] \in Labs
  <2> DEFINE phase == IF lab.phase = "none" THEN "starting" ELSE lab.phase
  <2>1. phase \in {"none", "starting", "declared", "working", "paused"}
    BY <1>1 DEF Labs
  <2>2. [lab EXCEPT !.life = "starting", !.phase = phase] \in Labs
    <3> HIDE DEF phase
    <3> QED BY <1>1, <2>1 DEF Labs, Lifecycles
  <2>3. [lab EXCEPT !.life = "starting",
                  !.phase = IF @ = "none" THEN "starting" ELSE @]
        = [lab EXCEPT !.life = "starting", !.phase = phase]
    BY <1>1 DEF Labs
  <2> QED BY <2>2, <2>3
<1>9. [lab EXCEPT !.life = "running", !.phase = "working", !.inst = "applied"] \in Labs
  BY <1>1 DEF Labs, Lifecycles
<1>10. [lab EXCEPT !.life = "running", !.blocked = TRUE] \in Labs
  BY <1>1 DEF Labs, Lifecycles
<1>11. [lab EXCEPT !.phase = "working", !.inst = "applied"] \in Labs
  BY <1>1 DEF Labs
<1>12. [lab EXCEPT !.phase = "paused", !.receipt = sub.asg] \in Labs
  <2>1. sub.asg \in 0..MaxOrders
    BY DEF TypeOK, Subs
  <2> QED BY <1>1, <2>1 DEF Labs
<1>13. ASSUME lab.asg < MaxOrders
       PROVE  [lab EXCEPT !.asg = @ + 1, !.receipt = 0, !.inst = "activating"] \in Labs
  <2>1. lab.asg + 1 \in 0..MaxOrders /\ 0 \in 0..MaxOrders
    BY <1>1, <1>13, LifecycleAssumption DEF Labs
  <2> QED BY <1>1, <2>1 DEF Labs
<1> QED BY <1>1, <1>2, <1>3, <1>4, <1>5, <1>6, <1>7, <1>8, <1>9, <1>10, <1>11,
           <1>12, <1>13

LEMMA OpValues ==
    ASSUME TypeOK
    PROVE  /\ op \in Ops /\ (Finish => op' \in Ops)
           /\ \A at \in Places : Goto(at) => op' \in Ops
           /\ op.then # "stop" => (Onward => op' \in Ops)
           /\ Throw => op' \in Ops
           /\ \A who \in {"user", "boot"}, own \in BOOLEAN : Starting(who, own) => op' \in Ops
           /\ \A who \in {"user", "boot"}, own \in BOOLEAN, then \in {"done", "stop"} :
                 Pausing(who, own, then) => op' \in Ops
           /\ [op EXCEPT !.at = "controller", !.ok = FALSE] \in Ops
           /\ [op EXCEPT !.at = "deliver", !.own = TRUE] \in Ops
           /\ [op EXCEPT !.own = FALSE] \in Ops
           /\ [op EXCEPT !.at = "wake", !.asg = lab.receipt] \in Ops
           /\ [NoOp EXCEPT !.at = "wake", !.who = "event", !.asg = sub.asg] \in Ops
           /\ [NoOp EXCEPT !.at = "arm", !.who = "attach",
                           !.own = pend.attach = "own", !.then = "replay"] \in Ops
           /\ NoOp \in Ops
<1>1. op \in Ops /\ 0 \in 0..MaxOrders
  BY LifecycleAssumption DEF TypeOK
<1>2. NoOp \in Ops
  BY <1>1 DEF NoOp, Ops, Places
<1>3. \A at \in Places : Goto(at) => op' \in Ops
  BY <1>1 DEF Goto, Ops, Places
<1>4. op.then # "stop" => (Onward => op' \in Ops)
  <2>1. op.then \in {"done", "activate", "rest", "replay", "stop"}
    BY <1>1 DEF Ops
  <2> QED BY <1>2, <1>3, <2>1 DEF Onward, Finish, Places
<1>5. Throw => op' \in Ops
  BY <1>2, <1>3 DEF Throw, Finish, Places
<1>6. ASSUME NEW who \in {"user", "boot"}, NEW own \in BOOLEAN, Starting(who, own)
      PROVE  op' \in Ops
  <2>1. \A o \in Ops, then \in {"rest", "activate"} :
           [o EXCEPT !.at = "arm", !.who = who, !.own = own, !.then = then] \in Ops
    <3> SUFFICES ASSUME NEW o \in Ops, NEW then \in {"rest", "activate"}
        PROVE [o EXCEPT !.at = "arm", !.who = who, !.own = own, !.then = then] \in Ops
      OBVIOUS
    <3> QED BY DEF Ops, Places
  <2> QED BY <1>1, <1>2, <1>6, <2>1 DEF Starting
<1>7. ASSUME NEW who \in {"user", "boot"}, NEW own \in BOOLEAN,
             NEW then \in {"done", "stop"}, Pausing(who, own, then)
      PROVE  op' \in Ops
  <2>1. \A o \in Ops, at \in {"roles", "attach"} :
           [o EXCEPT !.who = who, !.own = own, !.then = then, !.at = at] \in Ops
    <3> SUFFICES ASSUME NEW o \in Ops, NEW at \in {"roles", "attach"}
        PROVE [o EXCEPT !.who = who, !.own = own, !.then = then, !.at = at] \in Ops
      OBVIOUS
    <3> QED BY DEF Ops, Places
  <2> QED BY <1>1, <1>2, <1>7, <2>1 DEF Pausing
<1>8. /\ [op EXCEPT !.at = "controller", !.ok = FALSE] \in Ops
      /\ [op EXCEPT !.at = "deliver", !.own = TRUE] \in Ops
      /\ [op EXCEPT !.own = FALSE] \in Ops
  BY <1>1 DEF Ops, Places
<1>9. /\ [op EXCEPT !.at = "wake", !.asg = lab.receipt] \in Ops
      /\ [NoOp EXCEPT !.at = "wake", !.who = "event", !.asg = sub.asg] \in Ops
  <2>1. lab.receipt \in 0..MaxOrders /\ sub.asg \in 0..MaxOrders
    BY DEF TypeOK, Labs, Subs
  <2>2. ASSUME NEW a \in 0..MaxOrders, NEW o \in Ops
        PROVE  /\ [o EXCEPT !.at = "wake", !.asg = a] \in Ops
               /\ [o EXCEPT !.at = "wake", !.who = "event", !.asg = a] \in Ops
    BY DEF Ops, Places
  <2> QED BY <1>1, <1>2, <2>1, <2>2
<1>10. [NoOp EXCEPT !.at = "arm", !.who = "attach", !.own = pend.attach = "own",
                    !.then = "replay"] \in Ops
  <2>1. ASSUME NEW own \in BOOLEAN, NEW o \in Ops
        PROVE [o EXCEPT !.at = "arm", !.who = "attach", !.own = own,
                        !.then = "replay"] \in Ops
    BY DEF Ops, Places
  <2> QED BY <1>2, <2>1
<1> QED BY <1>1, <1>2, <1>3, <1>4, <1>5, <1>6, <1>7, <1>8, <1>9, <1>10 DEF Finish

LEMMA AssignValues ==
    ASSUME TypeOK
    PROVE  /\ assign \in Assigns /\ NoAssign \in Assigns
           /\ [assign EXCEPT !.fresh = FALSE] \in Assigns
           /\ [assign EXCEPT !.at = "commit"] \in Assigns
<1>1. assign \in Assigns /\ 0 \in 0..MaxOrders
  BY LifecycleAssumption DEF TypeOK
<1> QED BY <1>1 DEF Assigns, NoAssign

LEMMA AssignStarts ==
    ASSUME TypeOK
    PROVE  /\ [at |-> "install", asg |-> lab.asg, fresh |-> TRUE] \in Assigns
           /\ lab.asg < MaxOrders =>
                 [at |-> "install", asg |-> lab.asg + 1, fresh |-> TRUE] \in Assigns
<1>1. lab.asg \in 0..MaxOrders /\ MaxOrders \in Nat
  BY LifecycleAssumption DEF TypeOK, Labs
<1> QED BY <1>1 DEF Assigns

LEMMA WorkerValues ==
    ASSUME TypeOK
    PROVE  /\ worker \in Workers /\ sub \in Subs /\ saved \in Saves /\ NoSub \in Subs
           /\ WorkerGoal(lab.asg, TRUE) => worker' \in Workers /\ sub' \in Subs
           /\ WorkerGoal(assign.asg, TRUE) => worker' \in Workers /\ sub' \in Subs
           /\ RestWorker => worker' \in Workers /\ sub' \in Subs /\ saved' \in Saves
           /\ InstallWorker(lab.asg) => worker' \in Workers /\ sub' \in Subs /\ saved' \in Saves
           /\ \A live \in {worker.live, TRUE, FALSE} :
                 [worker EXCEPT !.live = live] \in Workers
           /\ [worker EXCEPT !.live = TRUE] \in Workers
           /\ [worker EXCEPT !.live = FALSE] \in Workers
           /\ [worker EXCEPT !.armed = FALSE] \in Workers
           /\ [worker EXCEPT !.live = FALSE, !.armed = FALSE] \in Workers
           /\ [live |-> FALSE, asg |-> worker.asg, armed |-> FALSE] \in Workers
           /\ [live |-> FALSE, asg |-> saved.worker, armed |-> FALSE] \in Workers
           /\ [saved EXCEPT !.worker = assign.asg] \in Saves
           /\ [saved EXCEPT !.ctrl = TRUE] \in Saves
           /\ [saved EXCEPT !.worker = worker.asg] \in Saves
           /\ [at |-> "record", asg |-> lab.asg, fresh |-> TRUE] \in Subs
           /\ [at |-> "notify", asg |-> lab.receipt, fresh |-> TRUE] \in Subs
           /\ [sub EXCEPT !.at = "notify"] \in Subs
           /\ KeepWorker => worker' \in Workers /\ sub' \in Subs /\ saved' \in Saves
           /\ FlushController => saved' \in Saves
<1>1. /\ worker \in Workers /\ sub \in Subs /\ saved \in Saves /\ ctrl \in Controllers
      /\ 0 \in 0..MaxOrders
  BY LifecycleAssumption DEF TypeOK
<1>2. ASSUME NEW a \in 0..MaxOrders, NEW b \in BOOLEAN, WorkerGoal(a, b)
      PROVE  worker' \in Workers /\ sub' \in Subs
  <2>1. worker' \in Workers
    BY <1>1, <1>2 DEF WorkerGoal, Workers
  <2> DEFINE f == sub.fresh /\ a = worker.asg /\ b = worker.armed
  <2>2. f \in BOOLEAN
    BY <1>1 DEF Subs
  <2>3. sub' = [sub EXCEPT !.fresh = f]
    BY <1>2 DEF WorkerGoal
  <2>4. sub' \in Subs
    <3> HIDE DEF f
    <3> QED BY <1>1, <2>2, <2>3 DEF Subs
  <2> QED BY <2>1, <2>4
<1>3. worker.asg \in 0..MaxOrders /\ ctrl.goal \in BOOLEAN
  BY <1>1 DEF Workers, Controllers
<1>4. RestWorker => worker' \in Workers /\ sub' \in Subs /\ saved' \in Saves
  BY <1>1, <1>2, <1>3 DEF RestWorker
<1>5. ASSUME NEW a \in 0..MaxOrders, InstallWorker(a)
      PROVE  worker' \in Workers /\ sub' \in Subs /\ saved' \in Saves
  <2>1. saved' \in Saves
    BY <1>1, <1>5 DEF InstallWorker, Saves
  <2> QED BY <1>2, <1>5, <2>1 DEF InstallWorker
<1>6. FlushController => saved' \in Saves
  BY <1>1, <1>3 DEF FlushController, Saves
<1>7. NoSub \in Subs /\ [sub EXCEPT !.at = "notify"] \in Subs
  BY <1>1 DEF NoSub, Subs
<1>8. /\ lab.asg \in 0..MaxOrders /\ assign.asg \in 0..MaxOrders
      /\ lab.receipt \in 0..MaxOrders /\ saved.worker \in 0..MaxOrders
  BY DEF TypeOK, Labs, Assigns, Saves
<1>9. /\ \A live \in {worker.live, TRUE, FALSE} :
            [worker EXCEPT !.live = live] \in Workers
      /\ [worker EXCEPT !.live = TRUE] \in Workers
      /\ [worker EXCEPT !.live = FALSE] \in Workers
      /\ [worker EXCEPT !.armed = FALSE] \in Workers
      /\ [worker EXCEPT !.live = FALSE, !.armed = FALSE] \in Workers
      /\ [live |-> FALSE, asg |-> worker.asg, armed |-> FALSE] \in Workers
      /\ [live |-> FALSE, asg |-> saved.worker, armed |-> FALSE] \in Workers
  BY <1>1, <1>3, <1>8 DEF Workers
<1>10. /\ [saved EXCEPT !.worker = assign.asg] \in Saves
       /\ [saved EXCEPT !.ctrl = TRUE] \in Saves
       /\ [saved EXCEPT !.worker = worker.asg] \in Saves
  BY <1>1, <1>3, <1>8 DEF Saves
<1>11. /\ [at |-> "record", asg |-> lab.asg, fresh |-> TRUE] \in Subs
       /\ [at |-> "notify", asg |-> lab.receipt, fresh |-> TRUE] \in Subs
  BY <1>8 DEF Subs
<1> QED BY <1>1, <1>2, <1>4, <1>5, <1>6, <1>7, <1>8, <1>9, <1>10, <1>11
        DEF KeepWorker

LEMMA CtrlValues ==
    ASSUME TypeOK
    PROVE  /\ ctrl \in Controllers /\ saved.ctrl \in BOOLEAN
           /\ \A goal \in BOOLEAN : Reloaded(goal) \in Controllers
           /\ \A b \in BOOLEAN : [ctrl EXCEPT !.armed = b] \in Controllers
<1>1. ctrl \in Controllers /\ saved \in Saves
  BY DEF TypeOK
<1> QED BY <1>1 DEF Controllers, Saves, Reloaded

LEMMA LostType == Lost \subseteq {"missed"}
BY DEF Lost

-----------------------------------------------------------------------------
(* Types, one variable at a time.                                          *)

LEMMA LabTyped ==
    ASSUME TypeOK, [Next]_vars
    PROVE  lab' \in Labs
<1>1. CASE Arm
  BY <1>1, LabValues DEF Arm, KeepLab, ArmNow, Transition
<1>2. CASE Apply
  BY <1>2, LabValues DEF Apply, Transition, KeepLab
<1>3. CASE Activate
  BY <1>3, LabValues DEF Activate, Aborted, Open, Transition
<1>4. CASE ActivationBlocked
  BY <1>4, LabValues DEF ActivationBlocked, Aborted, Open, Transition
<1>5. CASE Run
  BY <1>5, LabValues DEF Run, Transition
<1>6. CASE StartFails
  BY <1>6, LabValues DEF StartFails, Transition
<1>7. CASE PauseAttachFails
  BY <1>7, LabValues DEF PauseAttachFails, Aborted, Open, Transition
<1>8. CASE PauseController
  BY <1>8, LabValues DEF PauseController, MayPause, Transition, Open
<1>9. CASE Wake
  BY <1>9, LabValues DEF Wake, Transition, KeepLab
<1>10. CASE Deliver
  BY <1>10, LabValues DEF Deliver, KeepLab, Transition, AtRest
<1>11. CASE StopEnds
  BY <1>11, LabValues DEF StopEnds, NoOp, Transition, KeepLab
<1>12. CASE ResumeStarts
  BY <1>12, LabValues DEF ResumeStarts, NoOp, Open, Starting, Startable,
      StaysStarted, KeepLab, Transition
<1>13. CASE Reconcile
  BY <1>13, LabValues DEF Reconcile, NoOp, Surveyed, KeepLab, Transition
<1>14. CASE Recover
  BY <1>14, LabValues DEF Recover, Surveyed, NoOp, Starting, Startable, Open,
      StaysStarted, KeepLab, Transition, Pausing
<1>15. CASE Start
  BY <1>15, LabValues DEF Start, Commanded, Open, NoOp, Surveyed, Startable,
      Starting, StaysStarted, KeepLab, Transition
<1>16. CASE Pause
  BY <1>16, LabValues DEF Pause, Commanded, Open, NoOp, Surveyed, Pausing,
      Transition, KeepLab
<1>17. CASE WaitController
  BY <1>17, LabValues DEF WaitController, Commanded, Open, NoOp, Surveyed,
      Transition, KeepLab
<1>18. CASE Resume
  BY <1>18, LabValues DEF Resume, Commanded, Open, NoOp, Surveyed, Startable,
      Transition
<1>19. CASE AssignNew
  BY <1>19, LabValues DEF AssignNew, CanAssign, Commanded, Open, NoOp,
      Surveyed, NoAssign
<1>20. CASE CommitAssigned
  BY <1>20, LabValues DEF CommitAssigned, NoOp, Open, NoAssign
<1>21. CASE Record
  BY <1>21, LabValues DEF Record, NoOp, Open, Transition, NoSub, KeepLab
<1>22. CASE Disturb
  BY <1>22, LabValues DEF Disturb, Open, NoOp, Transition
<1>23. CASE lab' = lab
  BY <1>23 DEF TypeOK
<1>24. Next => lab' = lab \/ Arm \/ Apply \/ Activate \/ ActivationBlocked \/
    Run \/ StartFails \/ PauseAttachFails \/ PauseController \/ Wake \/
    Deliver \/ StopEnds \/ ResumeStarts \/ Reconcile \/ Recover \/ Start \/
    Pause \/ WaitController \/ Resume \/ AssignNew \/ CommitAssigned \/ Record
    \/ Disturb
  <2>1. Operate => lab' = lab \/ Arm \/ Apply \/ Activate \/ ActivationBlocked
      \/ Run \/ StartFails \/ PauseAttachFails \/ PauseController \/ Wake \/
      Deliver \/ StopEnds \/ ResumeStarts \/ Reconcile \/ Recover \/ Start \/
      Pause \/ WaitController \/ Resume \/ AssignNew \/ CommitAssigned \/
      Record \/ Disturb
    BY DEF Operate, ApplyInVain, ActivationFails, Rest, PauseAttaches,
        PauseRoles, Replay, DeliverInVain, KeepLab
  <2>2. Follow => lab' = lab \/ Arm \/ Apply \/ Activate \/ ActivationBlocked
      \/ Run \/ StartFails \/ PauseAttachFails \/ PauseController \/ Wake \/
      Deliver \/ StopEnds \/ ResumeStarts \/ Reconcile \/ Recover \/ Start \/
      Pause \/ WaitController \/ Resume \/ AssignNew \/ CommitAssigned \/
      Record \/ Disturb
    BY DEF Follow, Survey, KeepLab
  <2>3. Command => lab' = lab \/ Arm \/ Apply \/ Activate \/ ActivationBlocked
      \/ Run \/ StartFails \/ PauseAttachFails \/ PauseController \/ Wake \/
      Deliver \/ StopEnds \/ ResumeStarts \/ Reconcile \/ Recover \/ Start \/
      Pause \/ WaitController \/ Resume \/ AssignNew \/ CommitAssigned \/
      Record \/ Disturb
    BY DEF Command, Stop, KeepLab
  <2>4. Work => lab' = lab \/ Arm \/ Apply \/ Activate \/ ActivationBlocked \/
      Run \/ StartFails \/ PauseAttachFails \/ PauseController \/ Wake \/
      Deliver \/ StopEnds \/ ResumeStarts \/ Reconcile \/ Recover \/ Start \/
      Pause \/ WaitController \/ Resume \/ AssignNew \/ CommitAssigned \/
      Record \/ Disturb
    BY DEF Work, AssignAgain, InstallAssigned, InstallFails, Submit,
        SubmitAgain, Notify, KeepLab
  <2>5. Environment => lab' = lab \/ Arm \/ Apply \/ Activate \/
      ActivationBlocked \/ Run \/ StartFails \/ PauseAttachFails \/
      PauseController \/ Wake \/ Deliver \/ StopEnds \/ ResumeStarts \/
      Reconcile \/ Recover \/ Start \/ Pause \/ WaitController \/ Resume \/
      AssignNew \/ CommitAssigned \/ Record \/ Disturb
    BY DEF Environment, Attach, Detach, Boot, Close, Shutdown, Crash, KeepLab
  <2> QED BY <2>1, <2>2, <2>3, <2>4, <2>5 DEF Next
<1> QED
  BY <1>1, <1>2, <1>3, <1>4, <1>5, <1>6, <1>7, <1>8, <1>9, <1>10, <1>11,
      <1>12, <1>13, <1>14, <1>15, <1>16, <1>17, <1>18, <1>19, <1>20, <1>21,
      <1>22, <1>23, <1>24 DEF vars

LEMMA KernelTyped ==
    ASSUME TypeOK, [Next]_vars
    PROVE  kernel' \in Kernels
<1>0. kernel \in Kernels
  BY DEF TypeOK
<1>1. CASE Survey
  BY <1>1, <1>0 DEF Survey, Open, Kernels
<1>2. CASE Recover
  BY <1>2, <1>0 DEF Recover, Surveyed, NoOp, Kernels
<1>3. CASE Boot
  BY <1>3, <1>0 DEF Boot, NoPend, Kernels
<1>4. CASE Close
  BY <1>4, <1>0 DEF Close, Open, Kernels
<1>5. CASE Shutdown
  BY <1>5, <1>0 DEF Shutdown, NoOp, NoPend, Reloaded, NoAssign, NoSub, Kernels
<1>6. CASE Crash
  BY <1>6, <1>0 DEF Crash, Reloaded, NoOp, NoPend, NoAssign, NoSub, Kernels
<1>7. CASE kernel' = kernel
  BY <1>7 DEF TypeOK
<1>8. Next => kernel' = kernel \/ Survey \/ Recover \/ Boot \/ Close \/
    Shutdown \/ Crash
  <2>1. Operate => kernel' = kernel \/ Survey \/ Recover \/ Boot \/ Close \/
      Shutdown \/ Crash
    BY DEF Operate, Arm, Apply, ApplyInVain, Activate, ActivationBlocked,
        ActivationFails, Run, Rest, StartFails, PauseAttaches,
        PauseAttachFails, PauseRoles, PauseController, Replay, Wake, Deliver,
        DeliverInVain
  <2>2. Follow => kernel' = kernel \/ Survey \/ Recover \/ Boot \/ Close \/
      Shutdown \/ Crash
    BY DEF Follow, StopEnds, ResumeStarts, Reconcile
  <2>3. Command => kernel' = kernel \/ Survey \/ Recover \/ Boot \/ Close \/
      Shutdown \/ Crash
    BY DEF Command, Start, Pause, Stop, WaitController, Resume
  <2>4. Work => kernel' = kernel \/ Survey \/ Recover \/ Boot \/ Close \/
      Shutdown \/ Crash
    BY DEF Work, AssignNew, AssignAgain, InstallAssigned, InstallFails,
        CommitAssigned, Submit, SubmitAgain, Record, Notify
  <2>5. Environment => kernel' = kernel \/ Survey \/ Recover \/ Boot \/ Close
      \/ Shutdown \/ Crash
    BY DEF Environment, Attach, Detach, Disturb
  <2> QED BY <2>1, <2>2, <2>3, <2>4, <2>5 DEF Next
<1> QED
  BY <1>1, <1>2, <1>3, <1>4, <1>5, <1>6, <1>7, <1>8 DEF vars

LEMMA OpTyped ==
    ASSUME TypeOK, StartInv, [Next]_vars
    PROVE  op' \in Ops
<1>0. 0 \in 0..MaxOrders
  BY LifecycleAssumption
<1>1. CASE Arm
  BY <1>1, <1>0, OpValues DEF Arm, ArmNow, Places, StartInv
<1>2. CASE Apply
  BY <1>2, <1>0, OpValues DEF Apply, Places, StartInv
<1>3. CASE ApplyInVain
  BY <1>3, <1>0, OpValues DEF ApplyInVain, Places
<1>4. CASE Activate
  BY <1>4, <1>0, OpValues DEF Activate, Aborted, Open, Places
<1>5. CASE ActivationBlocked
  BY <1>5, <1>0, OpValues DEF ActivationBlocked, Aborted, Open, Places
<1>6. CASE ActivationFails
  BY <1>6, <1>0, OpValues DEF ActivationFails, Aborted, Open, Places
<1>7. CASE Run
  BY <1>7, <1>0, OpValues DEF Run, MayInstall, Places
<1>8. CASE Rest
  BY <1>8, <1>0, OpValues DEF Rest, Places
<1>9. CASE StartFails
  BY <1>9, <1>0, OpValues DEF StartFails, Places
<1>10. CASE PauseAttaches
  BY <1>10, <1>0, OpValues DEF PauseAttaches, Aborted, Open, Places
<1>11. CASE PauseAttachFails
  BY <1>11, <1>0, OpValues DEF PauseAttachFails, Aborted, Open, Places
<1>12. CASE PauseRoles
  BY <1>12, <1>0, OpValues DEF PauseRoles, Aborted, Open, Places
<1>13. CASE PauseController
  BY <1>13, <1>0, OpValues DEF PauseController, MayPause, Open, Places
<1>14. CASE Replay
  BY <1>14, <1>0, OpValues DEF Replay, Places
<1>15. CASE Wake
  BY <1>15, <1>0, OpValues DEF Wake, Wakes, Places
<1>16. CASE Deliver
  BY <1>16, <1>0, OpValues DEF Deliver, AtRest, Places
<1>17. CASE DeliverInVain
  BY <1>17, <1>0, OpValues DEF DeliverInVain, Places
<1>18. CASE ResumeStarts
  BY <1>18, <1>0, OpValues DEF ResumeStarts, Open, Startable, StaysStarted,
      Places
<1>19. CASE Reconcile
  BY <1>19, <1>0, OpValues DEF Reconcile, Surveyed, Places
<1>20. CASE Recover
  BY <1>20, <1>0, OpValues DEF Recover, Surveyed, Startable, Open,
      StaysStarted, Places
<1>21. CASE Start
  BY <1>21, <1>0, OpValues DEF Start, Commanded, Open, Surveyed, Startable,
      StaysStarted, Places
<1>22. CASE Pause
  BY <1>22, <1>0, OpValues DEF Pause, Commanded, Open, Surveyed, Places
<1>23. CASE Notify
  BY <1>23, <1>0, OpValues DEF Notify, Open, NoSub, Places
<1>24. CASE Detach
  BY <1>24, <1>0, OpValues DEF Detach, Reloaded, Stale, Places
<1>25. CASE Crash
  BY <1>25, <1>0, OpValues DEF Crash, Reloaded, NoPend, NoAssign, NoSub,
      Places
<1>26. CASE op' = op
  BY <1>26 DEF TypeOK
<1>27. Next => op' = op \/ Arm \/ Apply \/ ApplyInVain \/ Activate \/
    ActivationBlocked \/ ActivationFails \/ Run \/ Rest \/ StartFails \/
    PauseAttaches \/ PauseAttachFails \/ PauseRoles \/ PauseController \/
    Replay \/ Wake \/ Deliver \/ DeliverInVain \/ ResumeStarts \/ Reconcile \/
    Recover \/ Start \/ Pause \/ Notify \/ Detach \/ Crash
  <2>1. Operate => op' = op \/ Arm \/ Apply \/ ApplyInVain \/ Activate \/
      ActivationBlocked \/ ActivationFails \/ Run \/ Rest \/ StartFails \/
      PauseAttaches \/ PauseAttachFails \/ PauseRoles \/ PauseController \/
      Replay \/ Wake \/ Deliver \/ DeliverInVain \/ ResumeStarts \/ Reconcile
      \/ Recover \/ Start \/ Pause \/ Notify \/ Detach \/ Crash
    BY DEF Operate
  <2>2. Follow => op' = op \/ Arm \/ Apply \/ ApplyInVain \/ Activate \/
      ActivationBlocked \/ ActivationFails \/ Run \/ Rest \/ StartFails \/
      PauseAttaches \/ PauseAttachFails \/ PauseRoles \/ PauseController \/
      Replay \/ Wake \/ Deliver \/ DeliverInVain \/ ResumeStarts \/ Reconcile
      \/ Recover \/ Start \/ Pause \/ Notify \/ Detach \/ Crash
    BY DEF Follow, StopEnds, Survey
  <2>3. Command => op' = op \/ Arm \/ Apply \/ ApplyInVain \/ Activate \/
      ActivationBlocked \/ ActivationFails \/ Run \/ Rest \/ StartFails \/
      PauseAttaches \/ PauseAttachFails \/ PauseRoles \/ PauseController \/
      Replay \/ Wake \/ Deliver \/ DeliverInVain \/ ResumeStarts \/ Reconcile
      \/ Recover \/ Start \/ Pause \/ Notify \/ Detach \/ Crash
    BY DEF Command, Stop, WaitController, Resume
  <2>4. Work => op' = op \/ Arm \/ Apply \/ ApplyInVain \/ Activate \/
      ActivationBlocked \/ ActivationFails \/ Run \/ Rest \/ StartFails \/
      PauseAttaches \/ PauseAttachFails \/ PauseRoles \/ PauseController \/
      Replay \/ Wake \/ Deliver \/ DeliverInVain \/ ResumeStarts \/ Reconcile
      \/ Recover \/ Start \/ Pause \/ Notify \/ Detach \/ Crash
    BY DEF Work, AssignNew, AssignAgain, InstallAssigned, InstallFails,
        CommitAssigned, Submit, SubmitAgain, Record
  <2>5. Environment => op' = op \/ Arm \/ Apply \/ ApplyInVain \/ Activate \/
      ActivationBlocked \/ ActivationFails \/ Run \/ Rest \/ StartFails \/
      PauseAttaches \/ PauseAttachFails \/ PauseRoles \/ PauseController \/
      Replay \/ Wake \/ Deliver \/ DeliverInVain \/ ResumeStarts \/ Reconcile
      \/ Recover \/ Start \/ Pause \/ Notify \/ Detach \/ Crash
    BY DEF Environment, Attach, Boot, Close, Shutdown, Disturb
  <2> QED BY <2>1, <2>2, <2>3, <2>4, <2>5 DEF Next
<1> QED
  BY <1>1, <1>2, <1>3, <1>4, <1>5, <1>6, <1>7, <1>8, <1>9, <1>10, <1>11,
      <1>12, <1>13, <1>14, <1>15, <1>16, <1>17, <1>18, <1>19, <1>20, <1>21,
      <1>22, <1>23, <1>24, <1>25, <1>26, <1>27 DEF vars

LEMMA CtrlTyped ==
    ASSUME TypeOK, [Next]_vars
    PROVE  ctrl' \in Controllers
<1>1. CASE Apply
  BY <1>1, CtrlValues DEF Apply, Controllers
<1>2. CASE PauseController
  BY <1>2, CtrlValues DEF PauseController, MayPause, Open, Controllers
<1>3. CASE Deliver
  BY <1>3, CtrlValues DEF Deliver, AtRest, Controllers
<1>4. CASE Reconcile
  BY <1>4, CtrlValues DEF Reconcile, NoOp, Surveyed, Controllers
<1>5. CASE WaitController
  BY <1>5, CtrlValues DEF WaitController, Commanded, Open, NoOp, Surveyed,
      Controllers
<1>6. CASE Attach
  BY <1>6, CtrlValues DEF Attach, Open, Controllers
<1>7. CASE Detach
  BY <1>7, CtrlValues DEF Detach, Stale, Controllers
<1>8. CASE Shutdown
  BY ZenonT(60), <1>8, CtrlValues DEF Shutdown, NoOp, NoPend, NoAssign, NoSub, Controllers
<1>9. CASE Crash
  BY <1>9, CtrlValues DEF Crash, NoOp, NoPend, NoAssign, NoSub, Controllers
<1>10. CASE ctrl' = ctrl
  BY <1>10 DEF TypeOK
<1>11. Next => ctrl' = ctrl \/ Apply \/ PauseController \/ Deliver \/
    Reconcile \/ WaitController \/ Attach \/ Detach \/ Shutdown \/ Crash
  <2>1. Operate => ctrl' = ctrl \/ Apply \/ PauseController \/ Deliver \/
      Reconcile \/ WaitController \/ Attach \/ Detach \/ Shutdown \/ Crash
    BY DEF Operate, Arm, ApplyInVain, Activate, ActivationBlocked,
        ActivationFails, Run, Rest, StartFails, PauseAttaches,
        PauseAttachFails, PauseRoles, Replay, Wake, DeliverInVain
  <2>2. Follow => ctrl' = ctrl \/ Apply \/ PauseController \/ Deliver \/
      Reconcile \/ WaitController \/ Attach \/ Detach \/ Shutdown \/ Crash
    BY DEF Follow, StopEnds, ResumeStarts, Survey, Recover
  <2>3. Command => ctrl' = ctrl \/ Apply \/ PauseController \/ Deliver \/
      Reconcile \/ WaitController \/ Attach \/ Detach \/ Shutdown \/ Crash
    BY DEF Command, Start, Pause, Stop, Resume
  <2>4. Work => ctrl' = ctrl \/ Apply \/ PauseController \/ Deliver \/
      Reconcile \/ WaitController \/ Attach \/ Detach \/ Shutdown \/ Crash
    BY DEF Work, AssignNew, AssignAgain, InstallAssigned, InstallFails,
        CommitAssigned, Submit, SubmitAgain, Record, Notify
  <2>5. Environment => ctrl' = ctrl \/ Apply \/ PauseController \/ Deliver \/
      Reconcile \/ WaitController \/ Attach \/ Detach \/ Shutdown \/ Crash
    BY DEF Environment, Boot, Close, Disturb
  <2> QED BY <2>1, <2>2, <2>3, <2>4, <2>5 DEF Next
<1> QED
  BY <1>1, <1>2, <1>3, <1>4, <1>5, <1>6, <1>7, <1>8, <1>9, <1>10, <1>11 DEF
      vars

LEMMA WorkerTyped ==
    ASSUME TypeOK, [Next]_vars
    PROVE  worker' \in Workers
<1>1. CASE Activate
  BY <1>1, WorkerValues DEF Activate, Aborted, Open
<1>2. CASE ActivationBlocked
  BY <1>2, WorkerValues DEF ActivationBlocked, Aborted, Open
<1>3. CASE ActivationFails
  BY <1>3, WorkerValues DEF ActivationFails, Aborted, Open
<1>4. CASE Run
  BY <1>4, WorkerValues DEF Run
<1>5. CASE Rest
  BY <1>5, WorkerValues DEF Rest
<1>6. CASE StartFails
  BY <1>6, WorkerValues DEF StartFails
<1>7. CASE PauseAttaches
  BY <1>7, WorkerValues DEF PauseAttaches, Aborted, Open
<1>8. CASE PauseAttachFails
  BY <1>8, WorkerValues DEF PauseAttachFails, Aborted, Open
<1>9. CASE PauseRoles
  BY <1>9, WorkerValues DEF PauseRoles, Aborted, Open
<1>10. CASE InstallAssigned
  BY <1>10, WorkerValues DEF InstallAssigned, NoAssign
<1>11. CASE SubmitAgain
  BY <1>11, WorkerValues DEF SubmitAgain, Called, Open, NoOp, NoSub
<1>12. CASE Record
  BY <1>12, WorkerValues DEF Record, NoOp, Open, NoSub
<1>13. CASE Shutdown
  BY <1>13, WorkerValues DEF Shutdown, NoOp, NoPend, Reloaded, NoAssign, NoSub
<1>14. CASE Crash
  BY <1>14, WorkerValues DEF Crash, Reloaded, NoOp, NoPend, NoAssign, NoSub
<1>15. CASE worker' = worker
  BY <1>15 DEF TypeOK
<1>16. Next => worker' = worker \/ Activate \/ ActivationBlocked \/
    ActivationFails \/ Run \/ Rest \/ StartFails \/ PauseAttaches \/
    PauseAttachFails \/ PauseRoles \/ InstallAssigned \/ SubmitAgain \/ Record
    \/ Shutdown \/ Crash
  <2>1. Operate => worker' = worker \/ Activate \/ ActivationBlocked \/
      ActivationFails \/ Run \/ Rest \/ StartFails \/ PauseAttaches \/
      PauseAttachFails \/ PauseRoles \/ InstallAssigned \/ SubmitAgain \/
      Record \/ Shutdown \/ Crash
    BY DEF Operate, Arm, Apply, ApplyInVain, PauseController, Replay, Wake,
        Deliver, DeliverInVain, KeepWorker
  <2>2. Follow => worker' = worker \/ Activate \/ ActivationBlocked \/
      ActivationFails \/ Run \/ Rest \/ StartFails \/ PauseAttaches \/
      PauseAttachFails \/ PauseRoles \/ InstallAssigned \/ SubmitAgain \/
      Record \/ Shutdown \/ Crash
    BY DEF Follow, StopEnds, ResumeStarts, Reconcile, Survey, Recover,
        KeepWorker
  <2>3. Command => worker' = worker \/ Activate \/ ActivationBlocked \/
      ActivationFails \/ Run \/ Rest \/ StartFails \/ PauseAttaches \/
      PauseAttachFails \/ PauseRoles \/ InstallAssigned \/ SubmitAgain \/
      Record \/ Shutdown \/ Crash
    BY DEF Command, Start, Pause, Stop, WaitController, Resume, KeepWorker
  <2>4. Work => worker' = worker \/ Activate \/ ActivationBlocked \/
      ActivationFails \/ Run \/ Rest \/ StartFails \/ PauseAttaches \/
      PauseAttachFails \/ PauseRoles \/ InstallAssigned \/ SubmitAgain \/
      Record \/ Shutdown \/ Crash
    BY DEF Work, AssignNew, AssignAgain, InstallFails, CommitAssigned, Submit,
        Notify, KeepWorker
  <2>5. Environment => worker' = worker \/ Activate \/ ActivationBlocked \/
      ActivationFails \/ Run \/ Rest \/ StartFails \/ PauseAttaches \/
      PauseAttachFails \/ PauseRoles \/ InstallAssigned \/ SubmitAgain \/
      Record \/ Shutdown \/ Crash
    BY DEF Environment, Attach, Detach, Boot, Close, Disturb, KeepWorker
  <2> QED BY <2>1, <2>2, <2>3, <2>4, <2>5 DEF Next
<1> QED
  BY <1>1, <1>2, <1>3, <1>4, <1>5, <1>6, <1>7, <1>8, <1>9, <1>10, <1>11,
      <1>12, <1>13, <1>14, <1>15, <1>16 DEF vars

LEMMA SavedTyped ==
    ASSUME TypeOK, [Next]_vars
    PROVE  saved' \in Saves
<1>1. CASE Apply
  BY <1>1, WorkerValues DEF Apply
<1>2. CASE Run
  BY <1>2, WorkerValues DEF Run
<1>3. CASE PauseController
  BY <1>3, WorkerValues DEF PauseController, MayPause, Open
<1>4. CASE Deliver
  BY <1>4, WorkerValues DEF Deliver, AtRest
<1>5. CASE Reconcile
  BY <1>5, WorkerValues DEF Reconcile, NoOp, Surveyed
<1>6. CASE WaitController
  BY <1>6, WorkerValues DEF WaitController, Commanded, Open, NoOp, Surveyed
<1>7. CASE InstallAssigned
  BY <1>7, WorkerValues DEF InstallAssigned, NoAssign
<1>8. CASE Shutdown
  BY <1>8, WorkerValues DEF Shutdown, NoOp, NoPend, Reloaded, NoAssign, NoSub
<1>9. CASE saved' = saved
  BY <1>9 DEF TypeOK
<1>10. Next => saved' = saved \/ Apply \/ Run \/ PauseController \/ Deliver \/
    Reconcile \/ WaitController \/ InstallAssigned \/ Shutdown
  <2>1. Operate => saved' = saved \/ Apply \/ Run \/ PauseController \/
      Deliver \/ Reconcile \/ WaitController \/ InstallAssigned \/ Shutdown
    BY DEF Operate, Arm, ApplyInVain, Activate, ActivationBlocked,
        ActivationFails, Rest, StartFails, PauseAttaches, PauseAttachFails,
        PauseRoles, Replay, Wake, DeliverInVain, KeepWorker, RestWorker
  <2>2. Follow => saved' = saved \/ Apply \/ Run \/ PauseController \/ Deliver
      \/ Reconcile \/ WaitController \/ InstallAssigned \/ Shutdown
    BY DEF Follow, StopEnds, ResumeStarts, Survey, Recover, KeepWorker
  <2>3. Command => saved' = saved \/ Apply \/ Run \/ PauseController \/
      Deliver \/ Reconcile \/ WaitController \/ InstallAssigned \/ Shutdown
    BY DEF Command, Start, Pause, Stop, Resume, KeepWorker
  <2>4. Work => saved' = saved \/ Apply \/ Run \/ PauseController \/ Deliver
      \/ Reconcile \/ WaitController \/ InstallAssigned \/ Shutdown
    BY DEF Work, AssignNew, AssignAgain, InstallFails, CommitAssigned, Submit,
        SubmitAgain, Record, Notify, KeepWorker
  <2>5. Environment => saved' = saved \/ Apply \/ Run \/ PauseController \/
      Deliver \/ Reconcile \/ WaitController \/ InstallAssigned \/ Shutdown
    BY DEF Environment, Attach, Detach, Boot, Close, Crash, Disturb,
        KeepWorker
  <2> QED BY <2>1, <2>2, <2>3, <2>4, <2>5 DEF Next
<1> QED
  BY <1>1, <1>2, <1>3, <1>4, <1>5, <1>6, <1>7, <1>8, <1>9, <1>10 DEF vars

LEMMA ToldTyped ==
    ASSUME TypeOK, [Next]_vars
    PROVE  told' \in [Orders -> {"no", "shown", "logged"}]
<1>0. told \in [Orders -> {"no", "shown", "logged"}] /\ op \in Ops
  BY DEF TypeOK
<1>1. CASE Deliver
  BY <1>1, <1>0 DEF Deliver, AtRest, Orders, Ops
<1>2. CASE Detach
  BY <1>2, <1>0 DEF Detach, Reloaded, Forgets, Orders, Lost, Stale, Ops
<1>3. CASE Shutdown
  BY <1>3, <1>0 DEF Shutdown, NoOp, NoPend, Reloaded, Forgets, Orders,
      NoAssign, NoSub, Lost, Ops
<1>4. CASE Crash
  BY <1>4, <1>0 DEF Crash, Reloaded, Forgets, Orders, Lost, NoOp, NoPend,
      NoAssign, NoSub, Ops
<1>5. CASE told' = told
  BY <1>5 DEF TypeOK
<1>6. Next => told' = told \/ Deliver \/ Detach \/ Shutdown \/ Crash
  <2>1. Operate => told' = told \/ Deliver \/ Detach \/ Shutdown \/ Crash
    BY DEF Operate, Arm, Apply, ApplyInVain, Activate, ActivationBlocked,
        ActivationFails, Run, Rest, StartFails, PauseAttaches,
        PauseAttachFails, PauseRoles, PauseController, Replay, Wake,
        DeliverInVain
  <2>2. Follow => told' = told \/ Deliver \/ Detach \/ Shutdown \/ Crash
    BY DEF Follow, StopEnds, ResumeStarts, Reconcile, Survey, Recover
  <2>3. Command => told' = told \/ Deliver \/ Detach \/ Shutdown \/ Crash
    BY DEF Command, Start, Pause, Stop, WaitController, Resume
  <2>4. Work => told' = told \/ Deliver \/ Detach \/ Shutdown \/ Crash
    BY DEF Work, AssignNew, AssignAgain, InstallAssigned, InstallFails,
        CommitAssigned, Submit, SubmitAgain, Record, Notify
  <2>5. Environment => told' = told \/ Deliver \/ Detach \/ Shutdown \/ Crash
    BY DEF Environment, Attach, Boot, Close, Disturb
  <2> QED BY <2>1, <2>2, <2>3, <2>4, <2>5 DEF Next
<1> QED
  BY <1>1, <1>2, <1>3, <1>4, <1>5, <1>6 DEF vars

LEMMA AssignTyped ==
    ASSUME TypeOK, [Next]_vars
    PROVE  assign' \in Assigns
<1>1. CASE Arm
  BY <1>1, AssignValues DEF Arm, KeepLab, ArmNow, Transition
<1>2. CASE Apply
  BY <1>2, AssignValues DEF Apply, Transition, KeepLab
<1>3. CASE Activate
  BY <1>3, AssignValues DEF Activate, Aborted, Open, Transition
<1>4. CASE ActivationBlocked
  BY <1>4, AssignValues DEF ActivationBlocked, Aborted, Open, Transition
<1>5. CASE Run
  BY <1>5, AssignValues DEF Run, Transition
<1>6. CASE StartFails
  BY <1>6, AssignValues DEF StartFails, Transition
<1>7. CASE PauseAttachFails
  BY <1>7, AssignValues DEF PauseAttachFails, Aborted, Open, Transition
<1>8. CASE PauseController
  BY <1>8, AssignValues DEF PauseController, Transition, Open
<1>9. CASE Wake
  BY <1>9, AssignValues DEF Wake, Transition, KeepLab
<1>10. CASE Deliver
  BY <1>10, AssignValues DEF Deliver, KeepLab, Transition, AtRest
<1>11. CASE StopEnds
  BY <1>11, AssignValues DEF StopEnds, NoOp, Transition, KeepLab
<1>12. CASE ResumeStarts
  BY <1>12, AssignValues DEF ResumeStarts, NoOp, Open, Starting, KeepLab,
      Transition
<1>13. CASE Reconcile
  BY <1>13, AssignValues DEF Reconcile, NoOp, Surveyed, KeepLab, Transition
<1>14. CASE Recover
  BY <1>14, AssignValues DEF Recover, Surveyed, NoOp, Starting, Open, KeepLab,
      Transition, Pausing
<1>15. CASE Start
  BY <1>15, AssignValues DEF Start, Open, NoOp, Surveyed, Starting, KeepLab,
      Transition
<1>16. CASE Pause
  BY <1>16, AssignValues DEF Pause, Open, NoOp, Surveyed, Pausing, Transition,
      KeepLab
<1>17. CASE WaitController
  BY <1>17, AssignValues DEF WaitController, Open, NoOp, Surveyed, Transition,
      KeepLab
<1>18. CASE Resume
  BY <1>18, AssignValues DEF Resume, Open, NoOp, Surveyed, Transition
<1>19. CASE AssignNew
  BY <1>19, AssignStarts DEF AssignNew, Open, NoOp, Surveyed
<1>20. CASE AssignAgain
  BY <1>20, AssignStarts DEF AssignAgain, Open, NoOp, Surveyed
<1>21. CASE InstallAssigned
  BY <1>21, AssignValues DEF InstallAssigned
<1>22. CASE InstallFails
  BY <1>22, AssignValues DEF InstallFails
<1>23. CASE CommitAssigned
  BY <1>23, AssignValues DEF CommitAssigned, NoOp, Open
<1>24. CASE Record
  BY <1>24, AssignValues DEF Record, NoOp, Open, Transition, NoSub, KeepLab
<1>25. CASE Shutdown
  BY <1>25, AssignValues DEF Shutdown, NoOp, NoPend, Reloaded, NoSub
<1>26. CASE Crash
  BY <1>26, AssignValues DEF Crash, Reloaded, NoOp, NoPend, NoSub
<1>27. CASE Disturb
  BY <1>27, AssignValues DEF Disturb, Open, NoOp, Transition
<1>28. CASE assign' = assign
  BY <1>28 DEF TypeOK
<1>29. Next => assign' = assign \/ Arm \/ Apply \/ Activate \/
    ActivationBlocked \/ Run \/ StartFails \/ PauseAttachFails \/
    PauseController \/ Wake \/ Deliver \/ StopEnds \/ ResumeStarts \/
    Reconcile \/ Recover \/ Start \/ Pause \/ WaitController \/ Resume \/
    AssignNew \/ AssignAgain \/ InstallAssigned \/ InstallFails \/
    CommitAssigned \/ Record \/ Shutdown \/ Crash \/ Disturb
  <2>1. Operate => assign' = assign \/ Arm \/ Apply \/ Activate \/
      ActivationBlocked \/ Run \/ StartFails \/ PauseAttachFails \/
      PauseController \/ Wake \/ Deliver \/ StopEnds \/ ResumeStarts \/
      Reconcile \/ Recover \/ Start \/ Pause \/ WaitController \/ Resume \/
      AssignNew \/ AssignAgain \/ InstallAssigned \/ InstallFails \/
      CommitAssigned \/ Record \/ Shutdown \/ Crash \/ Disturb
    BY DEF Operate, ApplyInVain, ActivationFails, Rest, PauseAttaches,
        PauseRoles, Replay, DeliverInVain, KeepLab
  <2>2. Follow => assign' = assign \/ Arm \/ Apply \/ Activate \/
      ActivationBlocked \/ Run \/ StartFails \/ PauseAttachFails \/
      PauseController \/ Wake \/ Deliver \/ StopEnds \/ ResumeStarts \/
      Reconcile \/ Recover \/ Start \/ Pause \/ WaitController \/ Resume \/
      AssignNew \/ AssignAgain \/ InstallAssigned \/ InstallFails \/
      CommitAssigned \/ Record \/ Shutdown \/ Crash \/ Disturb
    BY DEF Follow, Survey, KeepLab
  <2>3. Command => assign' = assign \/ Arm \/ Apply \/ Activate \/
      ActivationBlocked \/ Run \/ StartFails \/ PauseAttachFails \/
      PauseController \/ Wake \/ Deliver \/ StopEnds \/ ResumeStarts \/
      Reconcile \/ Recover \/ Start \/ Pause \/ WaitController \/ Resume \/
      AssignNew \/ AssignAgain \/ InstallAssigned \/ InstallFails \/
      CommitAssigned \/ Record \/ Shutdown \/ Crash \/ Disturb
    BY DEF Command, Stop, KeepLab
  <2>4. Work => assign' = assign \/ Arm \/ Apply \/ Activate \/
      ActivationBlocked \/ Run \/ StartFails \/ PauseAttachFails \/
      PauseController \/ Wake \/ Deliver \/ StopEnds \/ ResumeStarts \/
      Reconcile \/ Recover \/ Start \/ Pause \/ WaitController \/ Resume \/
      AssignNew \/ AssignAgain \/ InstallAssigned \/ InstallFails \/
      CommitAssigned \/ Record \/ Shutdown \/ Crash \/ Disturb
    BY DEF Work, Submit, SubmitAgain, Notify, KeepLab
  <2>5. Environment => assign' = assign \/ Arm \/ Apply \/ Activate \/
      ActivationBlocked \/ Run \/ StartFails \/ PauseAttachFails \/
      PauseController \/ Wake \/ Deliver \/ StopEnds \/ ResumeStarts \/
      Reconcile \/ Recover \/ Start \/ Pause \/ WaitController \/ Resume \/
      AssignNew \/ AssignAgain \/ InstallAssigned \/ InstallFails \/
      CommitAssigned \/ Record \/ Shutdown \/ Crash \/ Disturb
    BY DEF Environment, Attach, Detach, Boot, Close, KeepLab
  <2> QED BY <2>1, <2>2, <2>3, <2>4, <2>5 DEF Next
<1> QED
  BY <1>1, <1>2, <1>3, <1>4, <1>5, <1>6, <1>7, <1>8, <1>9, <1>10, <1>11,
      <1>12, <1>13, <1>14, <1>15, <1>16, <1>17, <1>18, <1>19, <1>20, <1>21,
      <1>22, <1>23, <1>24, <1>25, <1>26, <1>27, <1>28, <1>29 DEF vars

LEMMA SubTyped ==
    ASSUME TypeOK, [Next]_vars
    PROVE  sub' \in Subs
<1>1. CASE ActivationBlocked
  BY <1>1, WorkerValues DEF ActivationBlocked, Aborted, Open
<1>2. CASE Run
  BY <1>2, WorkerValues DEF Run
<1>3. CASE Rest
  BY <1>3, WorkerValues DEF Rest
<1>4. CASE StartFails
  BY <1>4, WorkerValues DEF StartFails
<1>5. CASE PauseRoles
  BY <1>5, WorkerValues DEF PauseRoles, Aborted, Open
<1>6. CASE InstallAssigned
  BY <1>6, WorkerValues DEF InstallAssigned, NoAssign
<1>7. CASE Submit
  BY <1>7, WorkerValues DEF Submit, Called, Open, NoOp
<1>8. CASE SubmitAgain
  BY <1>8, WorkerValues DEF SubmitAgain, Called, Open, NoOp
<1>9. CASE Record
  BY <1>9, WorkerValues DEF Record, NoOp, Open
<1>10. CASE Notify
  BY <1>10, WorkerValues DEF Notify, NoOp, Open
<1>11. CASE Shutdown
  BY <1>11, WorkerValues DEF Shutdown, NoOp, NoPend, Reloaded, NoAssign
<1>12. CASE Crash
  BY <1>12, WorkerValues DEF Crash, Reloaded, NoOp, NoPend, NoAssign
<1>13. CASE sub' = sub
  BY <1>13 DEF TypeOK
<1>14. Next => sub' = sub \/ ActivationBlocked \/ Run \/ Rest \/ StartFails \/
    PauseRoles \/ InstallAssigned \/ Submit \/ SubmitAgain \/ Record \/ Notify
    \/ Shutdown \/ Crash
  <2>1. Operate => sub' = sub \/ ActivationBlocked \/ Run \/ Rest \/
      StartFails \/ PauseRoles \/ InstallAssigned \/ Submit \/ SubmitAgain \/
      Record \/ Notify \/ Shutdown \/ Crash
    BY DEF Operate, Arm, Apply, ApplyInVain, Activate, ActivationFails,
        PauseAttaches, PauseAttachFails, PauseController, Replay, Wake,
        Deliver, DeliverInVain, KeepWorker
  <2>2. Follow => sub' = sub \/ ActivationBlocked \/ Run \/ Rest \/ StartFails
      \/ PauseRoles \/ InstallAssigned \/ Submit \/ SubmitAgain \/ Record \/
      Notify \/ Shutdown \/ Crash
    BY DEF Follow, StopEnds, ResumeStarts, Reconcile, Survey, Recover,
        KeepWorker
  <2>3. Command => sub' = sub \/ ActivationBlocked \/ Run \/ Rest \/
      StartFails \/ PauseRoles \/ InstallAssigned \/ Submit \/ SubmitAgain \/
      Record \/ Notify \/ Shutdown \/ Crash
    BY DEF Command, Start, Pause, Stop, WaitController, Resume, KeepWorker
  <2>4. Work => sub' = sub \/ ActivationBlocked \/ Run \/ Rest \/ StartFails
      \/ PauseRoles \/ InstallAssigned \/ Submit \/ SubmitAgain \/ Record \/
      Notify \/ Shutdown \/ Crash
    BY DEF Work, AssignNew, AssignAgain, InstallFails, CommitAssigned,
        KeepWorker
  <2>5. Environment => sub' = sub \/ ActivationBlocked \/ Run \/ Rest \/
      StartFails \/ PauseRoles \/ InstallAssigned \/ Submit \/ SubmitAgain \/
      Record \/ Notify \/ Shutdown \/ Crash
    BY DEF Environment, Attach, Detach, Boot, Close, Disturb, KeepWorker
  <2> QED BY <2>1, <2>2, <2>3, <2>4, <2>5 DEF Next
<1> QED
  BY <1>1, <1>2, <1>3, <1>4, <1>5, <1>6, <1>7, <1>8, <1>9, <1>10, <1>11,
      <1>12, <1>13, <1>14 DEF vars

LEMMA PendTyped ==
    ASSUME TypeOK, [Next]_vars
    PROVE  pend' \in Pends
<1>0. pend \in Pends
  BY DEF TypeOK
<1>1. CASE PauseController
  BY <1>1, <1>0 DEF PauseController, MayPause, Open, Pends
<1>2. CASE StopEnds
  BY <1>2, <1>0 DEF StopEnds, NoOp, Pends
<1>3. CASE ResumeStarts
  BY <1>3, <1>0 DEF ResumeStarts, NoOp, Open, Pends
<1>4. CASE Reconcile
  BY <1>4, <1>0 DEF Reconcile, NoOp, Surveyed, Pends
<1>5. CASE Stop
  BY <1>5, <1>0 DEF Stop, Commanded, Open, NoOp, Surveyed, Pends
<1>6. CASE Resume
  BY <1>6, <1>0 DEF Resume, Commanded, Open, NoOp, Surveyed, Startable, Pends
<1>7. CASE Attach
  BY <1>7, <1>0 DEF Attach, Open, Pends
<1>8. CASE Detach
  BY <1>8, <1>0 DEF Detach, Reloaded, Stale, Pends
<1>9. CASE Boot
  BY <1>9, <1>0 DEF Boot, NoPend, Pends
<1>10. CASE Crash
  BY <1>10, <1>0 DEF Crash, Reloaded, NoOp, NoPend, NoAssign, NoSub, Pends
<1>11. CASE pend' = pend
  BY <1>11 DEF TypeOK
<1>12. Next => pend' = pend \/ PauseController \/ StopEnds \/ ResumeStarts \/
    Reconcile \/ Stop \/ Resume \/ Attach \/ Detach \/ Boot \/ Crash
  <2>1. Operate => pend' = pend \/ PauseController \/ StopEnds \/ ResumeStarts
      \/ Reconcile \/ Stop \/ Resume \/ Attach \/ Detach \/ Boot \/ Crash
    BY DEF Operate, Arm, Apply, ApplyInVain, Activate, ActivationBlocked,
        ActivationFails, Run, Rest, StartFails, PauseAttaches,
        PauseAttachFails, PauseRoles, Replay, Wake, Deliver, DeliverInVain
  <2>2. Follow => pend' = pend \/ PauseController \/ StopEnds \/ ResumeStarts
      \/ Reconcile \/ Stop \/ Resume \/ Attach \/ Detach \/ Boot \/ Crash
    BY DEF Follow, Survey, Recover
  <2>3. Command => pend' = pend \/ PauseController \/ StopEnds \/ ResumeStarts
      \/ Reconcile \/ Stop \/ Resume \/ Attach \/ Detach \/ Boot \/ Crash
    BY DEF Command, Start, Pause, WaitController
  <2>4. Work => pend' = pend \/ PauseController \/ StopEnds \/ ResumeStarts \/
      Reconcile \/ Stop \/ Resume \/ Attach \/ Detach \/ Boot \/ Crash
    BY DEF Work, AssignNew, AssignAgain, InstallAssigned, InstallFails,
        CommitAssigned, Submit, SubmitAgain, Record, Notify
  <2>5. Environment => pend' = pend \/ PauseController \/ StopEnds \/
      ResumeStarts \/ Reconcile \/ Stop \/ Resume \/ Attach \/ Detach \/ Boot
      \/ Crash
    BY DEF Environment, Close, Shutdown, Disturb
  <2> QED BY <2>1, <2>2, <2>3, <2>4, <2>5 DEF Next
<1> QED
  BY <1>1, <1>2, <1>3, <1>4, <1>5, <1>6, <1>7, <1>8, <1>9, <1>10, <1>11, <1>12
      DEF vars

LEMMA TroubleTyped ==
    ASSUME TypeOK, [Next]_vars
    PROVE  trouble' \in 0..MaxTrouble
<1>0. trouble \in 0..MaxTrouble /\ MaxTrouble \in Nat
  BY LifecycleAssumption DEF TypeOK
<1>1. CASE Apply
  BY <1>1, <1>0 DEF Apply, Spend
<1>2. CASE ActivationBlocked
  BY <1>2, <1>0 DEF ActivationBlocked, Aborted, Open, Spend
<1>3. CASE ActivationFails
  BY <1>3, <1>0 DEF ActivationFails, Aborted, Open, Spend
<1>4. CASE Run
  <2>1. trouble' = trouble \/ Spend
    BY <1>4 DEF Run
  <2> QED BY <2>1, <1>0 DEF Spend
<1>5. CASE Rest
  BY <1>5, <1>0 DEF Rest, Spend
<1>6. CASE PauseAttachFails
  BY <1>6, <1>0 DEF PauseAttachFails, Aborted, Open, Spend
<1>7. CASE PauseRoles
  BY <1>7, <1>0 DEF PauseRoles, Aborted, Open, Spend
<1>8. CASE PauseController
  BY <1>8, <1>0 DEF PauseController, MayPause, Open, Spend
<1>9. CASE Deliver
  BY <1>9, <1>0 DEF Deliver, Spend, AtRest
<1>10. CASE WaitController
  BY <1>10, <1>0 DEF WaitController, Commanded, Open, NoOp, Surveyed, Spend
<1>11. CASE InstallAssigned
  BY <1>11, <1>0 DEF InstallAssigned, Spend, NoAssign
<1>12. CASE InstallFails
  BY <1>12, <1>0 DEF InstallFails, Spend, NoAssign
<1>13. CASE Detach
  BY <1>13, <1>0 DEF Detach, Spend, Reloaded, Stale
<1>14. CASE Close
  BY <1>14, <1>0 DEF Close, Open, Spend
<1>15. CASE Crash
  BY <1>15, <1>0 DEF Crash, Spend, Reloaded, NoOp, NoPend, NoAssign, NoSub
<1>16. CASE Disturb
  BY <1>16, <1>0 DEF Disturb, Open, NoOp, Spend
<1>17. CASE trouble' = trouble
  BY <1>17 DEF TypeOK
<1>18. Next => trouble' = trouble \/ Apply \/ ActivationBlocked \/
    ActivationFails \/ Run \/ Rest \/ PauseAttachFails \/ PauseRoles \/
    PauseController \/ Deliver \/ WaitController \/ InstallAssigned \/
    InstallFails \/ Detach \/ Close \/ Crash \/ Disturb
  <2>1. Operate => trouble' = trouble \/ Apply \/ ActivationBlocked \/
      ActivationFails \/ Run \/ Rest \/ PauseAttachFails \/ PauseRoles \/
      PauseController \/ Deliver \/ WaitController \/ InstallAssigned \/
      InstallFails \/ Detach \/ Close \/ Crash \/ Disturb
    BY DEF Operate, Arm, ApplyInVain, Activate, StartFails, PauseAttaches,
        Replay, Wake, DeliverInVain
  <2>2. Follow => trouble' = trouble \/ Apply \/ ActivationBlocked \/
      ActivationFails \/ Run \/ Rest \/ PauseAttachFails \/ PauseRoles \/
      PauseController \/ Deliver \/ WaitController \/ InstallAssigned \/
      InstallFails \/ Detach \/ Close \/ Crash \/ Disturb
    BY DEF Follow, StopEnds, ResumeStarts, Reconcile, Survey, Recover
  <2>3. Command => trouble' = trouble \/ Apply \/ ActivationBlocked \/
      ActivationFails \/ Run \/ Rest \/ PauseAttachFails \/ PauseRoles \/
      PauseController \/ Deliver \/ WaitController \/ InstallAssigned \/
      InstallFails \/ Detach \/ Close \/ Crash \/ Disturb
    BY DEF Command, Start, Pause, Stop, Resume
  <2>4. Work => trouble' = trouble \/ Apply \/ ActivationBlocked \/
      ActivationFails \/ Run \/ Rest \/ PauseAttachFails \/ PauseRoles \/
      PauseController \/ Deliver \/ WaitController \/ InstallAssigned \/
      InstallFails \/ Detach \/ Close \/ Crash \/ Disturb
    BY DEF Work, AssignNew, AssignAgain, CommitAssigned, Submit, SubmitAgain,
        Record, Notify
  <2>5. Environment => trouble' = trouble \/ Apply \/ ActivationBlocked \/
      ActivationFails \/ Run \/ Rest \/ PauseAttachFails \/ PauseRoles \/
      PauseController \/ Deliver \/ WaitController \/ InstallAssigned \/
      InstallFails \/ Detach \/ Close \/ Crash \/ Disturb
    BY DEF Environment, Attach, Boot, Shutdown
  <2> QED BY <2>1, <2>2, <2>3, <2>4, <2>5 DEF Next
<1> QED
  BY <1>1, <1>2, <1>3, <1>4, <1>5, <1>6, <1>7, <1>8, <1>9, <1>10, <1>11,
      <1>12, <1>13, <1>14, <1>15, <1>16, <1>17, <1>18 DEF vars

LEMMA MarksTyped ==
    ASSUME TypeOK, [Next]_vars
    PROVE  marks' \subseteq {"missed", "halfway", "woken", "late"}
<1>0. marks \subseteq {"missed", "halfway", "woken", "late"}
  BY DEF TypeOK
<1>1. CASE Apply
  BY <1>1, <1>0, LostType DEF Apply
<1>2. CASE PauseRoles
  BY <1>2, <1>0, LostType DEF PauseRoles, Aborted, Open
<1>3. CASE PauseController
  BY <1>3, <1>0, LostType DEF PauseController, MayPause, Open
<1>4. CASE Replay
  BY <1>4, <1>0, LostType DEF Replay
<1>5. CASE Wake
  BY <1>5, <1>0, LostType DEF Wake, Wakes
<1>6. CASE Deliver
  BY <1>6, <1>0, LostType DEF Deliver, AtRest
<1>7. CASE DeliverInVain
  BY <1>7, <1>0, LostType DEF DeliverInVain
<1>8. CASE ResumeStarts
  BY <1>8, <1>0, LostType DEF ResumeStarts, NoOp, Open
<1>9. CASE Recover
  BY <1>9, <1>0, LostType DEF Recover, Surveyed, NoOp
<1>10. CASE WaitController
  BY <1>10, <1>0, LostType DEF WaitController, Commanded, Open, NoOp, Surveyed
<1>11. CASE InstallAssigned
  BY <1>11, <1>0, LostType DEF InstallAssigned, MayInstall, NoAssign
<1>12. CASE Notify
  BY <1>12, <1>0, LostType DEF Notify, NoOp, Open, NoSub
<1>13. CASE Detach
  BY <1>13, <1>0, LostType DEF Detach, Stale
<1>14. CASE Shutdown
  BY <1>14, <1>0, LostType DEF Shutdown, NoOp, NoPend, NoAssign, NoSub
<1>15. CASE Crash
  BY <1>15, <1>0, LostType DEF Crash, NoOp, NoPend, NoAssign, NoSub
<1>16. CASE marks' = marks
  BY <1>16 DEF TypeOK
<1>17. Next => marks' = marks \/ Apply \/ PauseRoles \/ PauseController \/
    Replay \/ Wake \/ Deliver \/ DeliverInVain \/ ResumeStarts \/ Recover \/
    WaitController \/ InstallAssigned \/ Notify \/ Detach \/ Shutdown \/ Crash
  <2>1. Operate => marks' = marks \/ Apply \/ PauseRoles \/ PauseController \/
      Replay \/ Wake \/ Deliver \/ DeliverInVain \/ ResumeStarts \/ Recover \/
      WaitController \/ InstallAssigned \/ Notify \/ Detach \/ Shutdown \/
      Crash
    BY DEF Operate, Arm, ApplyInVain, Activate, ActivationBlocked,
        ActivationFails, Run, Rest, StartFails, PauseAttaches,
        PauseAttachFails
  <2>2. Follow => marks' = marks \/ Apply \/ PauseRoles \/ PauseController \/
      Replay \/ Wake \/ Deliver \/ DeliverInVain \/ ResumeStarts \/ Recover \/
      WaitController \/ InstallAssigned \/ Notify \/ Detach \/ Shutdown \/
      Crash
    BY DEF Follow, StopEnds, Reconcile, Survey
  <2>3. Command => marks' = marks \/ Apply \/ PauseRoles \/ PauseController \/
      Replay \/ Wake \/ Deliver \/ DeliverInVain \/ ResumeStarts \/ Recover \/
      WaitController \/ InstallAssigned \/ Notify \/ Detach \/ Shutdown \/
      Crash
    BY DEF Command, Start, Pause, Stop, Resume
  <2>4. Work => marks' = marks \/ Apply \/ PauseRoles \/ PauseController \/
      Replay \/ Wake \/ Deliver \/ DeliverInVain \/ ResumeStarts \/ Recover \/
      WaitController \/ InstallAssigned \/ Notify \/ Detach \/ Shutdown \/
      Crash
    BY DEF Work, AssignNew, AssignAgain, InstallFails, CommitAssigned, Submit,
        SubmitAgain, Record
  <2>5. Environment => marks' = marks \/ Apply \/ PauseRoles \/
      PauseController \/ Replay \/ Wake \/ Deliver \/ DeliverInVain \/
      ResumeStarts \/ Recover \/ WaitController \/ InstallAssigned \/ Notify
      \/ Detach \/ Shutdown \/ Crash
    BY DEF Environment, Attach, Boot, Close, Disturb
  <2> QED BY <2>1, <2>2, <2>3, <2>4, <2>5 DEF Next
<1> QED
  BY <1>1, <1>2, <1>3, <1>4, <1>5, <1>6, <1>7, <1>8, <1>9, <1>10, <1>11,
      <1>12, <1>13, <1>14, <1>15, <1>16, <1>17 DEF vars

LEMMA TypeStep ==
    ASSUME TypeOK, StartInv, [Next]_vars
    PROVE  TypeOK'
BY LabTyped, KernelTyped, OpTyped, CtrlTyped, WorkerTyped, SavedTyped, ToldTyped,
   AssignTyped, SubTyped, PendTyped, TroubleTyped, MarksTyped DEF TypeOK

-----------------------------------------------------------------------------
(* What the operations of the queue do to the fields the invariants read.  *)

LEMMA StartingEffect ==
    ASSUME TypeOK, NEW who \in {"user", "boot"}, NEW own \in BOOLEAN,
           Starting(who, own)
    PROVE  \/ op' = op /\ lab' = lab /\ assign' = assign
           \/ /\ op'.at = "arm" /\ op'.who = who /\ op'.own = own
              /\ op'.then \in {"rest", "activate"}
              /\ lab'.life \in {"running", "starting"}
              /\ lab.life \notin {"stopped", "pausing"}
              /\ op'.then = "activate" => lab'.life = "starting"
              /\ lab'.life # lab.life => lab'.life = "starting"
              /\ lab'.waiting = lab.waiting /\ lab'.inst = lab.inst
              /\ lab'.phase \in {lab.phase, "starting"}
              /\ lab'.named = lab.named
              /\ assign'.fresh => assign.fresh /\ lab' = lab
              /\ assign'.at = assign.at
<1>1. lab \in Labs /\ assign \in Assigns /\ NoOp \in Ops
  BY OpValues, AssignValues DEF TypeOK
<1>2. CASE op' = op /\ KeepLab
  BY <1>2 DEF KeepLab
<1>3. CASE /\ lab.life = "running" /\ KeepLab
           /\ op' = [NoOp EXCEPT !.at = "arm", !.who = who, !.own = own, !.then = "rest"]
  <2>1. op'.at = "arm" /\ op'.who = who /\ op'.own = own /\ op'.then = "rest"
    BY <1>3 DEF NoOp
  <2> QED BY <1>3, <2>1 DEF KeepLab
<1>4. CASE /\ lab.life \notin {"stopped", "pausing"}
           /\ op' = [NoOp EXCEPT !.at = "arm", !.who = who, !.own = own,
                                 !.then = "activate"]
           /\ IF lab.life = "starting" THEN KeepLab
              ELSE Transition([lab EXCEPT !.life = "starting",
                                 !.phase = IF @ = "none" THEN "starting" ELSE @])
  <2>1. op'.at = "arm" /\ op'.who = who /\ op'.own = own /\ op'.then = "activate"
    BY <1>4 DEF NoOp
  <2>2. CASE lab.life = "starting"
    BY <1>4, <2>1, <2>2 DEF KeepLab
  <2>3. CASE lab.life # "starting"
    <3>1. /\ lab' = [lab EXCEPT !.life = "starting",
                                !.phase = IF @ = "none" THEN "starting" ELSE @]
          /\ assign' = [assign EXCEPT !.fresh = FALSE]
      BY <1>4, <2>3 DEF Transition
    <3>2. /\ lab'.life = "starting" /\ lab'.waiting = lab.waiting
          /\ lab'.inst = lab.inst /\ lab'.named = lab.named
          /\ lab'.phase \in {lab.phase, "starting"}
      BY <1>1, <3>1 DEF Labs
    <3>3. ~assign'.fresh /\ assign'.at = assign.at
      BY <1>1, <3>1 DEF Assigns
    <3> QED BY <1>4, <2>1, <3>2, <3>3
  <2> QED BY <2>2, <2>3
<1> QED BY <1>2, <1>3, <1>4 DEF Starting, Startable, StaysStarted

LEMMA PausingEffect ==
    ASSUME TypeOK, NEW who \in {"user", "boot"}, NEW own \in BOOLEAN,
           NEW then \in {"done", "stop"}, Pausing(who, own, then)
    PROVE  \/ op' = op /\ lab' = lab /\ assign' = assign
           \/ /\ op'.at \in {"attach", "roles"} /\ op'.who = who /\ op'.own = own
              /\ lab.life \notin {"paused", "stopped"}
              /\ IF lab.life = "running" THEN lab'.life = "pausing" /\ ~assign'.fresh
                 ELSE lab' = lab /\ assign' = assign
              /\ lab'.waiting = lab.waiting /\ lab'.inst = lab.inst
              /\ lab'.phase = lab.phase /\ lab'.named = lab.named
              /\ assign'.at = assign.at
<1>1. lab \in Labs /\ assign \in Assigns /\ NoOp \in Ops
  BY OpValues, AssignValues DEF TypeOK
<1>2. CASE op' = op /\ KeepLab
  BY <1>2 DEF KeepLab
<1>3. ASSUME NEW at \in {"attach", "roles"}, lab.life \notin {"paused", "stopped"},
             op' = [NoOp EXCEPT !.who = who, !.own = own, !.then = then, !.at = at],
             IF lab.life = "running"
             THEN Transition([lab EXCEPT !.life = "pausing"]) ELSE KeepLab
      PROVE  /\ op'.at \in {"attach", "roles"} /\ op'.who = who /\ op'.own = own
             /\ IF lab.life = "running" THEN lab'.life = "pausing" /\ ~assign'.fresh
                ELSE lab' = lab /\ assign' = assign
             /\ lab'.waiting = lab.waiting /\ lab'.inst = lab.inst
             /\ lab'.phase = lab.phase /\ lab'.named = lab.named
             /\ assign'.at = assign.at
  <2>1. op'.at \in {"attach", "roles"} /\ op'.who = who /\ op'.own = own
    BY <1>3 DEF NoOp
  <2>2. CASE lab.life = "running"
    BY <1>1, <1>3, <2>1, <2>2 DEF Transition, Labs, Assigns
  <2>3. CASE lab.life # "running"
    BY <1>3, <2>1, <2>3 DEF KeepLab
  <2> QED BY <2>2, <2>3
<1>4. CASE ~(op' = op /\ KeepLab)
  <2> DEFINE at == IF lab.phase = "none" \/ worker.live THEN "roles" ELSE "attach"
  <2>1. /\ lab.life \notin {"paused", "stopped"}
        /\ op' = [NoOp EXCEPT !.who = who, !.own = own, !.then = then, !.at = at]
        /\ IF lab.life = "running"
           THEN Transition([lab EXCEPT !.life = "pausing"]) ELSE KeepLab
    BY <1>4 DEF Pausing
  <2>2. at \in {"attach", "roles"}
    OBVIOUS
  <2> HIDE DEF at
  <2> QED BY <1>3, <2>1, <2>2
<1> QED BY <1>2, <1>4

LEMMA ArmEffect ==
    ASSUME TypeOK, StartInv, Arm
    PROVE  /\ \/ op'.at = "apply" /\ op'.then = op.then /\ ~lab'.waiting
              \/ op'.at \in {"none", "rest", "replay"}
              \/ op'.at = "activate" /\ op.then = "activate"
           /\ op.at = "arm"
           /\ lab'.life = lab.life /\ lab'.inst = lab.inst /\ lab'.phase = lab.phase
           /\ lab'.waiting = lab.waiting \/ (~lab.waiting /\ ~lab'.waiting)
           /\ assign'.fresh => assign.fresh
           /\ assign'.at = assign.at
           /\ UNCHANGED <<ctrl, worker, marks>>
<1>1. lab \in Labs /\ assign \in Assigns /\ op \in Ops
  BY DEF TypeOK
<1>2. op.at = "arm" /\ op.then \in {"done", "activate", "rest", "replay"}
  BY <1>1 DEF Arm, StartInv, Ops
<1>3. UNCHANGED <<ctrl, worker, marks>>
  BY DEF Arm, KeepWorker
<1>4. Onward => \/ op'.at \in {"none", "rest", "replay"}
                \/ op'.at = "activate" /\ op.then = "activate"
  BY <1>1, <1>2 DEF Onward, Finish, NoOp, Goto, Ops
<1>5. CASE KeepLab /\ Onward
  BY <1>2, <1>3, <1>4, <1>5 DEF KeepLab
<1>6. CASE ArmNow /\ ~lab.waiting
  <2>1. lab' = Desired(lab) /\ assign' = [assign EXCEPT !.fresh = FALSE]
    BY <1>6 DEF ArmNow, Transition
  <2>2. /\ lab'.life = lab.life /\ lab'.inst = lab.inst /\ lab'.phase = lab.phase
        /\ ~lab'.waiting
    BY <1>1, <2>1 DEF Desired, Labs
  <2>3. ~assign'.fresh /\ assign'.at = assign.at
    BY <1>1, <2>1 DEF Assigns
  <2>4. CASE op.own
    <3>1. op'.at = "apply" /\ op'.then = op.then
      BY <1>1, <1>6, <2>4 DEF ArmNow, Goto, Ops
    <3> QED BY <1>2, <1>3, <1>6, <2>2, <2>3, <3>1
  <2>5. CASE ~op.own
    <3>1. Onward
      BY <1>6, <2>5 DEF ArmNow
    <3> QED BY <1>2, <1>3, <1>4, <1>6, <2>2, <2>3, <3>1
  <2> QED BY <2>4, <2>5
<1> QED BY <1>5, <1>6 DEF Arm

LEMMA ReplayEffect ==
    ASSUME TypeOK, Replay
    PROVE  /\ op'.at \in {"none", "wake"} /\ op.at = "replay"
           /\ UNCHANGED <<lab, assign, ctrl, worker>>
           /\ marks' = marks \ {"missed"}
<1>1. op \in Ops
  BY DEF TypeOK
<1>2. CASE Finish
  BY <1>2 DEF Replay, KeepLab, KeepWorker, Finish, NoOp
<1>3. CASE op' = [op EXCEPT !.at = "wake", !.asg = lab.receipt]
  <2>1. op'.at = "wake"
    BY <1>1, <1>3 DEF Ops
  <2> QED BY <2>1 DEF Replay, KeepLab, KeepWorker
<1> QED BY <1>2, <1>3 DEF Replay

LEMMA WakeEffect ==
    ASSUME TypeOK, Wake
    PROVE  /\ op.at = "wake"
           /\ \/ op'.at = "none" /\ lab' = lab /\ assign' = assign
              \/ op'.at = "deliver" /\ ~lab'.waiting
           /\ lab'.life = lab.life /\ lab'.inst = lab.inst /\ lab'.phase = lab.phase
           /\ lab'.named = lab.named
           /\ assign'.fresh => assign.fresh
           /\ assign'.at = assign.at
           /\ UNCHANGED <<ctrl, worker>>
           /\ marks \subseteq marks'
<1>1. lab \in Labs /\ assign \in Assigns /\ op \in Ops
  BY DEF TypeOK
<1>2. op.at = "wake" /\ UNCHANGED <<ctrl, worker>>
  BY DEF Wake, KeepWorker
<1>3. CASE Wakes(op.asg)
  <2>1. op' = [op EXCEPT !.at = "deliver", !.own = TRUE] /\ marks' = marks
    BY <1>3 DEF Wake
  <2>2. op'.at = "deliver"
    BY <1>1, <2>1 DEF Ops
  <2>3. CASE lab.waiting
    <3>1. lab' = [lab EXCEPT !.waiting = FALSE] /\ assign' = [assign EXCEPT !.fresh = FALSE]
      BY <1>3, <2>3 DEF Wake, Transition
    <3> QED BY <1>1, <1>2, <2>1, <2>2, <3>1 DEF Labs, Assigns
  <2>4. CASE ~lab.waiting
    <3>1. lab' = lab /\ assign' = assign
      BY <1>3, <2>4 DEF Wake, KeepLab
    <3> QED BY <1>2, <2>1, <2>2, <2>4, <3>1
  <2> QED BY <2>3, <2>4
<1>4. CASE ~Wakes(op.asg)
  <2>1. op' = NoOp /\ lab' = lab /\ assign' = assign /\ marks \subseteq marks'
    BY <1>4 DEF Wake, Finish, KeepLab
  <2> QED BY <1>2, <2>1 DEF NoOp
<1> QED BY <1>3, <1>4

LEMMA ApplyEffect ==
    ASSUME TypeOK, StartInv, Apply
    PROVE  /\ \/ op'.at \in {"none", "rest", "replay"}
              \/ op'.at \in {"activate", "fail"} /\ op.then = "activate"
           /\ op.at = "apply" /\ lab'.life = lab.life
<1>1. lab \in Labs /\ op \in Ops
  BY DEF TypeOK
<1>2. op.at = "apply" /\ op.then \in {"done", "activate", "rest", "replay"}
  BY <1>1 DEF Apply, StartInv, Ops
<1>3. Onward => \/ op'.at \in {"none", "rest", "replay"}
                \/ op'.at = "activate" /\ op.then = "activate"
  BY <1>1, <1>2 DEF Onward, Finish, NoOp, Goto, Ops
<1>4. Throw => op'.at = "none" \/ (op'.at = "fail" /\ op.then = "activate")
  BY <1>1 DEF Throw, Finish, NoOp, Goto, Ops
<1>5. lab'.life = lab.life
  BY <1>1 DEF Apply, Transition, KeepLab, Labs
<1>6. Onward \/ Throw
  BY DEF Apply
<1> QED BY <1>2, <1>3, <1>4, <1>5, <1>6

(* What enters the queue other than by a command.                          *)
LEMMA EntryEffect ==
    ASSUME TypeOK
    PROVE  /\ Reconcile => op.at = "none" /\ op'.at \in {"none", "arm"}
           /\ Notify => /\ op' = op \/ op'.at = "wake"
                        /\ UNCHANGED <<lab, ctrl, worker>> /\ marks \subseteq marks'
<1>1. NoOp.at = "none"
  BY DEF NoOp
<1>2. Reconcile => op.at = "none" /\ op'.at \in {"none", "arm"}
  <2>1. [NoOp EXCEPT !.at = "arm", !.who = "attach", !.own = pend.attach = "own",
                     !.then = "replay"].at = "arm"
    BY DEF NoOp
  <2> QED BY <1>1, <2>1 DEF Reconcile
<1>3. Notify => /\ op' = op \/ op'.at = "wake"
                /\ UNCHANGED <<lab, ctrl, worker>> /\ marks \subseteq marks'
  <2>1. [NoOp EXCEPT !.at = "wake", !.who = "event", !.asg = sub.asg].at = "wake"
    BY DEF NoOp
  <2> QED BY <2>1 DEF Notify, KeepLab
<1> QED BY <1>2, <1>3

-----------------------------------------------------------------------------
(* The inductive invariant, one part at a time.                            *)

LEMMA StartInvStep ==
    ASSUME TypeOK, StartInv, [Next]_vars
    PROVE  StartInv'
<1>0. lab \in Labs /\ op \in Ops
  BY DEF TypeOK
<1>1. CASE Arm
  BY <1>0, <1>1, ArmEffect DEF StartInv, Labs, Ops
<1>2. CASE Apply
  BY <1>0, <1>2, ApplyEffect DEF StartInv, Labs, Ops
<1>3. CASE ApplyInVain
  BY <1>0, <1>3 DEF ApplyInVain, KeepLab, Throw, Goto, Finish, NoOp, StartInv,
      Labs, Ops
<1>4. CASE Activate
  BY <1>0, <1>4 DEF Activate, Aborted, Open, Transition, Staged, Goto,
      StartInv, Labs, Ops
<1>5. CASE ActivationBlocked
  BY <1>0, <1>5 DEF ActivationBlocked, Aborted, Open, Transition, Goto,
      StartInv, Labs, Ops
<1>6. CASE ActivationFails
  BY <1>0, <1>6 DEF ActivationFails, Aborted, Open, KeepLab, Goto, StartInv,
      Labs, Ops
<1>7. CASE Run
  BY <1>0, <1>7 DEF Run, Transition, Goto, StartInv, Labs, Ops
<1>8. CASE Rest
  BY <1>0, <1>8 DEF Rest, KeepLab, Finish, NoOp, StartInv, Labs, Ops
<1>9. CASE StartFails
  BY <1>0, <1>9 DEF StartFails, Transition, Finish, NoOp, StartInv, Labs, Ops
<1>10. CASE PauseAttaches
  BY <1>0, <1>10 DEF PauseAttaches, Aborted, Open, KeepLab, Goto, StartInv,
      Labs, Ops
<1>11. CASE PauseAttachFails
  BY <1>0, <1>11 DEF PauseAttachFails, Aborted, Open, Transition, Finish,
      NoOp, StartInv, Labs, Ops
<1>12. CASE PauseRoles
  BY <1>0, <1>12 DEF PauseRoles, Aborted, Open, KeepLab, Goto, StartInv, Labs,
      Ops
<1>13. CASE PauseController
  BY <1>0, <1>13 DEF PauseController, MayPause, Transition, Open, Finish,
      NoOp, StartInv, Labs, Ops
<1>14. CASE Replay
  BY <1>0, <1>14, ReplayEffect DEF StartInv, Labs, Ops
<1>15. CASE Wake
  BY <1>0, <1>15, WakeEffect DEF StartInv, Labs, Ops
<1>16. CASE Deliver
  BY <1>0, <1>16 DEF Deliver, KeepLab, Transition, AtRest, Finish, NoOp,
      StartInv, Labs, Ops
<1>17. CASE DeliverInVain
  BY <1>0, <1>17 DEF DeliverInVain, KeepLab, Finish, NoOp, StartInv, Labs, Ops
<1>18. CASE StopEnds
  BY <1>0, <1>18 DEF StopEnds, NoOp, Transition, KeepLab, StartInv, Labs, Ops
<1>19. CASE ResumeStarts
  BY <1>0, <1>19, StartingEffect DEF ResumeStarts, NoOp, Open, KeepLab,
      StartInv, Labs, Ops
<1>20. CASE Reconcile
  BY ZenonT(60), <1>0, <1>20 DEF Reconcile, NoOp, Surveyed, KeepLab, Transition, StartInv,
      Labs, Ops
<1>21. CASE Survey
  BY <1>0, <1>21 DEF Survey, Open, KeepLab, StartInv, Labs, Ops
<1>22. CASE Recover
  BY <1>0, <1>22, StartingEffect, PausingEffect DEF Recover, Surveyed, NoOp,
      Open, KeepLab, StartInv, Labs, Ops
<1>23. CASE Start
  BY <1>0, <1>23, StartingEffect DEF Start, NoOp, KeepLab, StartInv, Labs, Ops
<1>24. CASE Pause
  BY <1>0, <1>24, PausingEffect DEF Pause, Commanded, NoOp, KeepLab, StartInv,
      Labs, Ops
<1>25. CASE Stop
  BY <1>0, <1>25 DEF Stop, Commanded, Open, NoOp, Surveyed, KeepLab, StartInv,
      Labs, Ops
<1>26. CASE WaitController
  BY <1>0, <1>26 DEF WaitController, Commanded, Open, NoOp, Surveyed,
      Transition, KeepLab, StartInv, Labs, Ops
<1>27. CASE Resume
  BY <1>0, <1>27 DEF Resume, Commanded, Open, NoOp, Surveyed, Startable,
      Transition, StartInv, Labs, Ops
<1>28. CASE AssignNew
  BY <1>0, <1>28 DEF AssignNew, CanAssign, Commanded, Open, NoOp, Surveyed,
      NoAssign, StartInv, Labs, Ops
<1>29. CASE AssignAgain
  BY <1>0, <1>29 DEF AssignAgain, CanAssign, Commanded, Open, NoOp, Surveyed,
      NoAssign, StartInv, Labs, Ops
<1>30. CASE InstallAssigned
  BY <1>0, <1>30 DEF InstallAssigned, NoAssign, StartInv, Labs, Ops
<1>31. CASE InstallFails
  BY <1>0, <1>31 DEF InstallFails, NoAssign, StartInv, Labs, Ops
<1>32. CASE CommitAssigned
  BY <1>0, <1>32 DEF CommitAssigned, NoOp, Open, NoAssign, StartInv, Labs, Ops
<1>33. CASE Submit
  BY <1>0, <1>33 DEF Submit, Open, NoOp, NoSub, KeepLab, StartInv, Labs, Ops
<1>34. CASE SubmitAgain
  BY <1>0, <1>34 DEF SubmitAgain, Open, NoOp, NoSub, KeepLab, StartInv, Labs,
      Ops
<1>35. CASE Record
  BY <1>0, <1>35 DEF Record, NoOp, Open, Transition, NoSub, KeepLab, StartInv,
      Labs, Ops
<1>36. CASE Notify
  BY ZenonT(60), <1>0, <1>36 DEF Notify, NoOp, Open, NoSub, KeepLab, StartInv, Labs, Ops
<1>37. CASE Attach
  BY <1>0, <1>37 DEF Attach, Open, KeepLab, StartInv, Labs, Ops
<1>38. CASE Detach
  BY <1>0, <1>38 DEF Detach, Reloaded, Stale, KeepLab, StartInv, Labs, Ops
<1>39. CASE Boot
  BY <1>0, <1>39 DEF Boot, NoPend, KeepLab, StartInv, Labs, Ops
<1>40. CASE Close
  BY <1>0, <1>40 DEF Close, Open, KeepLab, StartInv, Labs, Ops
<1>41. CASE Shutdown
  BY <1>0, <1>41 DEF Shutdown, NoOp, NoPend, Reloaded, NoAssign, NoSub,
      StartInv, Labs, Ops
<1>42. CASE Crash
  BY <1>0, <1>42 DEF Crash, Reloaded, NoOp, NoPend, NoAssign, NoSub, StartInv,
      Labs, Ops
<1>43. CASE Disturb
  BY <1>0, <1>43 DEF Disturb, Open, NoOp, Transition, StartInv, Labs, Ops
<1>44. CASE UNCHANGED vars
  BY <1>44 DEF vars, StartInv
<1> QED
  BY <1>1, <1>2, <1>3, <1>4, <1>5, <1>6, <1>7, <1>8, <1>9, <1>10, <1>11,
      <1>12, <1>13, <1>14, <1>15, <1>16, <1>17, <1>18, <1>19, <1>20, <1>21,
      <1>22, <1>23, <1>24, <1>25, <1>26, <1>27, <1>28, <1>29, <1>30, <1>31,
      <1>32, <1>33, <1>34, <1>35, <1>36, <1>37, <1>38, <1>39, <1>40, <1>41,
      <1>42, <1>43, <1>44 DEF Next, Operate, Follow, Command, Work,
      Environment

LEMMA WaitInvStep ==
    ASSUME TypeOK, StartInv, WaitInv, [Next]_vars
    PROVE  WaitInv'
<1>0. lab \in Labs /\ op \in Ops /\ ctrl \in Controllers
  BY DEF TypeOK
<1>1. CASE Arm
  BY <1>0, <1>1, ArmEffect DEF WaitInv, Labs, Ops, Controllers
<1>2. CASE Apply
  BY <1>0, <1>2 DEF Apply, Transition, KeepLab, Onward, Finish, NoOp, Goto,
      Throw, WaitInv, Labs, Ops, Controllers
<1>3. CASE ApplyInVain
  BY <1>0, <1>3 DEF ApplyInVain, KeepLab, Throw, Goto, Finish, NoOp, WaitInv,
      Labs, Ops, Controllers
<1>4. CASE Activate
  BY <1>0, <1>4 DEF Activate, Aborted, Open, Transition, Staged, Goto,
      WaitInv, Labs, Ops, Controllers
<1>5. CASE ActivationBlocked
  BY <1>0, <1>5 DEF ActivationBlocked, Aborted, Open, Transition, Goto,
      WaitInv, Labs, Ops, Controllers
<1>6. CASE ActivationFails
  BY <1>0, <1>6 DEF ActivationFails, Aborted, Open, KeepLab, Goto, WaitInv,
      Labs, Ops, Controllers
<1>7. CASE Run
  BY <1>0, <1>7 DEF Run, Transition, Goto, WaitInv, Labs, Ops, Controllers
<1>8. CASE Rest
  BY <1>0, <1>8 DEF Rest, KeepLab, Finish, NoOp, WaitInv, Labs, Ops,
      Controllers
<1>9. CASE StartFails
  BY <1>0, <1>9 DEF StartFails, Transition, Finish, NoOp, WaitInv, Labs, Ops,
      Controllers
<1>10. CASE PauseAttaches
  BY <1>0, <1>10 DEF PauseAttaches, Aborted, Open, KeepLab, Goto, WaitInv,
      Labs, Ops, Controllers
<1>11. CASE PauseAttachFails
  BY <1>0, <1>11 DEF PauseAttachFails, Aborted, Open, Transition, Finish,
      NoOp, WaitInv, Labs, Ops, Controllers
<1>12. CASE PauseRoles
  BY <1>0, <1>12 DEF PauseRoles, Aborted, Open, KeepLab, Goto, WaitInv, Labs,
      Ops, Controllers
<1>13. CASE PauseController
  BY <1>0, <1>13 DEF PauseController, MayPause, Transition, Open, Finish,
      NoOp, WaitInv, Labs, Ops, Controllers
<1>14. CASE Replay
  BY <1>0, <1>14, ReplayEffect DEF WaitInv, Labs, Ops, Controllers
<1>15. CASE Wake
  BY <1>0, <1>15, WakeEffect DEF WaitInv, Labs, Ops, Controllers
<1>16. CASE Deliver
  BY <1>0, <1>16 DEF Deliver, KeepLab, Transition, AtRest, Finish, NoOp,
      WaitInv, Labs, Ops, Controllers
<1>17. CASE DeliverInVain
  BY <1>0, <1>17 DEF DeliverInVain, KeepLab, Finish, NoOp, WaitInv, Labs, Ops,
      Controllers
<1>18. CASE StopEnds
  BY <1>0, <1>18 DEF StopEnds, NoOp, Transition, KeepLab, WaitInv, Labs, Ops,
      Controllers
<1>19. CASE ResumeStarts
  BY <1>0, <1>19, StartingEffect DEF ResumeStarts, NoOp, Open, KeepLab,
      WaitInv, Labs, Ops, Controllers
<1>20. CASE Reconcile
  BY ZenonT(60), <1>0, <1>20 DEF Reconcile, NoOp, Surveyed, KeepLab, Transition, WaitInv,
      Labs, Ops, Controllers
<1>21. CASE Survey
  BY <1>0, <1>21 DEF Survey, Open, KeepLab, WaitInv, Labs, Ops, Controllers
<1>22. CASE Recover
  BY <1>0, <1>22, StartingEffect, PausingEffect DEF Recover, Surveyed, NoOp,
      Open, KeepLab, WaitInv, Labs, Ops, Controllers
<1>23. CASE Start
  BY <1>0, <1>23, StartingEffect DEF Start, NoOp, KeepLab, WaitInv, Labs, Ops,
      Controllers
<1>24. CASE Pause
  BY <1>0, <1>24, PausingEffect DEF Pause, Commanded, NoOp, KeepLab, WaitInv,
      Labs, Ops, Controllers
<1>25. CASE Stop
  BY <1>0, <1>25 DEF Stop, Commanded, Open, NoOp, Surveyed, KeepLab, WaitInv,
      Labs, Ops, Controllers
<1>26. CASE WaitController
  BY <1>0, <1>26 DEF WaitController, Commanded, Open, NoOp, Surveyed,
      Transition, KeepLab, WaitInv, Labs, Ops, Controllers
<1>27. CASE Resume
  BY <1>0, <1>27 DEF Resume, Commanded, Open, NoOp, Surveyed, Startable,
      Transition, WaitInv, Labs, Ops, Controllers
<1>28. CASE AssignNew
  BY <1>0, <1>28 DEF AssignNew, CanAssign, Commanded, Open, NoOp, Surveyed,
      NoAssign, WaitInv, Labs, Ops, Controllers
<1>29. CASE AssignAgain
  BY <1>0, <1>29 DEF AssignAgain, CanAssign, Commanded, Open, NoOp, Surveyed,
      NoAssign, WaitInv, Labs, Ops, Controllers
<1>30. CASE InstallAssigned
  BY <1>0, <1>30 DEF InstallAssigned, NoAssign, WaitInv, Labs, Ops,
      Controllers
<1>31. CASE InstallFails
  BY <1>0, <1>31 DEF InstallFails, NoAssign, WaitInv, Labs, Ops, Controllers
<1>32. CASE CommitAssigned
  BY <1>0, <1>32 DEF CommitAssigned, NoOp, Open, NoAssign, WaitInv, Labs, Ops,
      Controllers
<1>33. CASE Submit
  BY <1>0, <1>33 DEF Submit, Open, NoOp, NoSub, KeepLab, WaitInv, Labs, Ops,
      Controllers
<1>34. CASE SubmitAgain
  BY <1>0, <1>34 DEF SubmitAgain, Open, NoOp, NoSub, KeepLab, WaitInv, Labs,
      Ops, Controllers
<1>35. CASE Record
  BY <1>0, <1>35 DEF Record, NoOp, Open, Transition, NoSub, KeepLab, WaitInv,
      Labs, Ops, Controllers
<1>36. CASE Notify
  BY ZenonT(60), <1>0, <1>36 DEF Notify, NoOp, Open, NoSub, KeepLab, WaitInv, Labs, Ops,
      Controllers
<1>37. CASE Attach
  BY <1>0, <1>37 DEF Attach, Open, KeepLab, WaitInv, Labs, Ops, Controllers
<1>38. CASE Detach
  BY <1>0, <1>38 DEF Detach, Reloaded, Stale, KeepLab, WaitInv, Labs, Ops,
      Controllers
<1>39. CASE Boot
  BY <1>0, <1>39 DEF Boot, NoPend, KeepLab, WaitInv, Labs, Ops, Controllers
<1>40. CASE Close
  BY <1>0, <1>40 DEF Close, Open, KeepLab, WaitInv, Labs, Ops, Controllers
<1>41. CASE Shutdown
  BY <1>0, <1>41 DEF Shutdown, NoOp, NoPend, Reloaded, NoAssign, NoSub,
      WaitInv, Labs, Ops, Controllers
<1>42. CASE Crash
  BY <1>0, <1>42 DEF Crash, Reloaded, NoOp, NoPend, NoAssign, NoSub, WaitInv,
      Labs, Ops, Controllers
<1>43. CASE Disturb
  BY <1>0, <1>43 DEF Disturb, Open, NoOp, Transition, WaitInv, Labs, Ops,
      Controllers
<1>44. CASE UNCHANGED vars
  BY <1>44 DEF vars, WaitInv
<1> QED
  BY <1>1, <1>2, <1>3, <1>4, <1>5, <1>6, <1>7, <1>8, <1>9, <1>10, <1>11,
      <1>12, <1>13, <1>14, <1>15, <1>16, <1>17, <1>18, <1>19, <1>20, <1>21,
      <1>22, <1>23, <1>24, <1>25, <1>26, <1>27, <1>28, <1>29, <1>30, <1>31,
      <1>32, <1>33, <1>34, <1>35, <1>36, <1>37, <1>38, <1>39, <1>40, <1>41,
      <1>42, <1>43, <1>44 DEF Next, Operate, Follow, Command, Work,
      Environment

LEMMA PauseInvStep ==
    ASSUME TypeOK, StartInv, PauseInv, WaitInv, AssignInv, [Next]_vars
    PROVE  PauseInv'
<1>0. lab \in Labs /\ op \in Ops /\ ctrl \in Controllers /\ worker \in Workers
  BY DEF TypeOK
<1>1. CASE Arm
  BY <1>0, <1>1, ArmEffect DEF PauseInv, StartInv, AssignInv, WaitInv, Labs,
      Ops, Controllers, Workers
<1>2. CASE Apply
  BY <1>0, <1>2 DEF Apply, Transition, KeepLab, Onward, Finish, NoOp, Goto,
      Throw, PauseInv, StartInv, AssignInv, WaitInv, Labs, Ops, Controllers,
      Workers
<1>3. CASE ApplyInVain
  BY <1>0, <1>3 DEF ApplyInVain, KeepLab, Throw, Goto, Finish, NoOp,
      KeepWorker, PauseInv, StartInv, AssignInv, WaitInv, Labs, Ops,
      Controllers, Workers
<1>4. CASE Activate
  BY <1>0, <1>4 DEF Activate, Aborted, Open, Transition, Staged, Goto,
      PauseInv, StartInv, AssignInv, WaitInv, Labs, Ops, Controllers, Workers
<1>5. CASE ActivationBlocked
  BY <1>0, <1>5 DEF ActivationBlocked, Aborted, Open, Transition, Goto,
      RestWorker, WorkerGoal, PauseInv, StartInv, AssignInv, WaitInv, Labs,
      Ops, Controllers, Workers
<1>6. CASE ActivationFails
  BY <1>0, <1>6 DEF ActivationFails, Aborted, Open, KeepLab, Goto, PauseInv,
      StartInv, AssignInv, WaitInv, Labs, Ops, Controllers, Workers
<1>7. CASE Run
  BY <1>0, <1>7 DEF Run, Transition, Goto, InstallWorker, WorkerGoal,
      KeepWorker, PauseInv, StartInv, AssignInv, WaitInv, Labs, Ops,
      Controllers, Workers
<1>8. CASE Rest
  BY <1>0, <1>8 DEF Rest, KeepLab, Finish, NoOp, RestWorker, WorkerGoal,
      KeepWorker, PauseInv, StartInv, AssignInv, WaitInv, Labs, Ops,
      Controllers, Workers
<1>9. CASE StartFails
  BY <1>0, <1>9 DEF StartFails, Transition, Finish, NoOp, RestWorker,
      WorkerGoal, PauseInv, StartInv, AssignInv, WaitInv, Labs, Ops,
      Controllers, Workers
<1>10. CASE PauseAttaches
  BY <1>0, <1>10 DEF PauseAttaches, Aborted, Open, KeepLab, Goto, PauseInv,
      StartInv, AssignInv, WaitInv, Labs, Ops, Controllers, Workers
<1>11. CASE PauseAttachFails
  BY <1>0, <1>11 DEF PauseAttachFails, Aborted, Open, Transition, Finish,
      NoOp, PauseInv, StartInv, AssignInv, WaitInv, Labs, Ops, Controllers,
      Workers
<1>12. CASE PauseRoles
  BY ZenonT(60), <1>0, <1>12 DEF PauseRoles, Aborted, Open, KeepLab, Goto, RestWorker,
      WorkerGoal, KeepWorker, PauseInv, StartInv, AssignInv, WaitInv, Labs,
      Ops, Controllers, Workers
<1>13. CASE PauseController
  BY <1>0, <1>13 DEF PauseController, MayPause, Transition, Open, Finish,
      NoOp, PauseInv, StartInv, AssignInv, WaitInv, Labs, Ops, Controllers,
      Workers
<1>14. CASE Replay
  BY <1>0, <1>14, ReplayEffect DEF PauseInv, StartInv, AssignInv, WaitInv,
      Labs, Ops, Controllers, Workers
<1>15. CASE Wake
  BY <1>0, <1>15, WakeEffect DEF PauseInv, StartInv, AssignInv, WaitInv, Labs,
      Ops, Controllers, Workers
<1>16. CASE Deliver
  BY <1>0, <1>16 DEF Deliver, KeepLab, Transition, AtRest, Finish, NoOp,
      PauseInv, StartInv, AssignInv, WaitInv, Labs, Ops, Controllers, Workers
<1>17. CASE DeliverInVain
  BY <1>0, <1>17 DEF DeliverInVain, KeepLab, Finish, NoOp, KeepWorker,
      PauseInv, StartInv, AssignInv, WaitInv, Labs, Ops, Controllers, Workers
<1>18. CASE StopEnds
  BY <1>0, <1>18 DEF StopEnds, NoOp, Transition, KeepLab, KeepWorker,
      PauseInv, StartInv, AssignInv, WaitInv, Labs, Ops, Controllers, Workers
<1>19. CASE ResumeStarts
  BY <1>0, <1>19, StartingEffect DEF ResumeStarts, NoOp, Open, KeepLab,
      KeepWorker, PauseInv, StartInv, AssignInv, WaitInv, Labs, Ops,
      Controllers, Workers
<1>20. CASE Reconcile
  <2>1. op.at = "none" /\ op'.at \in {"none", "arm"}
    BY <1>20, EntryEffect
  <2> QED BY <2>1 DEF PauseInv
<1>21. CASE Survey
  BY <1>0, <1>21 DEF Survey, Open, KeepLab, KeepWorker, PauseInv, StartInv,
      AssignInv, WaitInv, Labs, Ops, Controllers, Workers
<1>22. CASE Recover
  <2>1. op.at = "none" /\ (Starting("boot", FALSE) \/ Pausing("boot", FALSE, "done"))
    BY <1>22 DEF Recover, NoOp
  <2>2. \/ op'.at \in {"none", "arm"}
        \/ /\ op'.at \in {"attach", "roles"} /\ op'.who = "boot"
           /\ lab.life \notin {"paused", "stopped"}
           /\ IF lab.life = "running" THEN lab'.life = "pausing" ELSE lab' = lab
    BY <2>1, StartingEffect, PausingEffect
  <2> QED BY <1>0, <2>2 DEF PauseInv, Labs, Lifecycles
<1>23. CASE Start
  BY <1>0, <1>23, StartingEffect DEF Start, NoOp, KeepLab, KeepWorker,
      PauseInv, StartInv, AssignInv, WaitInv, Labs, Ops, Controllers, Workers
<1>24. CASE Pause
  <2>1. PICK then \in {"done", "stop"} : Pausing("user", TRUE, then)
    BY <1>24 DEF Pause
  <2>2. op.at = "none"
    BY <1>24 DEF Pause, Commanded, NoOp
  <2>3. \/ op'.at = "none"
        \/ /\ op'.at \in {"attach", "roles"} /\ op'.who = "user" /\ op'.own = TRUE
           /\ lab.life \notin {"paused", "stopped"}
           /\ IF lab.life = "running" THEN lab'.life = "pausing" ELSE lab' = lab
    BY <2>1, <2>2, PausingEffect
  <2> QED BY <1>0, <2>3 DEF PauseInv, Labs, Lifecycles
<1>25. CASE Stop
  BY <1>0, <1>25 DEF Stop, Commanded, Open, NoOp, Surveyed, KeepLab,
      KeepWorker, PauseInv, StartInv, AssignInv, WaitInv, Labs, Ops,
      Controllers, Workers
<1>26. CASE WaitController
  BY <1>0, <1>26 DEF WaitController, Commanded, Open, NoOp, Surveyed,
      Transition, KeepLab, PauseInv, StartInv, AssignInv, WaitInv, Labs, Ops,
      Controllers, Workers
<1>27. CASE Resume
  BY <1>0, <1>27 DEF Resume, Commanded, Open, NoOp, Surveyed, Startable,
      Transition, KeepWorker, PauseInv, StartInv, AssignInv, WaitInv, Labs,
      Ops, Controllers, Workers
<1>28. CASE AssignNew
  BY <1>0, <1>28 DEF AssignNew, CanAssign, Commanded, Open, NoOp, Surveyed,
      NoAssign, KeepWorker, PauseInv, StartInv, AssignInv, WaitInv, Labs, Ops,
      Controllers, Workers
<1>29. CASE AssignAgain
  BY <1>0, <1>29 DEF AssignAgain, CanAssign, Commanded, Open, NoOp, Surveyed,
      NoAssign, KeepWorker, PauseInv, StartInv, AssignInv, WaitInv, Labs, Ops,
      Controllers, Workers
<1>30. CASE InstallAssigned
  BY <1>0, <1>30 DEF InstallAssigned, NoAssign, WorkerGoal, PauseInv,
      StartInv, AssignInv, WaitInv, Labs, Ops, Controllers, Workers
<1>31. CASE InstallFails
  BY <1>0, <1>31 DEF InstallFails, NoAssign, KeepWorker, PauseInv, StartInv,
      AssignInv, WaitInv, Labs, Ops, Controllers, Workers
<1>32. CASE CommitAssigned
  BY <1>0, <1>32 DEF CommitAssigned, NoOp, Open, NoAssign, KeepWorker,
      PauseInv, StartInv, AssignInv, WaitInv, Labs, Ops, Controllers, Workers
<1>33. CASE Submit
  BY <1>0, <1>33 DEF Submit, Open, NoOp, NoSub, KeepLab, PauseInv, StartInv,
      AssignInv, WaitInv, Labs, Ops, Controllers, Workers
<1>34. CASE SubmitAgain
  BY <1>0, <1>34 DEF SubmitAgain, Open, NoOp, NoSub, KeepLab, PauseInv,
      StartInv, AssignInv, WaitInv, Labs, Ops, Controllers, Workers
<1>35. CASE Record
  BY <1>0, <1>35 DEF Record, NoOp, Open, Transition, NoSub, KeepLab, PauseInv,
      StartInv, AssignInv, WaitInv, Labs, Ops, Controllers, Workers
<1>36. CASE Notify
  BY <1>0, <1>36, EntryEffect DEF PauseInv, StartInv, AssignInv, WaitInv,
      Labs, Ops, Controllers, Workers
<1>37. CASE Attach
  BY <1>0, <1>37 DEF Attach, Open, KeepLab, KeepWorker, PauseInv, StartInv,
      AssignInv, WaitInv, Labs, Ops, Controllers, Workers
<1>38. CASE Detach
  BY <1>0, <1>38 DEF Detach, Reloaded, Stale, KeepLab, KeepWorker, PauseInv,
      StartInv, AssignInv, WaitInv, Labs, Ops, Controllers, Workers
<1>39. CASE Boot
  BY <1>0, <1>39 DEF Boot, NoPend, KeepLab, KeepWorker, PauseInv, StartInv,
      AssignInv, WaitInv, Labs, Ops, Controllers, Workers
<1>40. CASE Close
  BY <1>0, <1>40 DEF Close, Open, KeepLab, KeepWorker, PauseInv, StartInv,
      AssignInv, WaitInv, Labs, Ops, Controllers, Workers
<1>41. CASE Shutdown
  BY <1>0, <1>41 DEF Shutdown, NoOp, NoPend, Reloaded, NoAssign, NoSub,
      PauseInv, StartInv, AssignInv, WaitInv, Labs, Ops, Controllers, Workers
<1>42. CASE Crash
  BY <1>0, <1>42 DEF Crash, Reloaded, NoOp, NoPend, NoAssign, NoSub, PauseInv,
      StartInv, AssignInv, WaitInv, Labs, Ops, Controllers, Workers
<1>43. CASE Disturb
  BY <1>0, <1>43 DEF Disturb, Open, NoOp, Transition, KeepWorker, PauseInv,
      StartInv, AssignInv, WaitInv, Labs, Ops, Controllers, Workers
<1>44. CASE UNCHANGED vars
  BY <1>44 DEF vars, PauseInv
<1> QED
  BY <1>1, <1>2, <1>3, <1>4, <1>5, <1>6, <1>7, <1>8, <1>9, <1>10, <1>11,
      <1>12, <1>13, <1>14, <1>15, <1>16, <1>17, <1>18, <1>19, <1>20, <1>21,
      <1>22, <1>23, <1>24, <1>25, <1>26, <1>27, <1>28, <1>29, <1>30, <1>31,
      <1>32, <1>33, <1>34, <1>35, <1>36, <1>37, <1>38, <1>39, <1>40, <1>41,
      <1>42, <1>43, <1>44 DEF Next, Operate, Follow, Command, Work,
      Environment

LEMMA AssignInvStep ==
    ASSUME TypeOK, StartInv, AssignInv, [Next]_vars
    PROVE  AssignInv'
<1>0. lab \in Labs /\ assign \in Assigns /\ worker \in Workers
  BY DEF TypeOK
<1>1. CASE Arm
  BY <1>0, <1>1, ArmEffect DEF AssignInv, Labs, Assigns, Workers
<1>2. CASE Apply
  BY <1>0, <1>2 DEF Apply, Transition, KeepLab, AssignInv, Labs, Assigns,
      Workers
<1>3. CASE ApplyInVain
  BY <1>0, <1>3 DEF ApplyInVain, KeepLab, KeepWorker, AssignInv, Labs,
      Assigns, Workers
<1>4. CASE Activate
  BY <1>0, <1>4 DEF Activate, Aborted, Open, Transition, Staged, AssignInv,
      Labs, Assigns, Workers
<1>5. CASE ActivationBlocked
  BY <1>0, <1>5 DEF ActivationBlocked, Aborted, Open, Transition, RestWorker,
      WorkerGoal, AssignInv, Labs, Assigns, Workers
<1>6. CASE ActivationFails
  BY <1>0, <1>6 DEF ActivationFails, Aborted, Open, KeepLab, AssignInv, Labs,
      Assigns, Workers
<1>7. CASE Run
  BY <1>0, <1>7 DEF Run, Transition, InstallWorker, WorkerGoal, KeepWorker,
      AssignInv, Labs, Assigns, Workers
<1>8. CASE Rest
  BY <1>0, <1>8 DEF Rest, KeepLab, RestWorker, WorkerGoal, KeepWorker,
      AssignInv, Labs, Assigns, Workers
<1>9. CASE StartFails
  BY <1>0, <1>9 DEF StartFails, Transition, RestWorker, WorkerGoal, AssignInv,
      Labs, Assigns, Workers
<1>10. CASE PauseAttaches
  BY <1>0, <1>10 DEF PauseAttaches, Aborted, Open, KeepLab, AssignInv, Labs,
      Assigns, Workers
<1>11. CASE PauseAttachFails
  BY <1>0, <1>11 DEF PauseAttachFails, Aborted, Open, Transition, AssignInv,
      Labs, Assigns, Workers
<1>12. CASE PauseRoles
  BY <1>0, <1>12 DEF PauseRoles, Aborted, Open, KeepLab, RestWorker,
      WorkerGoal, KeepWorker, AssignInv, Labs, Assigns, Workers
<1>13. CASE PauseController
  BY <1>0, <1>13 DEF PauseController, MayPause, Transition, Open, AssignInv,
      Labs, Assigns, Workers
<1>14. CASE Replay
  BY <1>0, <1>14, ReplayEffect DEF AssignInv, Labs, Assigns, Workers
<1>15. CASE Wake
  BY <1>0, <1>15, WakeEffect DEF AssignInv, Labs, Assigns, Workers
<1>16. CASE Deliver
  BY <1>0, <1>16 DEF Deliver, KeepLab, Transition, AtRest, AssignInv, Labs,
      Assigns, Workers
<1>17. CASE DeliverInVain
  BY <1>0, <1>17 DEF DeliverInVain, KeepLab, KeepWorker, AssignInv, Labs,
      Assigns, Workers
<1>18. CASE StopEnds
  BY <1>0, <1>18 DEF StopEnds, NoOp, Transition, KeepLab, KeepWorker,
      AssignInv, Labs, Assigns, Workers
<1>19. CASE ResumeStarts
  BY <1>0, <1>19, StartingEffect DEF ResumeStarts, NoOp, Open, KeepLab,
      KeepWorker, AssignInv, Labs, Assigns, Workers
<1>20. CASE Reconcile
  BY <1>0, <1>20 DEF Reconcile, NoOp, Surveyed, KeepLab, Transition,
      AssignInv, Labs, Assigns, Workers
<1>21. CASE Survey
  BY <1>0, <1>21 DEF Survey, Open, KeepLab, KeepWorker, AssignInv, Labs,
      Assigns, Workers
<1>22. CASE Recover
  BY <1>0, <1>22, StartingEffect, PausingEffect DEF Recover, Surveyed, NoOp,
      Open, KeepLab, KeepWorker, AssignInv, Labs, Assigns, Workers
<1>23. CASE Start
  BY <1>0, <1>23, StartingEffect DEF Start, NoOp, KeepLab, KeepWorker,
      AssignInv, Labs, Assigns, Workers
<1>24. CASE Pause
  BY <1>0, <1>24, PausingEffect DEF Pause, Commanded, NoOp, KeepLab,
      KeepWorker, AssignInv, Labs, Assigns, Workers
<1>25. CASE Stop
  BY <1>0, <1>25 DEF Stop, Commanded, Open, NoOp, Surveyed, KeepLab,
      KeepWorker, AssignInv, Labs, Assigns, Workers
<1>26. CASE WaitController
  BY <1>0, <1>26 DEF WaitController, Commanded, Open, NoOp, Surveyed,
      Transition, KeepLab, AssignInv, Labs, Assigns, Workers
<1>27. CASE Resume
  BY <1>0, <1>27 DEF Resume, Commanded, Open, NoOp, Surveyed, Startable,
      Transition, KeepWorker, AssignInv, Labs, Assigns, Workers
<1>28. CASE AssignNew
  BY <1>0, <1>28 DEF AssignNew, CanAssign, Commanded, Open, NoOp, Surveyed,
      NoAssign, KeepWorker, AssignInv, Labs, Assigns, Workers
<1>29. CASE AssignAgain
  BY <1>0, <1>29 DEF AssignAgain, CanAssign, Commanded, Open, NoOp, Surveyed,
      NoAssign, KeepWorker, AssignInv, Labs, Assigns, Workers
<1>30. CASE InstallAssigned
  BY <1>0, <1>30 DEF InstallAssigned, NoAssign, WorkerGoal, AssignInv, Labs,
      Assigns, Workers
<1>31. CASE InstallFails
  BY <1>0, <1>31 DEF InstallFails, NoAssign, KeepWorker, AssignInv, Labs,
      Assigns, Workers
<1>32. CASE CommitAssigned
  BY <1>0, <1>32 DEF CommitAssigned, NoOp, Open, NoAssign, KeepWorker,
      AssignInv, Labs, Assigns, Workers
<1>33. CASE Submit
  BY <1>0, <1>33 DEF Submit, Open, NoOp, NoSub, KeepLab, AssignInv, Labs,
      Assigns, Workers
<1>34. CASE SubmitAgain
  BY <1>0, <1>34 DEF SubmitAgain, Open, NoOp, NoSub, KeepLab, AssignInv, Labs,
      Assigns, Workers
<1>35. CASE Record
  BY <1>0, <1>35 DEF Record, NoOp, Open, Transition, NoSub, KeepLab,
      AssignInv, Labs, Assigns, Workers
<1>36. CASE Notify
  BY <1>0, <1>36 DEF Notify, NoOp, Open, NoSub, KeepLab, AssignInv, Labs,
      Assigns, Workers
<1>37. CASE Attach
  BY <1>0, <1>37 DEF Attach, Open, KeepLab, KeepWorker, AssignInv, Labs,
      Assigns, Workers
<1>38. CASE Detach
  BY <1>0, <1>38 DEF Detach, Reloaded, Stale, KeepLab, KeepWorker, AssignInv,
      Labs, Assigns, Workers
<1>39. CASE Boot
  BY <1>0, <1>39 DEF Boot, NoPend, KeepLab, KeepWorker, AssignInv, Labs,
      Assigns, Workers
<1>40. CASE Close
  BY <1>0, <1>40 DEF Close, Open, KeepLab, KeepWorker, AssignInv, Labs,
      Assigns, Workers
<1>41. CASE Shutdown
  BY <1>0, <1>41 DEF Shutdown, NoOp, NoPend, Reloaded, NoAssign, NoSub,
      AssignInv, Labs, Assigns, Workers
<1>42. CASE Crash
  BY <1>0, <1>42 DEF Crash, Reloaded, NoOp, NoPend, NoAssign, NoSub,
      AssignInv, Labs, Assigns, Workers
<1>43. CASE Disturb
  BY <1>0, <1>43 DEF Disturb, Open, NoOp, Transition, KeepWorker, AssignInv,
      Labs, Assigns, Workers
<1>44. CASE UNCHANGED vars
  BY <1>44 DEF vars, AssignInv
<1> QED
  BY <1>1, <1>2, <1>3, <1>4, <1>5, <1>6, <1>7, <1>8, <1>9, <1>10, <1>11,
      <1>12, <1>13, <1>14, <1>15, <1>16, <1>17, <1>18, <1>19, <1>20, <1>21,
      <1>22, <1>23, <1>24, <1>25, <1>26, <1>27, <1>28, <1>29, <1>30, <1>31,
      <1>32, <1>33, <1>34, <1>35, <1>36, <1>37, <1>38, <1>39, <1>40, <1>41,
      <1>42, <1>43, <1>44 DEF Next, Operate, Follow, Command, Work,
      Environment

LEMMA DormantStep ==
    ASSUME TypeOK, StartInv, PauseInv, WaitInv, AssignInv, Dormant, [Next]_vars
    PROVE  Dormant'
<1>0. lab \in Labs /\ op \in Ops /\ ctrl \in Controllers /\ worker \in Workers
  BY DEF TypeOK
<1>1. CASE Arm
  BY <1>0, <1>1, ArmEffect DEF Dormant, StartInv, AssignInv, WaitInv,
      PauseInv, Labs, Ops, Controllers, Workers
<1>2. CASE Apply
  BY <1>0, <1>2 DEF Apply, Transition, KeepLab, Onward, Finish, NoOp, Goto,
      Throw, Dormant, StartInv, AssignInv, WaitInv, PauseInv, Labs, Ops,
      Controllers, Workers
<1>3. CASE ApplyInVain
  BY <1>0, <1>3 DEF ApplyInVain, KeepLab, Throw, Goto, Finish, NoOp,
      KeepWorker, Dormant, StartInv, AssignInv, WaitInv, PauseInv, Labs, Ops,
      Controllers, Workers
<1>4. CASE Activate
  BY <1>0, <1>4 DEF Activate, Aborted, Open, Transition, Staged, Goto,
      Dormant, StartInv, AssignInv, WaitInv, PauseInv, Labs, Ops, Controllers,
      Workers
<1>5. CASE ActivationBlocked
  BY <1>0, <1>5 DEF ActivationBlocked, Aborted, Open, Transition, Goto,
      RestWorker, WorkerGoal, Dormant, StartInv, AssignInv, WaitInv, PauseInv,
      Labs, Ops, Controllers, Workers
<1>6. CASE ActivationFails
  BY <1>0, <1>6 DEF ActivationFails, Aborted, Open, KeepLab, Goto, Dormant,
      StartInv, AssignInv, WaitInv, PauseInv, Labs, Ops, Controllers, Workers
<1>7. CASE Run
  <2>1. /\ lab'.life = "running" /\ lab'.waiting = lab.waiting
        /\ ctrl' = ctrl /\ marks' = marks
    BY <1>0, <1>7 DEF Run, Transition, Labs
  <2>2. \/ lab'.phase = "working"
        \/ lab'.inst = "activating"
        \/ lab'.phase = lab.phase /\ lab'.inst = lab.inst /\ worker' = worker
    BY <1>0, <1>7 DEF Run, Transition, KeepWorker, Labs
  <2> QED BY <2>1, <2>2 DEF Dormant
<1>8. CASE Rest
  BY <1>0, <1>8 DEF Rest, KeepLab, Finish, NoOp, RestWorker, WorkerGoal,
      KeepWorker, Dormant, StartInv, AssignInv, WaitInv, PauseInv, Labs, Ops,
      Controllers, Workers
<1>9. CASE StartFails
  BY <1>0, <1>9 DEF StartFails, Transition, Finish, NoOp, RestWorker,
      WorkerGoal, Dormant, StartInv, AssignInv, WaitInv, PauseInv, Labs, Ops,
      Controllers, Workers
<1>10. CASE PauseAttaches
  BY <1>0, <1>10 DEF PauseAttaches, Aborted, Open, KeepLab, Goto, Dormant,
      StartInv, AssignInv, WaitInv, PauseInv, Labs, Ops, Controllers, Workers
<1>11. CASE PauseAttachFails
  BY <1>0, <1>11 DEF PauseAttachFails, Aborted, Open, Transition, Finish,
      NoOp, Dormant, StartInv, AssignInv, WaitInv, PauseInv, Labs, Ops,
      Controllers, Workers
<1>12. CASE PauseRoles
  BY <1>0, <1>12 DEF PauseRoles, Aborted, Open, KeepLab, Goto, RestWorker,
      WorkerGoal, KeepWorker, Dormant, StartInv, AssignInv, WaitInv, PauseInv,
      Labs, Ops, Controllers, Workers
<1>13. CASE PauseController
  BY <1>0, <1>13 DEF PauseController, MayPause, Transition, Open, Finish,
      NoOp, Dormant, StartInv, AssignInv, WaitInv, PauseInv, Labs, Ops,
      Controllers, Workers
<1>14. CASE Replay
  BY <1>0, <1>14, ReplayEffect DEF Dormant, StartInv, AssignInv, WaitInv,
      PauseInv, Labs, Ops, Controllers, Workers
<1>15. CASE Wake
  BY <1>0, <1>15, WakeEffect DEF Dormant, StartInv, AssignInv, WaitInv,
      PauseInv, Labs, Ops, Controllers, Workers
<1>16. CASE Deliver
  BY <1>0, <1>16 DEF Deliver, KeepLab, Transition, AtRest, Finish, NoOp,
      Dormant, StartInv, AssignInv, WaitInv, PauseInv, Labs, Ops, Controllers,
      Workers
<1>17. CASE DeliverInVain
  BY <1>0, <1>17 DEF DeliverInVain, KeepLab, Finish, NoOp, KeepWorker,
      Dormant, StartInv, AssignInv, WaitInv, PauseInv, Labs, Ops, Controllers,
      Workers
<1>18. CASE StopEnds
  BY <1>0, <1>18 DEF StopEnds, NoOp, Transition, KeepLab, KeepWorker, Dormant,
      StartInv, AssignInv, WaitInv, PauseInv, Labs, Ops, Controllers, Workers
<1>19. CASE ResumeStarts
  BY <1>0, <1>19, StartingEffect DEF ResumeStarts, NoOp, Open, KeepLab,
      KeepWorker, Dormant, StartInv, AssignInv, WaitInv, PauseInv, Labs, Ops,
      Controllers, Workers
<1>20. CASE Reconcile
  BY <1>0, <1>20 DEF Reconcile, NoOp, Surveyed, KeepLab, Transition, Dormant,
      StartInv, AssignInv, WaitInv, PauseInv, Labs, Ops, Controllers, Workers
<1>21. CASE Survey
  BY <1>0, <1>21 DEF Survey, Open, KeepLab, KeepWorker, Dormant, StartInv,
      AssignInv, WaitInv, PauseInv, Labs, Ops, Controllers, Workers
<1>22. CASE Recover
  BY <1>0, <1>22, StartingEffect, PausingEffect DEF Recover, Surveyed, NoOp,
      Open, KeepLab, KeepWorker, Dormant, StartInv, AssignInv, WaitInv,
      PauseInv, Labs, Ops, Controllers, Workers
<1>23. CASE Start
  BY <1>0, <1>23, StartingEffect DEF Start, NoOp, KeepLab, KeepWorker,
      Dormant, StartInv, AssignInv, WaitInv, PauseInv, Labs, Ops, Controllers,
      Workers
<1>24. CASE Pause
  <2>1. PICK then \in {"done", "stop"} : Pausing("user", TRUE, then)
    BY <1>24 DEF Pause
  <2>2. /\ lab'.waiting = lab.waiting /\ lab'.inst = lab.inst
        /\ lab'.phase = lab.phase /\ lab'.named = lab.named
        /\ lab'.life = lab.life \/ lab'.life = "pausing"
    BY <2>1, PausingEffect
  <2>3. UNCHANGED <<ctrl, worker, marks>>
    BY <1>24 DEF Pause, KeepWorker
  <2> QED BY <2>2, <2>3 DEF Dormant
<1>25. CASE Stop
  BY <1>0, <1>25 DEF Stop, Commanded, Open, NoOp, Surveyed, KeepLab,
      KeepWorker, Dormant, StartInv, AssignInv, WaitInv, PauseInv, Labs, Ops,
      Controllers, Workers
<1>26. CASE WaitController
  BY <1>0, <1>26 DEF WaitController, Commanded, Open, NoOp, Surveyed,
      Transition, KeepLab, Dormant, StartInv, AssignInv, WaitInv, PauseInv,
      Labs, Ops, Controllers, Workers
<1>27. CASE Resume
  BY <1>0, <1>27 DEF Resume, Commanded, Open, NoOp, Surveyed, Startable,
      Transition, KeepWorker, Dormant, StartInv, AssignInv, WaitInv, PauseInv,
      Labs, Ops, Controllers, Workers
<1>28. CASE AssignNew
  BY <1>0, <1>28 DEF AssignNew, CanAssign, Commanded, Open, NoOp, Surveyed,
      NoAssign, KeepWorker, Dormant, StartInv, AssignInv, WaitInv, PauseInv,
      Labs, Ops, Controllers, Workers
<1>29. CASE AssignAgain
  BY <1>0, <1>29 DEF AssignAgain, CanAssign, Commanded, Open, NoOp, Surveyed,
      NoAssign, KeepWorker, Dormant, StartInv, AssignInv, WaitInv, PauseInv,
      Labs, Ops, Controllers, Workers
<1>30. CASE InstallAssigned
  BY <1>0, <1>30 DEF InstallAssigned, NoAssign, WorkerGoal, Dormant, StartInv,
      AssignInv, WaitInv, PauseInv, Labs, Ops, Controllers, Workers
<1>31. CASE InstallFails
  BY <1>0, <1>31 DEF InstallFails, NoAssign, KeepWorker, Dormant, StartInv,
      AssignInv, WaitInv, PauseInv, Labs, Ops, Controllers, Workers
<1>32. CASE CommitAssigned
  <2>1. UNCHANGED <<ctrl, worker, marks>>
    BY <1>32 DEF CommitAssigned, KeepWorker
  <2>2. CASE lab' = lab
    BY <2>1, <2>2 DEF Dormant
  <2>3. CASE lab' = [lab EXCEPT !.phase = "working", !.inst = "applied"]
    <3>1. /\ lab'.life = lab.life /\ lab'.named = lab.named
          /\ lab'.waiting = lab.waiting /\ lab'.phase = "working"
      BY <1>0, <2>3 DEF Labs
    <3> QED BY <2>1, <3>1 DEF Dormant
  <2> QED BY <1>32, <2>2, <2>3 DEF CommitAssigned
<1>33. CASE Submit
  BY <1>0, <1>33 DEF Submit, Open, NoOp, NoSub, KeepLab, Dormant, StartInv,
      AssignInv, WaitInv, PauseInv, Labs, Ops, Controllers, Workers
<1>34. CASE SubmitAgain
  BY <1>0, <1>34 DEF SubmitAgain, Open, NoOp, NoSub, KeepLab, Dormant,
      StartInv, AssignInv, WaitInv, PauseInv, Labs, Ops, Controllers, Workers
<1>35. CASE Record
  <2>1. UNCHANGED <<ctrl, marks>>
    BY <1>35 DEF Record
  <2>2. CASE lab' = lab /\ worker' = worker
    BY <2>1, <2>2 DEF Dormant
  <2>3. CASE /\ lab' = [lab EXCEPT !.phase = "paused", !.receipt = sub.asg]
             /\ worker' = [worker EXCEPT !.armed = FALSE]
    <3>1. /\ lab'.life = lab.life /\ lab'.named = lab.named
          /\ lab'.waiting = lab.waiting /\ ~worker'.armed
      BY <1>0, <2>3 DEF Labs, Workers
    <3> QED BY <2>1, <3>1 DEF Dormant
  <2> QED BY <1>35, <2>2, <2>3 DEF Record, Transition, KeepLab
<1>36. CASE Notify
  BY <1>0, <1>36 DEF Notify, NoOp, Open, NoSub, KeepLab, Dormant, StartInv,
      AssignInv, WaitInv, PauseInv, Labs, Ops, Controllers, Workers
<1>37. CASE Attach
  BY <1>0, <1>37 DEF Attach, Open, KeepLab, KeepWorker, Dormant, StartInv,
      AssignInv, WaitInv, PauseInv, Labs, Ops, Controllers, Workers
<1>38. CASE Detach
  BY <1>0, <1>38 DEF Detach, Reloaded, Stale, KeepLab, KeepWorker, Dormant,
      StartInv, AssignInv, WaitInv, PauseInv, Labs, Ops, Controllers, Workers
<1>39. CASE Boot
  BY <1>0, <1>39 DEF Boot, NoPend, KeepLab, KeepWorker, Dormant, StartInv,
      AssignInv, WaitInv, PauseInv, Labs, Ops, Controllers, Workers
<1>40. CASE Close
  BY <1>0, <1>40 DEF Close, Open, KeepLab, KeepWorker, Dormant, StartInv,
      AssignInv, WaitInv, PauseInv, Labs, Ops, Controllers, Workers
<1>41. CASE Shutdown
  BY <1>0, <1>41 DEF Shutdown, NoOp, NoPend, Reloaded, NoAssign, NoSub,
      Dormant, StartInv, AssignInv, WaitInv, PauseInv, Labs, Ops, Controllers,
      Workers
<1>42. CASE Crash
  BY <1>0, <1>42 DEF Crash, Reloaded, NoOp, NoPend, NoAssign, NoSub, Dormant,
      StartInv, AssignInv, WaitInv, PauseInv, Labs, Ops, Controllers, Workers
<1>43. CASE Disturb
  BY <1>0, <1>43 DEF Disturb, Open, NoOp, Transition, KeepWorker, Dormant,
      StartInv, AssignInv, WaitInv, PauseInv, Labs, Ops, Controllers, Workers
<1>44. CASE UNCHANGED vars
  BY <1>44 DEF vars, Dormant
<1> QED
  BY <1>1, <1>2, <1>3, <1>4, <1>5, <1>6, <1>7, <1>8, <1>9, <1>10, <1>11,
      <1>12, <1>13, <1>14, <1>15, <1>16, <1>17, <1>18, <1>19, <1>20, <1>21,
      <1>22, <1>23, <1>24, <1>25, <1>26, <1>27, <1>28, <1>29, <1>30, <1>31,
      <1>32, <1>33, <1>34, <1>35, <1>36, <1>37, <1>38, <1>39, <1>40, <1>41,
      <1>42, <1>43, <1>44 DEF Next, Operate, Follow, Command, Work,
      Environment

-----------------------------------------------------------------------------
(* What the steps keep that arm the Controller and tell it of results.     *)

LEMMA StartingKeeps ==
    ASSUME TypeOK, NEW who \in {"user", "boot"}, NEW own \in BOOLEAN,
           Starting(who, own)
    PROVE  /\ lab'.receipt = lab.receipt /\ lab'.st = lab.st
           /\ op' = op \/ (op'.at = "arm" /\ op'.own = own)
           /\ op' = op => lab.life \in {"stopped", "pausing"}
                          \/ (who = "boot" /\ ~Open) \/ op.at # "none"
<1>1. lab \in Labs
  BY DEF TypeOK
<1>2. op' = op \/ (op'.at = "arm" /\ op'.own = own)
  BY StartingEffect
<1>3. lab'.receipt = lab.receipt /\ lab'.st = lab.st
  BY <1>1 DEF Starting, KeepLab, Transition, Labs
<1>4. CASE ~Startable \/ (who = "boot" /\ ~Open)
  BY <1>2, <1>3, <1>4 DEF Startable
<1>5. CASE Startable /\ ~(who = "boot" /\ ~Open)
  <2>1. op'.at = "arm"
    BY <1>5 DEF Starting, NoOp
  <2> QED BY <1>2, <1>3, <2>1
<1> QED BY <1>4, <1>5

LEMMA PausingKeeps ==
    ASSUME TypeOK, NEW who \in {"user", "boot"}, NEW own \in BOOLEAN,
           NEW then \in {"done", "stop"}, Pausing(who, own, then)
    PROVE  /\ lab'.receipt = lab.receipt /\ lab'.st = lab.st
           /\ lab'.life = lab.life \/ (lab.life = "running" /\ lab'.life = "pausing")
           /\ lab'.waiting = lab.waiting
           /\ op' = op \/ op'.at \in {"attach", "roles"}
<1>1. lab \in Labs
  BY DEF TypeOK
<1>2. lab'.receipt = lab.receipt /\ lab'.st = lab.st
  BY <1>1 DEF Pausing, KeepLab, Transition, Labs
<1> QED BY <1>2, PausingEffect

LEMMA ArmKeeps ==
    ASSUME TypeOK, StartInv, Arm
    PROVE  /\ lab'.receipt = lab.receipt /\ lab'.life = lab.life
           /\ lab.waiting => lab'.waiting
           /\ lab'.st = "applied" => lab.st = "applied"
           /\ op.at = "arm" /\ op'.at \in {"apply", "none", "rest", "replay", "activate"}
           /\ ~lab.waiting /\ op.own => op'.at = "apply" /\ op'.own
<1>1. lab \in Labs /\ op \in Ops
  BY DEF TypeOK
<1>2. /\ lab'.life = lab.life /\ (lab.waiting => lab'.waiting) /\ op.at = "arm"
      /\ op'.at \in {"apply", "none", "rest", "replay", "activate"}
  BY ArmEffect
<1>3. lab'.receipt = lab.receipt /\ (lab'.st = "applied" => lab.st = "applied")
  BY <1>1 DEF Arm, ArmNow, KeepLab, Transition, Desired, Labs
<1>4. ~lab.waiting /\ op.own => op'.at = "apply" /\ op'.own
  BY <1>1 DEF Arm, ArmNow, Goto, Ops
<1> QED BY <1>2, <1>3, <1>4

LEMMA WakeKeeps ==
    ASSUME TypeOK, Wake
    PROVE  /\ op.at = "wake" /\ lab'.st = lab.st /\ lab'.receipt = lab.receipt
           /\ UNCHANGED <<kernel, ctrl, told, pend, saved, sub>> /\ marks \subseteq marks'
           /\ \/ /\ op'.at = "deliver" /\ op'.own /\ op'.asg = op.asg
                 /\ lab.st = "applied"
              \/ /\ op'.at = "none" /\ lab' = lab
                 /\ told[op.asg] # "no" \/ "missed" \in marks'
<1>1. lab \in Labs /\ op \in Ops
  BY DEF TypeOK
<1>2. op.at = "wake" /\ UNCHANGED <<kernel, ctrl, told, pend, saved, sub>>
  BY DEF Wake, KeepWorker
<1>3. marks \subseteq marks'
  BY WakeEffect
<1>4. lab'.st = lab.st /\ lab'.receipt = lab.receipt
  BY <1>1 DEF Wake, KeepLab, Transition, Labs
<1>5. CASE Wakes(op.asg)
  <2>1. op' = [op EXCEPT !.at = "deliver", !.own = TRUE]
    BY <1>5 DEF Wake
  <2>2. op'.at = "deliver" /\ op'.own /\ op'.asg = op.asg
    BY <1>1, <2>1 DEF Ops
  <2> QED BY <1>2, <1>3, <1>4, <1>5, <2>2 DEF Wakes
<1>6. CASE ~Wakes(op.asg)
  <2>1. op' = NoOp /\ lab' = lab
    BY <1>6 DEF Wake, Finish, KeepLab
  <2>2. told[op.asg] # "no" \/ "missed" \in marks'
    BY <1>6 DEF Wake
  <2> QED BY <1>2, <1>3, <1>4, <2>1, <2>2 DEF NoOp
<1> QED BY <1>5, <1>6

LEMMA CommitKeeps ==
    ASSUME TypeOK, CommitAssigned
    PROVE  /\ lab'.st = lab.st /\ lab'.receipt = lab.receipt
           /\ lab'.life = lab.life /\ lab'.waiting = lab.waiting
           /\ UNCHANGED <<op, kernel, ctrl, told, pend, saved, sub, marks>>
<1>1. UNCHANGED <<op, kernel, ctrl, told, pend, saved, sub, marks>>
  BY DEF CommitAssigned, KeepWorker
<1>2. lab' = lab \/ lab' = [lab EXCEPT !.phase = "working", !.inst = "applied"]
  BY DEF CommitAssigned
<1>3. lab \in Labs
  BY DEF TypeOK
<1> QED BY <1>1, <1>2, <1>3 DEF Labs

LEMMA RecordKeeps ==
    ASSUME TypeOK, Record
    PROVE  /\ lab'.st = lab.st /\ lab'.life = lab.life /\ lab'.waiting = lab.waiting
           /\ UNCHANGED <<op, kernel, ctrl, told, pend, saved, marks>>
           /\ sub.at = "record"
           /\ \/ lab' = lab
              \/ lab'.receipt = sub.asg /\ sub'.at = "notify" /\ sub'.asg = sub.asg
<1>1. lab \in Labs /\ sub \in Subs
  BY DEF TypeOK
<1>2. UNCHANGED <<op, kernel, ctrl, told, pend, saved, marks>> /\ sub.at = "record"
  BY DEF Record
<1>3. \/ lab' = lab
      \/ /\ lab' = [lab EXCEPT !.phase = "paused", !.receipt = sub.asg]
         /\ sub' = [sub EXCEPT !.at = "notify"]
  BY DEF Record, KeepLab, Transition
<1>4. CASE lab' = lab
  BY <1>2, <1>4
<1>5. CASE /\ lab' = [lab EXCEPT !.phase = "paused", !.receipt = sub.asg]
           /\ sub' = [sub EXCEPT !.at = "notify"]
  <2>1. /\ lab'.st = lab.st /\ lab'.life = lab.life /\ lab'.waiting = lab.waiting
        /\ lab'.receipt = sub.asg
    BY <1>1, <1>5 DEF Labs
  <2>2. sub'.at = "notify" /\ sub'.asg = sub.asg
    BY <1>1, <1>5 DEF Subs
  <2> QED BY <1>2, <2>1, <2>2
<1> QED BY <1>3, <1>4, <1>5

LEMMA NotifyKeeps ==
    ASSUME TypeOK, Notify
    PROVE  /\ UNCHANGED <<lab, kernel, ctrl, told, pend, saved>> /\ sub.at = "notify"
           /\ marks \subseteq marks'
           /\ \/ op.at = "none" /\ op'.at = "wake" /\ op'.asg = sub.asg
              \/ op' = op /\ "missed" \in marks'
<1>1. UNCHANGED <<lab, kernel, ctrl, told, pend, saved>> /\ sub.at = "notify"
  BY DEF Notify, KeepLab
<1>2. CASE Open /\ lab.phase = "paused" /\ lab.receipt = sub.asg
  <2>1. /\ op' = [NoOp EXCEPT !.at = "wake", !.who = "event", !.asg = sub.asg]
        /\ op = NoOp /\ marks' = marks
    BY <1>2 DEF Notify
  <2> QED BY <1>1, <2>1 DEF NoOp
<1>3. CASE ~(Open /\ lab.phase = "paused" /\ lab.receipt = sub.asg)
  <2>1. marks' = marks \cup {"missed"} /\ op' = op
    BY <1>3 DEF Notify
  <2> QED BY <1>1, <2>1
<1> QED BY <1>2, <1>3

LEMMA ReconcileKeeps ==
    ASSUME TypeOK, Reconcile
    PROVE  /\ lab'.st = lab.st /\ lab'.receipt = lab.receipt /\ lab'.life = lab.life
           /\ UNCHANGED <<kernel, told, sub, marks>>
           /\ ctrl'.live = ctrl.live /\ ctrl'.goal = ctrl.goal
           /\ saved'.ctrl \in {saved.ctrl, ctrl.goal}
           /\ op.at = "none" /\ op'.at \in {"none", "arm"}
           /\ \/ lab.life \notin {"running", "starting"}
              \/ op'.at = "arm" /\ (op'.own <=> pend.attach = "own")
           /\ pend.attach # "no"
<1>1. lab \in Labs /\ ctrl \in Controllers /\ saved \in Saves
  BY DEF TypeOK
<1>2. UNCHANGED <<kernel, told, sub, marks>> /\ pend.attach # "no"
  BY DEF Reconcile
<1>3. op.at = "none" /\ op'.at \in {"none", "arm"}
  BY EntryEffect
<1>4. \/ lab' = lab
      \/ lab.life \in {"paused", "pausing", "stopped"} /\ Transition(lab)
  <2>1. KeepLab => lab' = lab
    BY DEF KeepLab
  <2> QED BY <2>1 DEF Reconcile
<1>5. /\ ctrl' = ctrl \/ ctrl' = [ctrl EXCEPT !.armed = FALSE]
      /\ saved' = saved \/ saved' = [saved EXCEPT !.ctrl = ctrl.goal]
  BY DEF Reconcile, FlushController
<1>6. ctrl'.live = ctrl.live /\ ctrl'.goal = ctrl.goal
  BY <1>1, <1>5 DEF Controllers
<1>7. saved'.ctrl \in {saved.ctrl, ctrl.goal}
  BY <1>1, <1>5 DEF Saves
<1>8. ASSUME lab.life \in {"running", "starting"}
      PROVE  op'.at = "arm" /\ (op'.own <=> pend.attach = "own")
  <2>1. op' = [NoOp EXCEPT !.at = "arm", !.who = "attach",
                           !.own = pend.attach = "own", !.then = "replay"]
    BY <1>8 DEF Reconcile
  <2> QED BY <2>1 DEF NoOp
<1> QED BY <1>2, <1>3, <1>4, <1>6, <1>7, <1>8 DEF Transition

(* Only what was shown, but is not in the log, can be forgotten.           *)
LEMMA LostSeen ==
    ASSUME TypeOK, Forgets, NEW a \in Orders, told'[a] = "no"
    PROVE  told[a] = "no" \/ "missed" \in Lost
<1>1. PICK t \in {"no", "logged"} :
         told' = [b \in Orders |-> IF told[b] = "shown" THEN t ELSE told[b]]
  BY DEF Forgets
<1>2. told[a] = "no" \/ told[a] = "shown"
  BY <1>1
<1> QED BY <1>2 DEF Lost

LEMMA ReceiptOrder == ASSUME TypeOK, lab.receipt # 0 PROVE lab.receipt \in Orders
BY LifecycleAssumption DEF TypeOK, Labs, Orders

LEMMA GoalInvStep ==
    ASSUME TypeOK, StartInv, GoalInv, [Next]_vars
    PROVE  GoalInv'
<1>0. lab \in Labs /\ op \in Ops /\ ctrl \in Controllers /\ saved \in Saves /\ kernel \in Kernels
  BY DEF TypeOK
<1>1. CASE Arm
  BY <1>0, <1>1, ArmKeeps DEF Arm, KeepWorker, Open, GoalInv, StartInv, Labs,
      Ops, Controllers, Saves, Kernels
<1>2. CASE Apply
  <2>1. ctrl'.goal
    BY <1>0, <1>2 DEF Apply, Controllers
  <2>2. lab'.st = "applied" => saved'.ctrl
    <3>1. saved \in Saves
      BY DEF TypeOK
    <3>2. CASE saved' = [saved EXCEPT !.ctrl = TRUE]
      BY <3>1, <3>2 DEF Saves
    <3>3. CASE lab' = lab /\ saved' = saved
      BY <3>3 DEF GoalInv
    <3> QED BY <1>2, <3>2, <3>3 DEF Apply, KeepLab
  <2>3. kernel' = kernel /\ lab'.life = lab.life /\ op'.at # "deliver"
    BY <1>2, ApplyEffect DEF Apply
  <2> QED BY <2>1, <2>2, <2>3 DEF GoalInv
<1>3. CASE ApplyInVain
  BY <1>0, <1>3 DEF ApplyInVain, KeepLab, KeepWorker, Throw, Goto, Finish,
      NoOp, GoalInv, StartInv, Labs, Ops, Controllers, Saves, Kernels
<1>4. CASE Activate
  BY <1>0, <1>4 DEF Activate, Transition, Goto, Staged, Aborted, Open,
      GoalInv, StartInv, Labs, Ops, Controllers, Saves, Kernels
<1>5. CASE ActivationBlocked
  BY <1>0, <1>5 DEF ActivationBlocked, RestWorker, Transition, Goto, Aborted,
      WorkerGoal, Open, GoalInv, StartInv, Labs, Ops, Controllers, Saves,
      Kernels
<1>6. CASE ActivationFails
  BY <1>0, <1>6 DEF ActivationFails, KeepLab, Goto, Aborted, Open, GoalInv,
      StartInv, Labs, Ops, Controllers, Saves, Kernels
<1>7. CASE Run
  <2>1. /\ lab'.st = lab.st /\ lab'.life = "running"
        /\ op'.at = "rest" /\ UNCHANGED <<kernel, ctrl>>
    BY <1>0, <1>7 DEF Run, Transition, Goto, Labs, Ops
  <2>2. saved'.ctrl = saved.ctrl
    <3>1. saved' = saved \/ saved' = [saved EXCEPT !.worker = lab.asg]
      BY <1>7 DEF Run, KeepWorker, InstallWorker
    <3> QED BY <1>0, <3>1 DEF Saves
  <2> QED BY <2>1, <2>2 DEF GoalInv
<1>8. CASE Rest
  BY <1>0, <1>8 DEF Rest, KeepLab, KeepWorker, RestWorker, Finish, WorkerGoal,
      NoOp, GoalInv, StartInv, Labs, Ops, Controllers, Saves, Kernels
<1>9. CASE StartFails
  BY <1>0, <1>9 DEF StartFails, RestWorker, Transition, Finish, WorkerGoal,
      NoOp, GoalInv, StartInv, Labs, Ops, Controllers, Saves, Kernels
<1>10. CASE PauseAttaches
  BY <1>0, <1>10 DEF PauseAttaches, KeepLab, Goto, Aborted, Open, GoalInv,
      StartInv, Labs, Ops, Controllers, Saves, Kernels
<1>11. CASE PauseAttachFails
  BY <1>0, <1>11 DEF PauseAttachFails, Transition, Finish, Aborted, NoOp,
      Open, GoalInv, StartInv, Labs, Ops, Controllers, Saves, Kernels
<1>12. CASE PauseRoles
  BY <1>0, <1>12 DEF PauseRoles, KeepLab, KeepWorker, RestWorker, Goto,
      Aborted, WorkerGoal, Open, GoalInv, StartInv, Labs, Ops, Controllers,
      Saves, Kernels
<1>13. CASE PauseController
  BY <1>0, <1>13 DEF PauseController, Transition, Finish, Open, MayPause,
      FlushController, NoOp, GoalInv, StartInv, Labs, Ops, Controllers, Saves,
      Kernels
<1>14. CASE Replay
  <2>1. lab' = lab /\ op'.at # "deliver"
    BY <1>14, ReplayEffect
  <2>2. UNCHANGED <<kernel, ctrl, saved>>
    BY <1>14 DEF Replay, KeepWorker
  <2> QED BY <2>1, <2>2 DEF GoalInv
<1>15. CASE Wake
  BY <1>0, <1>15, WakeKeeps, WakeEffect DEF Open, GoalInv, StartInv, Labs,
      Ops, Controllers, Saves, Kernels
<1>16. CASE Deliver
  BY <1>0, <1>16 DEF Deliver, KeepLab, Transition, Finish, AtRest,
      FlushController, NoOp, GoalInv, StartInv, Labs, Ops, Controllers, Saves,
      Kernels
<1>17. CASE DeliverInVain
  BY <1>0, <1>17 DEF DeliverInVain, KeepLab, KeepWorker, Finish, NoOp,
      GoalInv, StartInv, Labs, Ops, Controllers, Saves, Kernels
<1>18. CASE StopEnds
  BY <1>0, <1>18 DEF StopEnds, KeepLab, KeepWorker, Transition, NoOp, GoalInv,
      StartInv, Labs, Ops, Controllers, Saves, Kernels
<1>19. CASE ResumeStarts
  BY <1>0, <1>19, StartingKeeps, StartingEffect DEF ResumeStarts, KeepLab,
      KeepWorker, NoOp, Open, GoalInv, StartInv, Labs, Ops, Controllers,
      Saves, Kernels
<1>20. CASE Reconcile
  BY <1>0, <1>20, ReconcileKeeps DEF Open, GoalInv, StartInv, Labs, Ops,
      Controllers, Saves, Kernels
<1>21. CASE Survey
  BY <1>0, <1>21 DEF Survey, KeepLab, KeepWorker, Open, GoalInv, StartInv,
      Labs, Ops, Controllers, Saves, Kernels
<1>22. CASE Recover
  BY <1>0, <1>22, StartingKeeps, StartingEffect, PausingKeeps DEF Recover,
      KeepWorker, NoOp, Surveyed, GoalInv, StartInv, Labs, Ops, Controllers,
      Saves, Kernels
<1>23. CASE Start
  BY <1>0, <1>23, StartingKeeps, StartingEffect DEF Start, KeepWorker,
      Commanded, NoOp, Open, Surveyed, GoalInv, StartInv, Labs, Ops,
      Controllers, Saves, Kernels
<1>24. CASE Pause
  BY <1>0, <1>24, PausingKeeps DEF Pause, KeepWorker, Commanded, NoOp, Open,
      Surveyed, GoalInv, StartInv, Labs, Ops, Controllers, Saves, Kernels
<1>25. CASE Stop
  BY <1>0, <1>25 DEF Stop, KeepLab, KeepWorker, Commanded, NoOp, Open,
      Surveyed, GoalInv, StartInv, Labs, Ops, Controllers, Saves, Kernels
<1>26. CASE WaitController
  BY <1>0, <1>26 DEF WaitController, KeepLab, Transition, FlushController,
      Commanded, NoOp, Open, Surveyed, GoalInv, StartInv, Labs, Ops,
      Controllers, Saves, Kernels
<1>27. CASE Resume
  BY <1>0, <1>27 DEF Resume, KeepWorker, Transition, Commanded, NoOp, Open,
      Surveyed, GoalInv, StartInv, Labs, Ops, Controllers, Saves, Kernels
<1>28. CASE AssignNew
  BY <1>0, <1>28 DEF AssignNew, KeepWorker, CanAssign, NoAssign, Commanded,
      NoOp, Open, Surveyed, GoalInv, StartInv, Labs, Ops, Controllers, Saves,
      Kernels
<1>29. CASE AssignAgain
  BY <1>0, <1>29 DEF AssignAgain, KeepWorker, CanAssign, NoAssign, Commanded,
      NoOp, Open, Surveyed, GoalInv, StartInv, Labs, Ops, Controllers, Saves,
      Kernels
<1>30. CASE InstallAssigned
  BY <1>0, <1>30 DEF InstallAssigned, WorkerGoal, NoAssign, GoalInv, StartInv,
      Labs, Ops, Controllers, Saves, Kernels
<1>31. CASE InstallFails
  BY <1>0, <1>31 DEF InstallFails, KeepWorker, NoAssign, GoalInv, StartInv,
      Labs, Ops, Controllers, Saves, Kernels
<1>32. CASE CommitAssigned
  BY <1>0, <1>32, CommitKeeps DEF Open, GoalInv, StartInv, Labs, Ops,
      Controllers, Saves, Kernels
<1>33. CASE Submit
  BY <1>0, <1>33 DEF Submit, KeepLab, Called, NoOp, NoSub, Open, GoalInv,
      StartInv, Labs, Ops, Controllers, Saves, Kernels
<1>34. CASE SubmitAgain
  BY <1>0, <1>34 DEF SubmitAgain, KeepLab, Called, NoOp, NoSub, Open, GoalInv,
      StartInv, Labs, Ops, Controllers, Saves, Kernels
<1>35. CASE Record
  BY <1>0, <1>35, RecordKeeps DEF Open, GoalInv, StartInv, Labs, Ops,
      Controllers, Saves, Kernels
<1>36. CASE Notify
  BY <1>0, <1>36, NotifyKeeps DEF Open, GoalInv, StartInv, Labs, Ops,
      Controllers, Saves, Kernels
<1>37. CASE Attach
  BY <1>0, <1>37 DEF Attach, KeepLab, KeepWorker, Open, GoalInv, StartInv,
      Labs, Ops, Controllers, Saves, Kernels
<1>38. CASE Detach
  BY <1>0, <1>38 DEF Detach, KeepLab, KeepWorker, Reloaded, Stale, Forgets,
      Lost, GoalInv, StartInv, Labs, Ops, Controllers, Saves, Kernels
<1>39. CASE Boot
  BY <1>0, <1>39 DEF Boot, KeepLab, KeepWorker, NoPend, GoalInv, StartInv,
      Labs, Ops, Controllers, Saves, Kernels
<1>40. CASE Close
  BY <1>0, <1>40 DEF Close, KeepLab, KeepWorker, Open, GoalInv, StartInv,
      Labs, Ops, Controllers, Saves, Kernels
<1>41. CASE Shutdown
  BY <1>0, <1>41 DEF Shutdown, NoOp, NoPend, NoAssign, NoSub, Reloaded,
      Forgets, Lost, GoalInv, StartInv, Labs, Ops, Controllers, Saves, Kernels
<1>42. CASE Crash
  BY <1>0, <1>42 DEF Crash, NoOp, NoPend, NoAssign, NoSub, Reloaded, Forgets,
      Lost, GoalInv, StartInv, Labs, Ops, Controllers, Saves, Kernels
<1>43. CASE Disturb
  BY <1>0, <1>43 DEF Disturb, KeepWorker, Transition, NoOp, Open, GoalInv,
      StartInv, Labs, Ops, Controllers, Saves, Kernels
<1>44. CASE UNCHANGED vars
  BY <1>44 DEF vars, GoalInv, StartInv
<1> QED
  BY <1>1, <1>2, <1>3, <1>4, <1>5, <1>6, <1>7, <1>8, <1>9, <1>10, <1>11,
      <1>12, <1>13, <1>14, <1>15, <1>16, <1>17, <1>18, <1>19, <1>20, <1>21,
      <1>22, <1>23, <1>24, <1>25, <1>26, <1>27, <1>28, <1>29, <1>30, <1>31,
      <1>32, <1>33, <1>34, <1>35, <1>36, <1>37, <1>38, <1>39, <1>40, <1>41,
      <1>42, <1>43, <1>44 DEF Next, Operate, Follow, Command, Work,
      Environment

LEMMA AwakeInvStep ==
    ASSUME TypeOK, StartInv, GoalInv, AwakeInv, PendInv, [Next]_vars
    PROVE  AwakeInv'
<1>0. lab \in Labs /\ op \in Ops /\ ctrl \in Controllers /\ kernel \in Kernels /\ pend \in Pends
  BY DEF TypeOK
<1>1. CASE Arm
  BY <1>0, <1>1, ArmKeeps DEF Arm, KeepWorker, Open, AwakeInv, GoalInv,
      StartInv, Labs, Ops, Controllers, Kernels, Pends
<1>2. CASE Apply
  BY <1>0, <1>2 DEF Apply, KeepLab, Transition, Onward, Throw, Goto, Finish,
      NoOp, AwakeInv, GoalInv, StartInv, Open, Labs, Ops, Controllers,
      Kernels, Pends
<1>3. CASE ApplyInVain
  BY <1>0, <1>3 DEF ApplyInVain, KeepLab, KeepWorker, Throw, Goto, Finish,
      NoOp, AwakeInv, GoalInv, StartInv, Open, Labs, Ops, Controllers,
      Kernels, Pends
<1>4. CASE Activate
  BY <1>0, <1>4 DEF Activate, Transition, Goto, Staged, Aborted, Open,
      AwakeInv, GoalInv, StartInv, Labs, Ops, Controllers, Kernels, Pends
<1>5. CASE ActivationBlocked
  BY <1>0, <1>5 DEF ActivationBlocked, RestWorker, Transition, Goto, Aborted,
      WorkerGoal, Open, AwakeInv, GoalInv, StartInv, Labs, Ops, Controllers,
      Kernels, Pends
<1>6. CASE ActivationFails
  BY <1>0, <1>6 DEF ActivationFails, KeepLab, Goto, Aborted, Open, AwakeInv,
      GoalInv, StartInv, Labs, Ops, Controllers, Kernels, Pends
<1>7. CASE Run
  <2>1. UNCHANGED <<kernel, ctrl, pend, marks>> /\ op.at = "install"
    BY <1>7 DEF Run
  <2>2. lab'.waiting = lab.waiting /\ op'.at = "rest"
    BY <1>0, <1>7 DEF Run, Transition, Goto, Labs, Ops
  <2>3. lab.life = "starting"
    BY <2>1 DEF StartInv
  <2> QED BY <2>1, <2>2, <2>3 DEF AwakeInv, Open
<1>8. CASE Rest
  BY <1>0, <1>8 DEF Rest, KeepLab, KeepWorker, RestWorker, Finish, WorkerGoal,
      NoOp, AwakeInv, GoalInv, StartInv, Open, Labs, Ops, Controllers,
      Kernels, Pends
<1>9. CASE StartFails
  BY <1>0, <1>9 DEF StartFails, RestWorker, Transition, Finish, WorkerGoal,
      NoOp, AwakeInv, GoalInv, StartInv, Open, Labs, Ops, Controllers,
      Kernels, Pends
<1>10. CASE PauseAttaches
  BY <1>0, <1>10 DEF PauseAttaches, KeepLab, Goto, Aborted, Open, AwakeInv,
      GoalInv, StartInv, Labs, Ops, Controllers, Kernels, Pends
<1>11. CASE PauseAttachFails
  BY <1>0, <1>11 DEF PauseAttachFails, Transition, Finish, Aborted, NoOp,
      Open, AwakeInv, GoalInv, StartInv, Labs, Ops, Controllers, Kernels,
      Pends
<1>12. CASE PauseRoles
  BY <1>0, <1>12 DEF PauseRoles, KeepLab, KeepWorker, RestWorker, Goto,
      Aborted, WorkerGoal, Open, AwakeInv, GoalInv, StartInv, Labs, Ops,
      Controllers, Kernels, Pends
<1>13. CASE PauseController
  BY <1>0, <1>13 DEF PauseController, Transition, Finish, Open, MayPause,
      FlushController, NoOp, AwakeInv, GoalInv, StartInv, Labs, Ops,
      Controllers, Kernels, Pends
<1>14. CASE Replay
  BY <1>0, <1>14 DEF Replay, KeepLab, KeepWorker, Finish, NoOp, AwakeInv,
      GoalInv, StartInv, Open, Labs, Ops, Controllers, Kernels, Pends
<1>15. CASE Wake
  BY <1>0, <1>15, WakeKeeps, WakeEffect DEF Open, AwakeInv, GoalInv, StartInv,
      Labs, Ops, Controllers, Kernels, Pends
<1>16. CASE Deliver
  BY <1>0, <1>16 DEF Deliver, KeepLab, Transition, Finish, AtRest,
      FlushController, NoOp, AwakeInv, GoalInv, StartInv, Open, Labs, Ops,
      Controllers, Kernels, Pends
<1>17. CASE DeliverInVain
  BY <1>0, <1>17 DEF DeliverInVain, KeepLab, KeepWorker, Finish, NoOp,
      AwakeInv, GoalInv, StartInv, Open, Labs, Ops, Controllers, Kernels,
      Pends
<1>18. CASE StopEnds
  BY <1>0, <1>18 DEF StopEnds, KeepLab, KeepWorker, Transition, NoOp,
      AwakeInv, GoalInv, StartInv, Open, Labs, Ops, Controllers, Kernels,
      Pends
<1>19. CASE ResumeStarts
  BY <1>0, <1>19, StartingKeeps, StartingEffect DEF ResumeStarts, KeepLab,
      KeepWorker, NoOp, Open, AwakeInv, GoalInv, StartInv, Labs, Ops,
      Controllers, Kernels, Pends
<1>20. CASE Reconcile
  <2>1. pend.attach = "own" \/ ~ctrl.live
    BY <1>0, <1>20, ReconcileKeeps DEF PendInv, Pends
  <2> QED BY <1>20, <2>1, ReconcileKeeps DEF AwakeInv
<1>21. CASE Survey
  BY <1>0, <1>21 DEF Survey, KeepLab, KeepWorker, Open, AwakeInv, GoalInv,
      StartInv, Labs, Ops, Controllers, Kernels, Pends
<1>22. CASE Recover
  <2>1. UNCHANGED <<ctrl, pend>> /\ op.at = "none" /\ marks \subseteq marks'
    BY <1>22 DEF Recover, NoOp
  <2>2. kernel'.mode = kernel.mode
    BY <1>0, <1>22 DEF Recover, Kernels
  <2>3. CASE kernel.boot = "start"
    <3>1. Starting("boot", FALSE)
      BY <1>22, <2>3 DEF Recover
    <3>2. CASE op' = op
      <4>1. lab' = lab
        BY <2>1, <3>1, <3>2, StartingEffect
      <4> QED BY <2>1, <2>2, <3>2, <4>1 DEF AwakeInv, Open
    <3>3. CASE op' # op
      <4>1. lab.life \notin {"stopped", "pausing"} /\ lab'.waiting = lab.waiting
        BY <3>1, <3>3, StartingEffect
      <4>2. lab.life \in {"paused", "blocked"} => "halfway" \in marks'
        BY <1>22, <2>3 DEF Recover
      <4>3. lab.life \in {"running", "starting"} \/ "halfway" \in marks'
        BY <1>0, <2>3, <4>1, <4>2 DEF GoalInv, Labs, Lifecycles
      <4> QED BY <2>1, <2>2, <4>1, <4>3 DEF AwakeInv, Open
    <3> QED BY <3>2, <3>3
  <2>4. CASE kernel.boot # "start"
    <3>1. Pausing("boot", FALSE, "done")
      BY <1>22, <2>4 DEF Recover
    <3>2. /\ lab'.life \in {"running", "starting"} => lab'.life = lab.life
          /\ lab'.waiting = lab.waiting
      BY <3>1, PausingKeeps
    <3> QED BY <2>1, <2>2, <3>2 DEF AwakeInv, Open
  <2> QED BY <2>3, <2>4
<1>23. CASE Start
  BY <1>0, <1>23, StartingKeeps, StartingEffect DEF Start, KeepWorker,
      Commanded, NoOp, Open, Surveyed, AwakeInv, GoalInv, StartInv, Labs, Ops,
      Controllers, Kernels, Pends
<1>24. CASE Pause
  <2>1. PICK then \in {"done", "stop"} : Pausing("user", TRUE, then)
    BY <1>24 DEF Pause
  <2>2. UNCHANGED <<kernel, ctrl, pend, marks>> /\ op.at = "none"
    BY <1>24 DEF Pause, Commanded, NoOp
  <2>3. /\ lab'.life \in {"running", "starting"} => lab'.life = lab.life
        /\ lab'.waiting = lab.waiting
    BY <2>1, PausingKeeps
  <2> QED BY <2>2, <2>3 DEF AwakeInv, Open
<1>25. CASE Stop
  BY <1>0, <1>25 DEF Stop, KeepLab, KeepWorker, Commanded, NoOp, Open,
      Surveyed, AwakeInv, GoalInv, StartInv, Labs, Ops, Controllers, Kernels,
      Pends
<1>26. CASE WaitController
  BY <1>0, <1>26 DEF WaitController, KeepLab, Transition, FlushController,
      Commanded, NoOp, Open, Surveyed, AwakeInv, GoalInv, StartInv, Labs, Ops,
      Controllers, Kernels, Pends
<1>27. CASE Resume
  BY <1>0, <1>27 DEF Resume, KeepWorker, Transition, Commanded, NoOp, Open,
      Surveyed, AwakeInv, GoalInv, StartInv, Labs, Ops, Controllers, Kernels,
      Pends
<1>28. CASE AssignNew
  BY <1>0, <1>28 DEF AssignNew, KeepWorker, CanAssign, NoAssign, Commanded,
      NoOp, Open, Surveyed, AwakeInv, GoalInv, StartInv, Labs, Ops,
      Controllers, Kernels, Pends
<1>29. CASE AssignAgain
  BY <1>0, <1>29 DEF AssignAgain, KeepWorker, CanAssign, NoAssign, Commanded,
      NoOp, Open, Surveyed, AwakeInv, GoalInv, StartInv, Labs, Ops,
      Controllers, Kernels, Pends
<1>30. CASE InstallAssigned
  BY <1>0, <1>30 DEF InstallAssigned, WorkerGoal, NoAssign, AwakeInv, GoalInv,
      StartInv, Open, Labs, Ops, Controllers, Kernels, Pends
<1>31. CASE InstallFails
  BY <1>0, <1>31 DEF InstallFails, KeepWorker, NoAssign, AwakeInv, GoalInv,
      StartInv, Open, Labs, Ops, Controllers, Kernels, Pends
<1>32. CASE CommitAssigned
  BY <1>0, <1>32, CommitKeeps DEF Open, AwakeInv, GoalInv, StartInv, Labs,
      Ops, Controllers, Kernels, Pends
<1>33. CASE Submit
  BY <1>0, <1>33 DEF Submit, KeepLab, Called, NoOp, NoSub, Open, AwakeInv,
      GoalInv, StartInv, Labs, Ops, Controllers, Kernels, Pends
<1>34. CASE SubmitAgain
  BY <1>0, <1>34 DEF SubmitAgain, KeepLab, Called, NoOp, NoSub, Open,
      AwakeInv, GoalInv, StartInv, Labs, Ops, Controllers, Kernels, Pends
<1>35. CASE Record
  BY <1>0, <1>35, RecordKeeps DEF Open, AwakeInv, GoalInv, StartInv, Labs,
      Ops, Controllers, Kernels, Pends
<1>36. CASE Notify
  BY <1>0, <1>36, NotifyKeeps DEF Open, AwakeInv, GoalInv, StartInv, Labs,
      Ops, Controllers, Kernels, Pends
<1>37. CASE Attach
  BY <1>0, <1>37 DEF Attach, KeepLab, KeepWorker, Open, AwakeInv, GoalInv,
      StartInv, Labs, Ops, Controllers, Kernels, Pends
<1>38. CASE Detach
  BY <1>0, <1>38 DEF Detach, KeepLab, KeepWorker, Reloaded, Stale, Forgets,
      Lost, AwakeInv, GoalInv, StartInv, Open, Labs, Ops, Controllers,
      Kernels, Pends
<1>39. CASE Boot
  BY <1>0, <1>39 DEF Boot, KeepLab, KeepWorker, NoPend, AwakeInv, GoalInv,
      StartInv, Open, Labs, Ops, Controllers, Kernels, Pends
<1>40. CASE Close
  BY <1>0, <1>40 DEF Close, KeepLab, KeepWorker, Open, AwakeInv, GoalInv,
      StartInv, Labs, Ops, Controllers, Kernels, Pends
<1>41. CASE Shutdown
  BY <1>0, <1>41 DEF Shutdown, NoOp, NoPend, NoAssign, NoSub, Reloaded,
      Forgets, Lost, AwakeInv, GoalInv, StartInv, Open, Labs, Ops,
      Controllers, Kernels, Pends
<1>42. CASE Crash
  BY <1>0, <1>42 DEF Crash, NoOp, NoPend, NoAssign, NoSub, Reloaded, Forgets,
      Lost, AwakeInv, GoalInv, StartInv, Open, Labs, Ops, Controllers,
      Kernels, Pends
<1>43. CASE Disturb
  BY <1>0, <1>43 DEF Disturb, KeepWorker, Transition, NoOp, Open, AwakeInv,
      GoalInv, StartInv, Labs, Ops, Controllers, Kernels, Pends
<1>44. CASE UNCHANGED vars
  BY <1>44 DEF vars, AwakeInv, GoalInv, StartInv, Open
<1> QED
  BY <1>1, <1>2, <1>3, <1>4, <1>5, <1>6, <1>7, <1>8, <1>9, <1>10, <1>11,
      <1>12, <1>13, <1>14, <1>15, <1>16, <1>17, <1>18, <1>19, <1>20, <1>21,
      <1>22, <1>23, <1>24, <1>25, <1>26, <1>27, <1>28, <1>29, <1>30, <1>31,
      <1>32, <1>33, <1>34, <1>35, <1>36, <1>37, <1>38, <1>39, <1>40, <1>41,
      <1>42, <1>43, <1>44 DEF Next, Operate, Follow, Command, Work,
      Environment

LEMMA PendInvStep ==
    ASSUME TypeOK, PendInv, [Next]_vars
    PROVE  PendInv'
<1>0. op \in Ops /\ ctrl \in Controllers /\ pend \in Pends
  BY DEF TypeOK
<1>1. CASE Arm
  BY <1>0, <1>1 DEF Arm, KeepLab, KeepWorker, Onward, ArmNow, Goto, Finish,
      Transition, Desired, NoOp, PendInv, Ops, Controllers, Pends
<1>2. CASE Apply
  BY <1>0, <1>2 DEF Apply, KeepLab, Transition, Onward, Throw, Goto, Finish,
      NoOp, PendInv, Ops, Controllers, Pends
<1>3. CASE ApplyInVain
  BY <1>0, <1>3 DEF ApplyInVain, KeepLab, KeepWorker, Throw, Goto, Finish,
      NoOp, PendInv, Ops, Controllers, Pends
<1>4. CASE Activate
  BY <1>0, <1>4 DEF Activate, Transition, Goto, Staged, Aborted, Open,
      PendInv, Ops, Controllers, Pends
<1>5. CASE ActivationBlocked
  BY <1>0, <1>5 DEF ActivationBlocked, RestWorker, Transition, Goto, Aborted,
      WorkerGoal, Open, PendInv, Ops, Controllers, Pends
<1>6. CASE ActivationFails
  BY <1>0, <1>6 DEF ActivationFails, KeepLab, Goto, Aborted, Open, PendInv,
      Ops, Controllers, Pends
<1>7. CASE Run
  BY <1>0, <1>7 DEF Run, KeepWorker, InstallWorker, WorkerGoal, Transition,
      Goto, PendInv, Ops, Controllers, Pends
<1>8. CASE Rest
  BY <1>0, <1>8 DEF Rest, KeepLab, KeepWorker, RestWorker, Finish, WorkerGoal,
      NoOp, PendInv, Ops, Controllers, Pends
<1>9. CASE StartFails
  BY <1>0, <1>9 DEF StartFails, RestWorker, Transition, Finish, WorkerGoal,
      NoOp, PendInv, Ops, Controllers, Pends
<1>10. CASE PauseAttaches
  BY <1>0, <1>10 DEF PauseAttaches, KeepLab, Goto, Aborted, Open, PendInv,
      Ops, Controllers, Pends
<1>11. CASE PauseAttachFails
  BY <1>0, <1>11 DEF PauseAttachFails, Transition, Finish, Aborted, NoOp,
      Open, PendInv, Ops, Controllers, Pends
<1>12. CASE PauseRoles
  BY <1>0, <1>12 DEF PauseRoles, KeepLab, KeepWorker, RestWorker, Goto,
      Aborted, WorkerGoal, Open, PendInv, Ops, Controllers, Pends
<1>13. CASE PauseController
  BY <1>0, <1>13 DEF PauseController, Transition, Finish, Open, MayPause,
      FlushController, NoOp, PendInv, Ops, Controllers, Pends
<1>14. CASE Replay
  BY <1>0, <1>14 DEF Replay, KeepLab, KeepWorker, Finish, NoOp, PendInv, Ops,
      Controllers, Pends
<1>15. CASE Wake
  BY <1>0, <1>15 DEF Wake, KeepLab, KeepWorker, Transition, Finish, NoOp,
      PendInv, Ops, Controllers, Pends
<1>16. CASE Deliver
  BY <1>0, <1>16 DEF Deliver, KeepLab, Transition, Finish, AtRest,
      FlushController, NoOp, PendInv, Ops, Controllers, Pends
<1>17. CASE DeliverInVain
  BY <1>0, <1>17 DEF DeliverInVain, KeepLab, KeepWorker, Finish, NoOp,
      PendInv, Ops, Controllers, Pends
<1>18. CASE StopEnds
  BY <1>0, <1>18 DEF StopEnds, KeepLab, KeepWorker, Transition, NoOp, PendInv,
      Ops, Controllers, Pends
<1>19. CASE ResumeStarts
  BY <1>0, <1>19 DEF ResumeStarts, KeepLab, KeepWorker, NoOp, Open, PendInv,
      Ops, Controllers, Pends
<1>20. CASE Reconcile
  BY <1>0, <1>20 DEF Reconcile, KeepLab, Transition, NoOp, FlushController,
      Surveyed, PendInv, Ops, Controllers, Pends
<1>21. CASE Survey
  BY <1>0, <1>21 DEF Survey, KeepLab, KeepWorker, Open, PendInv, Ops,
      Controllers, Pends
<1>22. CASE Recover
  BY <1>0, <1>22 DEF Recover, KeepWorker, NoOp, Surveyed, PendInv, Ops,
      Controllers, Pends
<1>23. CASE Start
  BY <1>0, <1>23 DEF Start, KeepWorker, Commanded, NoOp, Open, Surveyed,
      PendInv, Ops, Controllers, Pends
<1>24. CASE Pause
  BY <1>0, <1>24 DEF Pause, KeepWorker, Commanded, NoOp, Open, Surveyed,
      PendInv, Ops, Controllers, Pends
<1>25. CASE Stop
  BY <1>0, <1>25 DEF Stop, KeepLab, KeepWorker, Commanded, NoOp, Open,
      Surveyed, PendInv, Ops, Controllers, Pends
<1>26. CASE WaitController
  BY <1>0, <1>26 DEF WaitController, KeepLab, Transition, FlushController,
      Commanded, NoOp, Open, Surveyed, PendInv, Ops, Controllers, Pends
<1>27. CASE Resume
  BY <1>0, <1>27 DEF Resume, KeepWorker, Transition, Commanded, NoOp, Open,
      Surveyed, PendInv, Ops, Controllers, Pends
<1>28. CASE AssignNew
  BY <1>0, <1>28 DEF AssignNew, KeepWorker, CanAssign, NoAssign, Commanded,
      NoOp, Open, Surveyed, PendInv, Ops, Controllers, Pends
<1>29. CASE AssignAgain
  BY <1>0, <1>29 DEF AssignAgain, KeepWorker, CanAssign, NoAssign, Commanded,
      NoOp, Open, Surveyed, PendInv, Ops, Controllers, Pends
<1>30. CASE InstallAssigned
  BY <1>0, <1>30 DEF InstallAssigned, WorkerGoal, NoAssign, PendInv, Ops,
      Controllers, Pends
<1>31. CASE InstallFails
  BY <1>0, <1>31 DEF InstallFails, KeepWorker, NoAssign, PendInv, Ops,
      Controllers, Pends
<1>32. CASE CommitAssigned
  BY <1>0, <1>32 DEF CommitAssigned, KeepWorker, NoOp, NoAssign, Open,
      PendInv, Ops, Controllers, Pends
<1>33. CASE Submit
  BY <1>0, <1>33 DEF Submit, KeepLab, Called, NoOp, NoSub, Open, PendInv, Ops,
      Controllers, Pends
<1>34. CASE SubmitAgain
  BY <1>0, <1>34 DEF SubmitAgain, KeepLab, Called, NoOp, NoSub, Open, PendInv,
      Ops, Controllers, Pends
<1>35. CASE Record
  BY <1>0, <1>35 DEF Record, KeepLab, Transition, NoOp, NoSub, Open, PendInv,
      Ops, Controllers, Pends
<1>36. CASE Notify
  BY <1>0, <1>36 DEF Notify, KeepLab, NoOp, NoSub, Open, PendInv, Ops,
      Controllers, Pends
<1>37. CASE Attach
  BY <1>0, <1>37 DEF Attach, KeepLab, KeepWorker, Open, PendInv, Ops,
      Controllers, Pends
<1>38. CASE Detach
  BY <1>0, <1>38 DEF Detach, KeepLab, KeepWorker, Reloaded, Stale, Forgets,
      Lost, PendInv, Ops, Controllers, Pends
<1>39. CASE Boot
  BY <1>0, <1>39 DEF Boot, KeepLab, KeepWorker, NoPend, PendInv, Ops,
      Controllers, Pends
<1>40. CASE Close
  BY <1>0, <1>40 DEF Close, KeepLab, KeepWorker, Open, PendInv, Ops,
      Controllers, Pends
<1>41. CASE Shutdown
  BY <1>0, <1>41 DEF Shutdown, NoOp, NoPend, NoAssign, NoSub, Reloaded,
      Forgets, Lost, PendInv, Ops, Controllers, Pends
<1>42. CASE Crash
  BY <1>0, <1>42 DEF Crash, NoOp, NoPend, NoAssign, NoSub, Reloaded, Forgets,
      Lost, PendInv, Ops, Controllers, Pends
<1>43. CASE Disturb
  BY <1>0, <1>43 DEF Disturb, KeepWorker, Transition, NoOp, Open, PendInv,
      Ops, Controllers, Pends
<1>44. CASE UNCHANGED vars
  BY <1>44 DEF vars, PendInv
<1> QED
  BY <1>1, <1>2, <1>3, <1>4, <1>5, <1>6, <1>7, <1>8, <1>9, <1>10, <1>11,
      <1>12, <1>13, <1>14, <1>15, <1>16, <1>17, <1>18, <1>19, <1>20, <1>21,
      <1>22, <1>23, <1>24, <1>25, <1>26, <1>27, <1>28, <1>29, <1>30, <1>31,
      <1>32, <1>33, <1>34, <1>35, <1>36, <1>37, <1>38, <1>39, <1>40, <1>41,
      <1>42, <1>43, <1>44 DEF Next, Operate, Follow, Command, Work,
      Environment

LEMMA ToldInvStep ==
    ASSUME TypeOK, StartInv, ToldInv, [Next]_vars
    PROVE  ToldInv'
<1>0. lab \in Labs /\ op \in Ops /\ sub \in Subs /\ told \in [Orders -> {"no", "shown", "logged"}]
  BY DEF TypeOK
<1>1. CASE Arm
  BY <1>0, <1>1, ArmKeeps DEF Arm, KeepWorker, Open, ToldInv, Labs, Ops, Subs
<1>2. CASE Apply
  BY <1>0, <1>2 DEF Apply, KeepLab, Transition, Onward, Throw, Goto, Finish,
      NoOp, ToldInv, Labs, Ops, Subs
<1>3. CASE ApplyInVain
  BY <1>0, <1>3 DEF ApplyInVain, KeepLab, KeepWorker, Throw, Goto, Finish,
      NoOp, ToldInv, Labs, Ops, Subs
<1>4. CASE Activate
  BY <1>0, <1>4 DEF Activate, Transition, Goto, Staged, Aborted, Open,
      ToldInv, Labs, Ops, Subs
<1>5. CASE ActivationBlocked
  BY <1>0, <1>5 DEF ActivationBlocked, RestWorker, Transition, Goto, Aborted,
      WorkerGoal, Open, ToldInv, Labs, Ops, Subs
<1>6. CASE ActivationFails
  BY <1>0, <1>6 DEF ActivationFails, KeepLab, Goto, Aborted, Open, ToldInv,
      Labs, Ops, Subs
<1>7. CASE Run
  BY <1>0, <1>7 DEF Run, KeepWorker, InstallWorker, WorkerGoal, Transition,
      Goto, ToldInv, Labs, Ops, Subs
<1>8. CASE Rest
  BY <1>0, <1>8 DEF Rest, KeepLab, KeepWorker, RestWorker, Finish, WorkerGoal,
      NoOp, ToldInv, Labs, Ops, Subs
<1>9. CASE StartFails
  BY <1>0, <1>9 DEF StartFails, RestWorker, Transition, Finish, WorkerGoal,
      NoOp, ToldInv, Labs, Ops, Subs
<1>10. CASE PauseAttaches
  BY <1>0, <1>10 DEF PauseAttaches, KeepLab, Goto, Aborted, Open, ToldInv,
      Labs, Ops, Subs
<1>11. CASE PauseAttachFails
  BY <1>0, <1>11 DEF PauseAttachFails, Transition, Finish, Aborted, NoOp,
      Open, ToldInv, Labs, Ops, Subs
<1>12. CASE PauseRoles
  BY <1>0, <1>12 DEF PauseRoles, KeepLab, KeepWorker, RestWorker, Goto,
      Aborted, WorkerGoal, Open, ToldInv, Labs, Ops, Subs
<1>13. CASE PauseController
  BY <1>0, <1>13 DEF PauseController, Transition, Finish, Open, MayPause,
      FlushController, NoOp, ToldInv, Labs, Ops, Subs
<1>14. CASE Replay
  BY <1>0, <1>14 DEF Replay, KeepLab, KeepWorker, Finish, NoOp, ToldInv, Labs,
      Ops, Subs
<1>15. CASE Wake
  BY <1>0, <1>15, WakeKeeps, WakeEffect DEF Open, ToldInv, Labs, Ops, Subs
<1>16. CASE Deliver
  <2>1. sub' = sub /\ op.at = "deliver"
    BY <1>16 DEF Deliver
  <2>2. lab'.receipt = lab.receipt
    BY <1>16 DEF Deliver, KeepLab, Transition
  <2>3. marks \ {"halfway"} \subseteq marks'
    BY <1>16 DEF Deliver
  <2>4. ASSUME lab.receipt # 0, told'[lab.receipt] = "no", "missed" \notin marks'
        PROVE  told[lab.receipt] = "no" /\ op.asg # lab.receipt
    <3>1. lab.receipt \in Orders
      BY <2>4, ReceiptOrder
    <3>2. PICK how \in {"logged", "shown"} : told' = [told EXCEPT ![op.asg] = how]
      BY <1>16, <2>4 DEF Deliver
    <3> QED BY <1>0, <2>4, <3>1, <3>2
  <2> QED BY <2>1, <2>2, <2>3, <2>4 DEF ToldInv
<1>17. CASE DeliverInVain
  BY <1>0, <1>17 DEF DeliverInVain, KeepLab, KeepWorker, Finish, NoOp,
      ToldInv, Labs, Ops, Subs
<1>18. CASE StopEnds
  BY <1>0, <1>18 DEF StopEnds, KeepLab, KeepWorker, Transition, NoOp, ToldInv,
      Labs, Ops, Subs
<1>19. CASE ResumeStarts
  BY <1>0, <1>19, StartingKeeps, StartingEffect DEF ResumeStarts, KeepLab,
      KeepWorker, NoOp, Open, ToldInv, Labs, Ops, Subs
<1>20. CASE Reconcile
  BY <1>0, <1>20, ReconcileKeeps DEF Open, ToldInv, Labs, Ops, Subs
<1>21. CASE Survey
  BY <1>0, <1>21 DEF Survey, KeepLab, KeepWorker, Open, ToldInv, Labs, Ops,
      Subs
<1>22. CASE Recover
  BY <1>0, <1>22, StartingKeeps, StartingEffect, PausingKeeps DEF Recover,
      KeepWorker, NoOp, Surveyed, ToldInv, Labs, Ops, Subs
<1>23. CASE Start
  <2>1. Starting("user", TRUE) /\ UNCHANGED <<told, sub, marks>> /\ op.at = "none"
    BY <1>23 DEF Start, Commanded, KeepWorker, NoOp
  <2>2. lab'.receipt = lab.receipt
    BY <2>1, StartingKeeps
  <2> QED BY <2>1, <2>2 DEF ToldInv
<1>24. CASE Pause
  <2>1. PICK then \in {"done", "stop"} : Pausing("user", TRUE, then)
    BY <1>24 DEF Pause
  <2>2. UNCHANGED <<told, sub, marks>> /\ op.at = "none"
    BY <1>24 DEF Pause, Commanded, KeepWorker, NoOp
  <2>3. lab'.receipt = lab.receipt
    BY <2>1, PausingKeeps
  <2> QED BY <2>2, <2>3 DEF ToldInv
<1>25. CASE Stop
  BY <1>0, <1>25 DEF Stop, KeepLab, KeepWorker, Commanded, NoOp, Open,
      Surveyed, ToldInv, Labs, Ops, Subs
<1>26. CASE WaitController
  BY <1>0, <1>26 DEF WaitController, KeepLab, Transition, FlushController,
      Commanded, NoOp, Open, Surveyed, ToldInv, Labs, Ops, Subs
<1>27. CASE Resume
  BY <1>0, <1>27 DEF Resume, KeepWorker, Transition, Commanded, NoOp, Open,
      Surveyed, ToldInv, Labs, Ops, Subs
<1>28. CASE AssignNew
  BY <1>0, <1>28 DEF AssignNew, KeepWorker, CanAssign, NoAssign, Commanded,
      NoOp, Open, Surveyed, ToldInv, Labs, Ops, Subs
<1>29. CASE AssignAgain
  BY <1>0, <1>29 DEF AssignAgain, KeepWorker, CanAssign, NoAssign, Commanded,
      NoOp, Open, Surveyed, ToldInv, Labs, Ops, Subs
<1>30. CASE InstallAssigned
  BY <1>0, <1>30 DEF InstallAssigned, WorkerGoal, NoAssign, ToldInv, Labs,
      Ops, Subs
<1>31. CASE InstallFails
  BY <1>0, <1>31 DEF InstallFails, KeepWorker, NoAssign, ToldInv, Labs, Ops,
      Subs
<1>32. CASE CommitAssigned
  BY <1>0, <1>32, CommitKeeps DEF Open, ToldInv, Labs, Ops, Subs
<1>33. CASE Submit
  BY <1>0, <1>33 DEF Submit, KeepLab, Called, NoOp, NoSub, Open, ToldInv,
      Labs, Ops, Subs
<1>34. CASE SubmitAgain
  BY <1>0, <1>34 DEF SubmitAgain, KeepLab, Called, NoOp, NoSub, Open, ToldInv,
      Labs, Ops, Subs
<1>35. CASE Record
  <2>1. CASE lab' = lab
    BY <1>35, <2>1, RecordKeeps DEF ToldInv
  <2>2. CASE lab' # lab
    BY <1>35, <2>2, RecordKeeps DEF ToldInv
  <2> QED BY <2>1, <2>2
<1>36. CASE Notify
  BY <1>0, <1>36, NotifyKeeps DEF Open, ToldInv, Labs, Ops, Subs
<1>37. CASE Attach
  BY <1>0, <1>37 DEF Attach, KeepLab, KeepWorker, Open, ToldInv, Labs, Ops,
      Subs
<1>38. CASE Detach
  <2>1. UNCHANGED <<lab, sub>> /\ op'.at = op.at /\ op'.asg = op.asg
    BY <1>0, <1>38 DEF Detach, KeepLab, KeepWorker, Ops
  <2>2. Forgets /\ marks \subseteq marks' /\ Lost \subseteq marks'
    BY <1>38 DEF Detach
  <2>3. ASSUME lab.receipt # 0, told'[lab.receipt] = "no", "missed" \notin marks'
        PROVE  told[lab.receipt] = "no"
    BY <2>2, <2>3, ReceiptOrder, LostSeen
  <2> QED BY <2>1, <2>2, <2>3 DEF ToldInv
<1>39. CASE Boot
  BY <1>0, <1>39 DEF Boot, KeepLab, KeepWorker, NoPend, ToldInv, Labs, Ops,
      Subs
<1>40. CASE Close
  BY <1>0, <1>40 DEF Close, KeepLab, KeepWorker, Open, ToldInv, Labs, Ops,
      Subs
<1>41. CASE Shutdown
  <2>1. /\ lab' = lab /\ op.at = "none" /\ marks \subseteq marks' /\ Lost \subseteq marks'
        /\ sub.at = "notify" => "missed" \in marks'
    BY <1>41 DEF Shutdown, NoOp
  <2>2. told' = told \/ Forgets
    BY <1>41 DEF Shutdown
  <2>3. ASSUME lab.receipt # 0, told'[lab.receipt] = "no", "missed" \notin marks'
        PROVE  told[lab.receipt] = "no"
    BY <2>1, <2>2, <2>3, ReceiptOrder, LostSeen
  <2> QED BY <2>1, <2>3 DEF ToldInv
<1>42. CASE Crash
  <2>1. lab' = lab /\ (sub.at = "notify" \/ op.at \in {"wake", "deliver"} => "missed" \in marks')
    BY <1>0, <1>42 DEF Crash
  <2>2. Forgets /\ marks \subseteq marks' /\ Lost \subseteq marks'
    BY <1>42 DEF Crash
  <2>3. ASSUME lab.receipt # 0, told'[lab.receipt] = "no", "missed" \notin marks'
        PROVE  told[lab.receipt] = "no"
    BY <2>2, <2>3, ReceiptOrder, LostSeen
  <2> QED BY <2>1, <2>2, <2>3 DEF ToldInv
<1>43. CASE Disturb
  BY <1>0, <1>43 DEF Disturb, KeepWorker, Transition, NoOp, Open, ToldInv,
      Labs, Ops, Subs
<1>44. CASE UNCHANGED vars
  BY <1>44 DEF vars, ToldInv
<1> QED
  BY <1>1, <1>2, <1>3, <1>4, <1>5, <1>6, <1>7, <1>8, <1>9, <1>10, <1>11,
      <1>12, <1>13, <1>14, <1>15, <1>16, <1>17, <1>18, <1>19, <1>20, <1>21,
      <1>22, <1>23, <1>24, <1>25, <1>26, <1>27, <1>28, <1>29, <1>30, <1>31,
      <1>32, <1>33, <1>34, <1>35, <1>36, <1>37, <1>38, <1>39, <1>40, <1>41,
      <1>42, <1>43, <1>44 DEF Next, Operate, Follow, Command, Work,
      Environment

-----------------------------------------------------------------------------
(* What one step may do to the Lab.                                        *)

LEMMA LabChanges ==
    ASSUME [Next]_vars
    PROVE  lab' = lab \/ Arm \/ Apply \/ Activate \/ ActivationBlocked \/ Run
        \/ StartFails \/ PauseAttachFails \/ PauseController \/ Wake \/
        Deliver \/ StopEnds \/ ResumeStarts \/ Reconcile \/ Recover \/ Start
        \/ Pause \/ WaitController \/ Resume \/ AssignNew \/ CommitAssigned \/
        Record \/ Disturb
<1>1. Operate => lab' = lab \/ Arm \/ Apply \/ Activate \/ ActivationBlocked
    \/ Run \/ StartFails \/ PauseAttachFails \/ PauseController \/ Wake \/
    Deliver \/ StopEnds \/ ResumeStarts \/ Reconcile \/ Recover \/ Start \/
    Pause \/ WaitController \/ Resume \/ AssignNew \/ CommitAssigned \/ Record
    \/ Disturb
  BY DEF Operate, ApplyInVain, ActivationFails, Rest, PauseAttaches,
      PauseRoles, Replay, DeliverInVain, KeepLab
<1>2. Follow => lab' = lab \/ Arm \/ Apply \/ Activate \/ ActivationBlocked \/
    Run \/ StartFails \/ PauseAttachFails \/ PauseController \/ Wake \/
    Deliver \/ StopEnds \/ ResumeStarts \/ Reconcile \/ Recover \/ Start \/
    Pause \/ WaitController \/ Resume \/ AssignNew \/ CommitAssigned \/ Record
    \/ Disturb
  BY DEF Follow, Survey, KeepLab
<1>3. Command => lab' = lab \/ Arm \/ Apply \/ Activate \/ ActivationBlocked
    \/ Run \/ StartFails \/ PauseAttachFails \/ PauseController \/ Wake \/
    Deliver \/ StopEnds \/ ResumeStarts \/ Reconcile \/ Recover \/ Start \/
    Pause \/ WaitController \/ Resume \/ AssignNew \/ CommitAssigned \/ Record
    \/ Disturb
  BY DEF Command, Stop, KeepLab
<1>4. Work => lab' = lab \/ Arm \/ Apply \/ Activate \/ ActivationBlocked \/
    Run \/ StartFails \/ PauseAttachFails \/ PauseController \/ Wake \/
    Deliver \/ StopEnds \/ ResumeStarts \/ Reconcile \/ Recover \/ Start \/
    Pause \/ WaitController \/ Resume \/ AssignNew \/ CommitAssigned \/ Record
    \/ Disturb
  BY DEF Work, AssignAgain, InstallAssigned, InstallFails, Submit,
      SubmitAgain, Notify, KeepLab
<1>5. Environment => lab' = lab \/ Arm \/ Apply \/ Activate \/
    ActivationBlocked \/ Run \/ StartFails \/ PauseAttachFails \/
    PauseController \/ Wake \/ Deliver \/ StopEnds \/ ResumeStarts \/
    Reconcile \/ Recover \/ Start \/ Pause \/ WaitController \/ Resume \/
    AssignNew \/ CommitAssigned \/ Record \/ Disturb
  BY DEF Environment, Attach, Detach, Boot, Close, Shutdown, Crash, KeepLab
<1> QED BY <1>1, <1>2, <1>3, <1>4, <1>5 DEF Next, vars

LEMMA WaitStep ==
    ASSUME TypeOK, StartInv, WaitInv, [Next]_vars
    PROVE  lab.waiting => \/ lab'.waiting \/ op.at = "wake" \/ (pend.start = "no" /\ pend'.start = "own")
<1>0. lab \in Labs /\ op \in Ops /\ pend \in Pends
  BY DEF TypeOK
<1>1. CASE Arm
  BY <1>0, <1>1, ArmEffect DEF WaitInv, Labs, Ops, Pends
<1>2. CASE Apply
  BY <1>0, <1>2 DEF Apply, Transition, KeepLab, Onward, Finish, NoOp, Goto,
      Throw, WaitInv, Labs, Ops, Pends
<1>3. CASE Activate
  BY <1>0, <1>3 DEF Activate, Aborted, Open, Transition, Staged, Goto,
      WaitInv, Labs, Ops, Pends
<1>4. CASE ActivationBlocked
  BY <1>0, <1>4 DEF ActivationBlocked, Aborted, Open, Transition, Goto,
      WaitInv, Labs, Ops, Pends
<1>5. CASE Run
  BY <1>0, <1>5 DEF Run, Transition, Goto, WaitInv, Labs, Ops, Pends
<1>6. CASE StartFails
  BY <1>0, <1>6 DEF StartFails, Transition, Finish, NoOp, WaitInv, Labs, Ops,
      Pends
<1>7. CASE PauseAttachFails
  BY <1>0, <1>7 DEF PauseAttachFails, Aborted, Open, Transition, Finish, NoOp,
      WaitInv, Labs, Ops, Pends
<1>8. CASE PauseController
  BY <1>0, <1>8 DEF PauseController, Transition, Open, Finish, NoOp, WaitInv,
      Labs, Ops, Pends
<1>9. CASE Wake
  BY <1>0, <1>9, WakeEffect DEF WaitInv, Labs, Ops, Pends
<1>10. CASE Deliver
  BY <1>0, <1>10 DEF Deliver, KeepLab, Transition, AtRest, Finish, NoOp,
      WaitInv, Labs, Ops, Pends
<1>11. CASE StopEnds
  BY <1>0, <1>11 DEF StopEnds, NoOp, Transition, KeepLab, WaitInv, Labs, Ops,
      Pends
<1>12. CASE ResumeStarts
  BY <1>0, <1>12, StartingEffect DEF ResumeStarts, NoOp, Open, KeepLab,
      WaitInv, Labs, Ops, Pends
<1>13. CASE Reconcile
  BY <1>0, <1>13 DEF Reconcile, NoOp, Surveyed, KeepLab, Transition, WaitInv,
      Labs, Ops, Pends
<1>14. CASE Recover
  BY <1>0, <1>14, StartingEffect, PausingEffect DEF Recover, Surveyed, NoOp,
      Open, KeepLab, WaitInv, Labs, Ops, Pends
<1>15. CASE Start
  BY <1>0, <1>15, StartingEffect DEF Start, NoOp, KeepLab, WaitInv, Labs, Ops,
      Pends
<1>16. CASE Pause
  BY <1>0, <1>16, PausingEffect DEF Pause, Commanded, NoOp, KeepLab, WaitInv,
      Labs, Ops, Pends
<1>17. CASE WaitController
  BY <1>0, <1>17 DEF WaitController, Commanded, Open, NoOp, Surveyed,
      Transition, KeepLab, WaitInv, Labs, Ops, Pends
<1>18. CASE Resume
  BY <1>0, <1>18 DEF Resume, Commanded, Open, NoOp, Surveyed, Startable,
      Transition, WaitInv, Labs, Ops, Pends
<1>19. CASE AssignNew
  BY <1>0, <1>19 DEF AssignNew, CanAssign, Commanded, Open, NoOp, Surveyed,
      NoAssign, WaitInv, Labs, Ops, Pends
<1>20. CASE CommitAssigned
  BY <1>0, <1>20 DEF CommitAssigned, NoOp, Open, NoAssign, WaitInv, Labs, Ops,
      Pends
<1>21. CASE Record
  BY <1>0, <1>21 DEF Record, NoOp, Open, Transition, NoSub, KeepLab, WaitInv,
      Labs, Ops, Pends
<1>22. CASE Disturb
  BY <1>0, <1>22 DEF Disturb, Open, NoOp, Transition, WaitInv, Labs, Ops,
      Pends
<1>23. CASE lab' = lab
  BY <1>23
<1> QED
  BY LabChanges, <1>1, <1>2, <1>3, <1>4, <1>5, <1>6, <1>7, <1>8, <1>9, <1>10,
      <1>11, <1>12, <1>13, <1>14, <1>15, <1>16, <1>17, <1>18, <1>19, <1>20,
      <1>21, <1>22, <1>23

LEMMA LegalStep ==
    ASSUME TypeOK, StartInv, PauseInv, [Next]_vars
    PROVE  lab'.life # lab.life => lab'.life \in LegalNext(lab.life)
<1>0. lab \in Labs /\ op \in Ops
  BY DEF TypeOK
<1>1. CASE Arm
  BY <1>0, <1>1, ArmEffect DEF StartInv, PauseInv, LegalNext, Lifecycles,
      Labs, Ops
<1>2. CASE Apply
  BY <1>0, <1>2, ApplyEffect DEF StartInv, PauseInv, LegalNext, Lifecycles,
      Labs, Ops
<1>3. CASE Activate
  BY <1>0, <1>3 DEF Activate, Aborted, Open, Transition, Staged, Goto,
      StartInv, PauseInv, LegalNext, Lifecycles, Labs, Ops
<1>4. CASE ActivationBlocked
  BY <1>0, <1>4 DEF ActivationBlocked, Aborted, Open, Transition, Goto,
      StartInv, PauseInv, LegalNext, Lifecycles, Labs, Ops
<1>5. CASE Run
  BY <1>0, <1>5 DEF Run, Transition, Goto, StartInv, PauseInv, LegalNext,
      Lifecycles, Labs, Ops
<1>6. CASE StartFails
  BY <1>0, <1>6 DEF StartFails, Transition, Finish, NoOp, StartInv, PauseInv,
      LegalNext, Lifecycles, Labs, Ops
<1>7. CASE PauseAttachFails
  BY <1>0, <1>7 DEF PauseAttachFails, Aborted, Open, Transition, Finish, NoOp,
      StartInv, PauseInv, LegalNext, Lifecycles, Labs, Ops
<1>8. CASE PauseController
  BY <1>0, <1>8 DEF PauseController, Transition, Open, Finish, NoOp, StartInv,
      PauseInv, LegalNext, Lifecycles, Labs, Ops
<1>9. CASE Wake
  BY <1>0, <1>9, WakeEffect DEF StartInv, PauseInv, LegalNext, Lifecycles,
      Labs, Ops
<1>10. CASE Deliver
  BY <1>0, <1>10 DEF Deliver, KeepLab, Transition, AtRest, Finish, NoOp,
      StartInv, PauseInv, LegalNext, Lifecycles, Labs, Ops
<1>11. CASE StopEnds
  BY <1>0, <1>11 DEF StopEnds, NoOp, Transition, KeepLab, StartInv, PauseInv,
      LegalNext, Lifecycles, Labs, Ops
<1>12. CASE ResumeStarts
  BY <1>0, <1>12, StartingEffect DEF ResumeStarts, NoOp, Open, KeepLab,
      StartInv, PauseInv, LegalNext, Lifecycles, Labs, Ops
<1>13. CASE Reconcile
  BY <1>0, <1>13 DEF Reconcile, NoOp, Surveyed, KeepLab, Transition, StartInv,
      PauseInv, LegalNext, Lifecycles, Labs, Ops
<1>14. CASE Recover
  BY <1>0, <1>14, StartingEffect, PausingEffect DEF Recover, Surveyed, NoOp,
      Open, KeepLab, StartInv, PauseInv, LegalNext, Lifecycles, Labs, Ops
<1>15. CASE Start
  BY <1>0, <1>15, StartingEffect DEF Start, NoOp, KeepLab, StartInv, PauseInv,
      LegalNext, Lifecycles, Labs, Ops
<1>16. CASE Pause
  BY <1>0, <1>16, PausingEffect DEF Pause, Commanded, NoOp, KeepLab, StartInv,
      PauseInv, LegalNext, Lifecycles, Labs, Ops
<1>17. CASE WaitController
  BY <1>0, <1>17 DEF WaitController, Commanded, Open, NoOp, Surveyed,
      Transition, KeepLab, StartInv, PauseInv, LegalNext, Lifecycles, Labs,
      Ops
<1>18. CASE Resume
  BY <1>0, <1>18 DEF Resume, Commanded, Open, NoOp, Surveyed, Startable,
      Transition, StartInv, PauseInv, LegalNext, Lifecycles, Labs, Ops
<1>19. CASE AssignNew
  BY <1>0, <1>19 DEF AssignNew, CanAssign, Commanded, Open, NoOp, Surveyed,
      NoAssign, StartInv, PauseInv, LegalNext, Lifecycles, Labs, Ops
<1>20. CASE CommitAssigned
  BY <1>0, <1>20 DEF CommitAssigned, NoOp, Open, NoAssign, StartInv, PauseInv,
      LegalNext, Lifecycles, Labs, Ops
<1>21. CASE Record
  BY <1>0, <1>21 DEF Record, NoOp, Open, Transition, NoSub, KeepLab, StartInv,
      PauseInv, LegalNext, Lifecycles, Labs, Ops
<1>22. CASE Disturb
  BY <1>0, <1>22 DEF Disturb, Open, NoOp, Transition, StartInv, PauseInv,
      LegalNext, Lifecycles, Labs, Ops
<1>23. CASE lab' = lab
  BY <1>23
<1> QED
  BY LabChanges, <1>1, <1>2, <1>3, <1>4, <1>5, <1>6, <1>7, <1>8, <1>9, <1>10,
      <1>11, <1>12, <1>13, <1>14, <1>15, <1>16, <1>17, <1>18, <1>19, <1>20,
      <1>21, <1>22, <1>23

-----------------------------------------------------------------------------
LEMMA LabInit == Init => LabInv
<1> SUFFICES ASSUME Init PROVE LabInv
  OBVIOUS
<1>1. 0 \in 0..MaxOrders /\ 0 \in 0..MaxTrouble
  BY LifecycleAssumption
<1>2. lab \in Labs
  BY <1>1 DEF Init, Labs, Lifecycles
<1>3. op \in Ops
  BY <1>1 DEF Init, NoOp, Ops, Places
<1>4. kernel \in Kernels /\ pend \in Pends /\ ctrl \in Controllers
  BY DEF Init, Kernels, Pends, NoPend, Controllers
<1>5. worker \in Workers /\ saved \in Saves /\ assign \in Assigns /\ sub \in Subs
  BY <1>1 DEF Init, Workers, Saves, Assigns, NoAssign, Subs, NoSub
<1>6. /\ told \in [Orders -> {"no", "shown", "logged"}]
      /\ trouble \in 0..MaxTrouble
      /\ marks \subseteq {"missed", "halfway", "woken", "late"}
  BY <1>1 DEF Init
<1>7. TypeOK
  BY <1>2, <1>3, <1>4, <1>5, <1>6 DEF TypeOK
<1>8. StartInv /\ PauseInv /\ WaitInv /\ AssignInv /\ Dormant
  BY DEF Init, NoOp, NoAssign, StartInv, PauseInv, WaitInv, AssignInv, Dormant
<1>9. GoalInv /\ AwakeInv /\ PendInv /\ ToldInv
  BY DEF Init, NoOp, NoPend, GoalInv, AwakeInv, PendInv, ToldInv
<1> QED BY <1>7, <1>8, <1>9 DEF LabInv

LEMMA LabStep == LabInv /\ [Next]_vars => LabInv'
BY TypeStep, StartInvStep, WaitInvStep, PauseInvStep, AssignInvStep, DormantStep,
   GoalInvStep, AwakeInvStep, PendInvStep, ToldInvStep DEF LabInv

LEMMA LabInvariant == Spec => []LabInv
<1>1. Init => LabInv
  BY LabInit
<1>2. LabInv /\ [Next]_vars => LabInv'
  BY LabStep
<1> QED BY <1>1, <1>2, PTL DEF Spec

(* The state of a Lab, of its queue and of its Sessions has the declared    *)
(* shape, for any number of Assignments and of disturbances.                *)
THEOREM LabTypeCorrect == Spec => []TypeOK
<1>1. LabInv => TypeOK
  BY DEF LabInv
<1> QED BY <1>1, LabInvariant, PTL

(* A Goal that was put to rest by a wait, a pause, a stop or a recorded     *)
(* result does not continue, but for the two ways Dormant names.            *)
THEOREM GoalsRest == Spec => []Dormant
<1>1. LabInv => Dormant
  BY DEF LabInv
<1> QED BY <1>1, LabInvariant, PTL

(* In a running Lab that is at peace, the Goal of a live Controller that   *)
(* does not wait is armed, but for the ways AwakeWhenRunning names: no     *)
(* order of starts, attaches, waits, resumes, pauses and restarts leaves   *)
(* it asleep with nobody to wake it.                                       *)
THEOREM ControllerIsAwake == Spec => []AwakeWhenRunning
<1>1. AwakeInv => AwakeWhenRunning
  BY DEF AwakeInv, AwakeWhenRunning, Settled, NoOp, NoPend
<1>2. LabInv => AwakeInv
  BY DEF LabInv
<1> QED BY <1>1, <1>2, LabInvariant, PTL

(* The Controller of a running Lab is told of every recorded result, or    *)
(* the notice was missed since the latest attach.                          *)
THEOREM ResultsAreTold == Spec => []ResultIsTold
<1>1. ToldInv => ResultIsTold
  BY DEF ToldInv, ResultIsTold, Settled, NoOp, NoSub
<1>2. LabInv => ToldInv
  BY DEF LabInv
<1> QED BY <1>1, <1>2, LabInvariant, PTL

(* Nothing but an event or an explicit resume ends an AutoLabWait: no       *)
(* start, attach, pause, result or restart does.                            *)
THEOREM WaitsAreKept == Spec => WaitIsKept
<1>1. LabInv /\ LabInv' /\ [Next]_vars =>
        (lab.waiting => \/ lab'.waiting /\ ~ctrl'.armed
                        \/ op.at = "wake"
                        \/ pend.start = "no" /\ pend'.start = "own")
  BY WaitStep DEF LabInv, WaitInv
<1>2. LabInv /\ LabInv' /\ [Next]_vars =>
        [lab.waiting => \/ lab'.waiting /\ ~ctrl'.armed
                        \/ op.at = "wake"
                        \/ pend.start = "no" /\ pend'.start = "own"]_vars
  BY <1>1
<1> QED BY <1>2, LabInvariant, PTL DEF Spec, WaitIsKept

(* transition() never meets a change of the lifecycle it has to refuse.     *)
THEOREM LifecycleIsLegal == Spec => TransitionsAreLegal
<1>1. LabInv /\ [Next]_vars =>
        [lab'.life # lab.life => lab'.life \in LegalNext(lab.life)]_vars
  BY LegalStep DEF LabInv
<1> QED BY <1>1, LabInvariant, PTL DEF Spec, TransitionsAreLegal

=============================================================================
