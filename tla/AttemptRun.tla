----------------------------- MODULE AttemptRun -----------------------------
(***************************************************************************)
(* The local Attempts of one RunSlot, from the Controller's order to the   *)
(* outcome on record and the event in the Controller's Session.            *)
(*                                                                         *)
(* Three parties meet over files.  The Controller process consumes edges   *)
(* (src/attempt-runtime.ts): each edge reads RuntimeState, inspects the    *)
(* Attempt (src/runner.ts), launches it when nothing of it is there,       *)
(* reconciles what it saw (src/local-attempt-reconcile.ts) and publishes   *)
(* the result (src/index.ts).  The wrapper process                         *)
(* (scripts/attempt-wrapper.mjs) runs the command in a tmux session and    *)
(* leaves a log, a started receipt and an exit receipt.  The environment   *)
(* kills processes and sessions at will.                                   *)
(*                                                                         *)
(* Every receipt is durable before the next step of its writer, and every  *)
(* inspection reads one thing at a time.                                   *)
(***************************************************************************)
EXTENDS Integers, Sequences, FiniteSets

CONSTANTS
    MaxAttempts,    \* bound on the Attempts of the RunSlot
    MaxLaunches,    \* bound on the tmux sessions ever created
    MaxTrouble,     \* bound on crashes, failed probes and other disturbances
    MaxWaiting      \* bound on waiting edges beyond which a poke is lost

ASSUME BoundsAssumption ==
    /\ MaxAttempts \in Nat
    /\ MaxLaunches \in Nat
    /\ MaxTrouble \in Nat
    /\ MaxWaiting \in Nat

VARIABLES
    slot,       \* the RunSlot state and active Attempt in RuntimeState
    files,      \* files[a]: the log and receipts of Attempt a
    wrapper,    \* wrapper[w]: the w-th wrapper process
    command,    \* command[w]: the command that wrapper w spawned
    tmux,       \* tmux[a]: the wrapper that owns the session of a's name, or 0
    ctl,        \* the Controller process
    queue,      \* edges of this RunSlot that wait for their turn
    timers,     \* the one-shot timers that are armed
    job,        \* the edge that is being consumed
    attending,  \* the Lab runs and the Controller's Agent is attached
    told,       \* events in the Controller's Session
    trouble     \* disturbances so far

vars == <<slot, files, wrapper, command, tmux, ctl, queue, timers, job,
          attending, told, trouble>>

procVars == <<files, wrapper, command, tmux>>
ctlVars  == <<ctl, queue, timers, job>>

Attempts == 1..MaxAttempts
Wrappers == 1..MaxLaunches
Phases   == {"pending", "launching", "running", "outcome_unknown", "terminal"}
Outcomes == {"ok", "failed"}
Unset    == "none"

(* An Attempt reference names a write-once file: its path holds the RunSlot
   revision and the phase. *)
References == [ordinal : 0..MaxAttempts, phase : Phases, started : BOOLEAN, rev : Nat]

NoReference == [ordinal |-> 0, phase |-> "pending", started |-> FALSE, rev |-> 0]

Alive == {"boot", "bound", "logged", "stamped", "started", "ready", "running", "exited"}

Edges == {"startup", "poke", "launch-safety", "pending-retry"}
TimerEdges == {"launch-safety", "pending-retry"}

Inspections == {"absent", "launching", "running", "completed", "outcome_unknown",
                "blocked", "pending"}

JobSteps == {"idle", "exit", "receipts", "log", "probe", "process", "settle",
             "launch", "reconcile", "publish", "tell"}

Actions == {Unset, "blocked", "launch_required", "await_started_receipt", "pending",
            "record"}

Jobs == [pc : JobSteps, edge : Edges, ref : References, fresh : BOOLEAN,
         round : {"main", "before", "after"}, exit : {Unset} \cup Outcomes,
         started : 0..MaxLaunches, log : 0..MaxLaunches, insp : Inspections,
         launched : BOOLEAN, action : Actions, next : References, published : BOOLEAN]

Evidence == [log : 0..MaxLaunches, started : 0..MaxLaunches,
             exit : {Unset} \cup Outcomes, uncertain : {Unset, "early", "late"}]

Processes == [attempt : 0..MaxAttempts, stage : Alive \cup {"unborn", "dead"}]

Events == [attempt : 0..MaxAttempts, what : {"terminal", "outcome_unknown", "incident"}]

Idle == [pc |-> "idle", edge |-> "poke", ref |-> NoReference, fresh |-> FALSE,
         round |-> "main", exit |-> Unset, started |-> 0, log |-> 0,
         insp |-> "absent", launched |-> FALSE, action |-> Unset,
         next |-> NoReference, published |-> FALSE]

Event(a, what) == [attempt |-> a, what |-> what]

-----------------------------------------------------------------------------
(* Edges                                                                     *)

External(e) == [edge |-> e, expected |-> NoReference]

(* AttemptRuntimeConsumer.dispatch: only while the process accepts, and only
   for a RunSlot with an active Attempt. *)
Dispatched(e) ==
    IF ctl # "down" /\ slot.ordinal > 0 THEN Append(queue, External(e)) ELSE queue

Disturb ==
    /\ trouble < MaxTrouble
    /\ trouble' = trouble + 1

-----------------------------------------------------------------------------
(* The wrapper process                                                       *)

Stage(w, from, to) ==
    /\ wrapper[w].stage = from
    /\ wrapper' = [wrapper EXCEPT ![w].stage = to]

(* The wrapper checks that its pane is in the session of its own launch. *)
VerifyTmuxBinding(w) ==
    /\ Stage(w, "boot", IF tmux[wrapper[w].attempt] = w THEN "bound" ELSE "dead")
    /\ UNCHANGED <<slot, files, command, tmux, ctlVars, attending, told, trouble>>

(* As Creates, for files that are opened whether or not they exist. *)
CreatesAnyway(owner) == TRUE

(* The log is created with O_EXCL and a receipt is linked to its name: of all
   wrappers of an Attempt only the first creates a file. *)
Creates(owner) == owner = 0

OpenLog(w) ==
    /\ wrapper[w].stage = "bound"
    /\ IF Creates(files[wrapper[w].attempt].log)
       THEN /\ Stage(w, "bound", "logged")
            /\ files' = [files EXCEPT ![wrapper[w].attempt].log = w]
       ELSE /\ Stage(w, "bound", "dead")
            /\ UNCHANGED files
    /\ UNCHANGED <<slot, command, tmux, ctlVars, attending, told, trouble>>

(* startedAt: Date.now(), a moment before the receipt is in place. *)
StampStart(w) ==
    /\ Stage(w, "logged", "stamped")
    /\ UNCHANGED <<slot, files, command, tmux, ctlVars, attending, told, trouble>>

WriteStarted(w) ==
    /\ wrapper[w].stage = "stamped"
    /\ IF Creates(files[wrapper[w].attempt].started)
       THEN /\ Stage(w, "stamped", "started")
            /\ files' = [files EXCEPT ![wrapper[w].attempt].started = w]
       ELSE Stage(w, "stamped", "dead") /\ UNCHANGED files
    /\ UNCHANGED <<slot, command, tmux, ctlVars, attending, told, trouble>>

(* pokeRuntime: a datagram to whoever accepts now; it may be lost. *)
PokeRuntime ==
    \/ UNCHANGED queue
    \/ Len(queue) < MaxWaiting /\ queue' = Dispatched("poke")

PokeStarted(w) ==
    /\ Stage(w, "started", "ready")
    /\ PokeRuntime
    /\ UNCHANGED <<slot, files, command, tmux, ctl, timers, job, attending, told, trouble>>

(* runAttempt: a command that cannot be spawned counts as failed. *)
SpawnCommand(w) ==
    /\ Stage(w, "ready", "running")
    /\ \E r \in {"running", "failed"} : command' = [command EXCEPT ![w] = r]
    /\ UNCHANGED <<slot, files, tmux, ctlVars, attending, told, trouble>>

(* A command ends on its own; it does not need its wrapper for that. *)
CommandEnds(w) ==
    /\ command[w] = "running"
    /\ \E r \in Outcomes : command' = [command EXCEPT ![w] = r]
    /\ UNCHANGED <<slot, files, wrapper, tmux, ctlVars, attending, told, trouble>>

WriteExit(w) ==
    /\ command[w] \in Outcomes
    /\ Stage(w, "running", "exited")
    /\ files' = [files EXCEPT ![wrapper[w].attempt].exit = command[w]]
    /\ UNCHANGED <<slot, command, tmux, ctlVars, attending, told, trouble>>

PokeExit(w) ==
    /\ Stage(w, "exited", "dead")
    /\ PokeRuntime
    /\ UNCHANGED <<slot, files, command, tmux, ctl, timers, job, attending, told, trouble>>

(* A wrapper is killed, or hangs up with the session it lost. *)
WrapperDies(w) ==
    /\ wrapper[w].stage \in Alive
    /\ wrapper' = [wrapper EXCEPT ![w].stage = "dead"]
    /\ UNCHANGED <<slot, files, command, tmux, ctlVars, attending, told, trouble>>

(* A session ends with the process of its pane. *)
TmuxCloses(a) ==
    /\ tmux[a] # 0
    /\ wrapper[tmux[a]].stage = "dead"
    /\ tmux' = [tmux EXCEPT ![a] = 0]
    /\ UNCHANGED <<slot, files, wrapper, command, ctlVars, attending, told, trouble>>

(* The session's name is lost while its process still runs. *)
TmuxLost(a) ==
    /\ tmux[a] # 0
    /\ tmux' = [tmux EXCEPT ![a] = 0]
    /\ Disturb
    /\ UNCHANGED <<slot, files, wrapper, command, ctlVars, attending, told>>

-----------------------------------------------------------------------------
(* Inspection                                                                *)

Inspecting(pc) == job.pc = pc /\ ctl # "down"

Target == files[job.ref.ordinal]

(* What inspectLocalTmuxAttempt returns goes to its caller: the consumer, or
   the launch that inspects before and after it creates the session. *)
Inspected(result, j) ==
    job' = CASE j.round = "main" /\ result = "absent" /\ j.ref.phase = "launching" ->
                  [j EXCEPT !.pc = "exit", !.round = "before", !.launched = TRUE]
             [] j.round = "before" /\ result = "absent" -> [j EXCEPT !.pc = "launch"]
             [] j.round = "after" /\ result = "absent" ->
                  [j EXCEPT !.pc = "reconcile", !.insp = "pending"]
             [] OTHER -> [j EXCEPT !.pc = "reconcile", !.insp = result]

ReadExit ==
    /\ Inspecting("exit")
    /\ job' = [job EXCEPT !.pc = "receipts", !.exit = Target.exit]
    /\ UNCHANGED <<slot, procVars, ctl, queue, timers, attending, told, trouble>>

ReadStarted ==
    /\ Inspecting("receipts")
    /\ LET j == [job EXCEPT !.started = Target.started] IN
       CASE j.started = 0 /\ j.exit # Unset -> Inspected("blocked", j)
         [] j.started # 0 /\ j.exit # Unset -> Inspected("completed", j)
         [] OTHER -> job' = [j EXCEPT !.pc = "log"]
    /\ UNCHANGED <<slot, procVars, ctl, queue, timers, attending, told, trouble>>

ReadLog ==
    /\ Inspecting("log")
    /\ LET j == [job EXCEPT !.log = Target.log] IN
       IF j.started # 0 /\ j.log = 0
       THEN Inspected("blocked", j)
       ELSE job' = [j EXCEPT !.pc = "probe"]
    /\ UNCHANGED <<slot, procVars, ctl, queue, timers, attending, told, trouble>>

(* inspectTmux: who owns the session of the Attempt's name. *)
ProbeTmux ==
    /\ Inspecting("probe")
    /\ LET owner == tmux[job.ref.ordinal] IN
       \/ /\ job.started = 0
          /\ Inspected(IF owner # 0 THEN "launching"
                       ELSE IF job.log # 0 THEN "outcome_unknown" ELSE "absent", job)
          /\ UNCHANGED trouble
       \/ /\ job.started # 0
          /\ IF owner \notin {0, job.started}
             THEN Inspected("blocked", job)
             ELSE job' = [job EXCEPT !.pc = "process"]
          /\ UNCHANGED trouble
       \/ /\ Disturb        \* tmux cannot be reached
          /\ IF job.started = 0
             THEN Inspected("pending", job)
             ELSE job' = [job EXCEPT !.pc = "process"]
    /\ UNCHANGED <<slot, procVars, ctl, queue, timers, attending, told>>

(* inspectProcess: the process table, by pid and start time. *)
ProbeProcess ==
    /\ Inspecting("process")
    /\ \/ /\ IF wrapper[job.started].stage = "dead"
             THEN job' = [job EXCEPT !.pc = "settle"]
             ELSE Inspected("running", job)
          /\ UNCHANGED trouble
       \/ /\ Disturb        \* unknown
          /\ Inspected("pending", job)
       \/ /\ wrapper[job.started].stage = "dead"
          /\ Disturb        \* the pid was given to another process
          /\ Inspected("blocked", job)
    /\ UNCHANGED <<slot, procVars, ctl, queue, timers, attending, told>>

(* One more look: the process may have ended after the first read. *)
SettleExit ==
    /\ Inspecting("settle")
    /\ Inspected(IF Target.exit # Unset THEN "completed" ELSE "outcome_unknown",
                 [job EXCEPT !.exit = Target.exit])
    /\ UNCHANGED <<slot, procVars, ctl, queue, timers, attending, told, trouble>>

Unborn == {w \in Wrappers : wrapper[w].stage = "unborn"}

(* launchLocalTmuxAttempt: launch.json is written once, then tmux creates the
   session unless one of that name exists. *)
LaunchTmux ==
    /\ Inspecting("launch")
    /\ LET a == job.ref.ordinal
           after == [job EXCEPT !.pc = "exit", !.round = "after"]
       IN \/ /\ tmux[a] # 0
             /\ job' = after
             /\ UNCHANGED <<wrapper, tmux, trouble>>
          \/ /\ tmux[a] = 0
             /\ \E w \in Unborn :
                /\ \A v \in Unborn : w <= v       \* as good as any
                /\ wrapper' = [wrapper EXCEPT ![w] = [attempt |-> a, stage |-> "boot"]]
                /\ tmux' = [tmux EXCEPT ![a] = w]
             /\ job' = after
             /\ UNCHANGED trouble
          \/ /\ IF Unborn = {} THEN UNCHANGED trouble ELSE Disturb
             /\ \E r \in {"pending", "blocked"} :      \* tmux or the checkout fails
                   job' = [job EXCEPT !.pc = "reconcile", !.insp = r]
             /\ UNCHANGED <<wrapper, tmux>>
    /\ UNCHANGED <<slot, files, command, ctl, queue, timers, attending, told>>

-----------------------------------------------------------------------------
(* Reconciliation                                                            *)

(* What is on record claims more than what the inspection found. *)
LostEvidence(j) ==
    \/ j.insp = "absent" /\ j.ref.phase # "launching"
    \/ j.insp = "launching"
       /\ (j.ref.phase \in {"running", "terminal"} \/ j.ref.started)
    \/ j.insp = "outcome_unknown" /\ j.started = 0
       /\ (j.ref.phase \in {"running", "terminal"} \/ j.ref.started)
    \/ j.insp \in {"running", "outcome_unknown"} /\ j.ref.phase = "terminal"

Action(j) ==
    IF j.insp = "blocked" \/ LostEvidence(j) THEN "blocked"
    ELSE CASE j.insp = "absent"    -> "launch_required"
           [] j.insp = "launching" -> "await_started_receipt"
           [] j.insp = "pending"   -> "pending"
           [] OTHER                -> "record"

(* advanceRunSlotState *)
Advance(ref, phase) == [ref EXCEPT !.phase = phase, !.rev = @ + 1]

(* recordAttemptStarted, for an inspection that saw a started receipt *)
WithStart(j) ==
    IF \/ j.started = 0
       \/ j.ref.phase \in {"running", "terminal"}
       \/ j.ref.phase = "outcome_unknown" /\ j.ref.started /\ j.insp # "running"
    THEN j.ref
    ELSE [Advance(j.ref, "running") EXCEPT !.started = TRUE]

(* The reference that reconcileLocalTmuxInspection projects; the one it was
   given when nothing changes. *)
Projected(j) ==
    IF Action(j) # "record" THEN j.ref
    ELSE CASE j.insp = "running"   -> WithStart(j)
           [] j.insp = "completed" -> IF j.ref.phase = "terminal" THEN j.ref
                                      ELSE Advance(WithStart(j), "terminal")
           [] OTHER -> IF WithStart(j).phase = "outcome_unknown" THEN WithStart(j)
                       ELSE Advance(WithStart(j), "outcome_unknown")

RecordsUnknown(j) == Action(j) = "record" /\ j.insp = "outcome_unknown"

(* assertExistingUncertain: a receipt from before the start of an Attempt
   whose start is known. *)
RejectsUncertain(j) ==
    RecordsUnknown(j) /\ Target.uncertain = "early" /\ WithStart(j).started

(* The observation is early when the wrapper has the log and will still put a
   later time into its started receipt. *)
ObservedNow ==
    IF Target.log # 0 /\ wrapper[Target.log].stage = "logged" THEN "early" ELSE "late"

(* The first uncertain receipt of an Attempt stays; later ones adopt it.  An
   error ends the edge without a result and without timers. *)
Reconcile ==
    /\ Inspecting("reconcile")
    /\ IF RejectsUncertain(job)
       THEN /\ job' = Idle
            /\ UNCHANGED files
       ELSE /\ job' = [job EXCEPT !.pc = "publish", !.action = Action(job),
                                  !.next = Projected(job)]
            /\ files' = IF RecordsUnknown(job) /\ Target.uncertain = Unset
                        THEN [files EXCEPT ![job.ref.ordinal].uncertain = ObservedNow]
                        ELSE files
    /\ UNCHANGED <<slot, wrapper, command, tmux, ctl, queue, timers, attending, told, trouble>>

-----------------------------------------------------------------------------
(* Publication                                                               *)

Changes(j) == j.next # j.ref

(* Whether the projection still fits RuntimeState: nothing in the Lab changed
   since the edge read it. *)
Fits(j) == j.fresh /\ slot = j.ref

(* As AskAgain, for a lost compare-and-set that is forgotten. *)
NeverAskAgain(j) == queue

(* retryFromNewProjection: the same reference is still the active one. *)
AskAgain(j) == IF slot = j.ref THEN Dispatched("poke") ELSE queue

(* applyAttemptRuntimeResult, first half: the compare-and-set.  One that loses
   to an unrelated change asks for another look. *)
Publish ==
    /\ Inspecting("publish")
    /\ LET Report(b) == job' = [job EXCEPT !.pc = "tell", !.published = b] IN
       \/ /\ Changes(job) => slot = job.next
          /\ Report(TRUE)
          /\ UNCHANGED <<slot, queue>>
       \/ /\ Changes(job)
          /\ slot # job.next
          /\ IF Fits(job)
             THEN /\ slot' = job.next
                  /\ Report(TRUE)
                  /\ UNCHANGED queue
             ELSE /\ queue' = AskAgain(job)
                  /\ Report(FALSE)
                  /\ UNCHANGED slot
    /\ UNCHANGED <<procVars, ctl, timers, attending, told, trouble>>

(* compileControllerWake *)
Wakes(j) ==
    /\ j.next.phase \in {"terminal", "outcome_unknown"}
    /\ j.action \notin {"launch_required", "await_started_receipt"}
    /\ j.action = "pending" => j.edge = "pending-retry"

(* As Escalates, for an exhausted retry that stays silent. *)
EscalatesBlocked(j) ==
    \/ j.action = "blocked"
    \/ j.action = "await_started_receipt" /\ j.edge = "launch-safety"
    \/ j.action = "launch_required" /\ j.launched

(* attemptEscalation *)
Escalates(j) ==
    \/ j.action = "blocked"
    \/ j.action = "pending" /\ j.edge = "pending-retry"
    \/ j.action = "await_started_receipt" /\ j.edge = "launch-safety"
    \/ j.action = "launch_required" /\ j.launched

(* The events of applyAttemptRuntimeResult, second half; each enters the
   Controller's Session once, under an id made of the Attempt and the event. *)
EventsOf(j) ==
    IF ~attending \/ ~j.published \/ (Changes(j) /\ slot # j.next) THEN {}
    ELSE IF Wakes(j) /\ slot.ordinal = j.next.ordinal /\ slot.phase = j.next.phase
         THEN {Event(slot.ordinal, slot.phase)}
    ELSE IF Escalates(j) THEN {Event(slot.ordinal, "incident")}
    ELSE {}

Armed(e) == timers[e] # NoReference

(* reconcileTimers *)
TimersAfter(j) ==
    IF j.action = "pending"
    THEN IF j.edge # "pending-retry" /\ ~Armed("pending-retry")
         THEN [timers EXCEPT !["pending-retry"] = j.next] ELSE timers
    ELSE LET kept == IF j.edge = "poke" \/ Wakes(j) THEN NoReference
                     ELSE timers["launch-safety"]
             arms == ~Wakes(j) /\ j.launched /\ j.insp \in {"launching", "running"}
         IN [e \in TimerEdges |->
               IF e = "launch-safety"
               THEN IF arms /\ kept = NoReference THEN j.next ELSE kept
               ELSE NoReference]

TellController ==
    /\ Inspecting("tell")
    /\ told' = told \cup EventsOf(job)
    /\ timers' = TimersAfter(job)
    /\ job' = Idle
    /\ UNCHANGED <<slot, procVars, ctl, queue, attending, trouble>>

-----------------------------------------------------------------------------
(* The queue of edges                                                        *)

(* consume: a timer's edge is for the reference it was armed with. *)
TakeEdge ==
    /\ Inspecting("idle")
    /\ queue # <<>>
    /\ queue' = Tail(queue)
    /\ LET head == Head(queue) IN
       IF head.expected \in {NoReference, slot}
       THEN job' = [Idle EXCEPT !.pc = "exit", !.edge = head.edge,
                                !.ref = slot, !.fresh = TRUE]
       ELSE UNCHANGED job
    /\ UNCHANGED <<slot, procVars, ctl, timers, attending, told, trouble>>

FireTimer(e) ==
    /\ ctl # "down"
    /\ Armed(e)
    /\ queue' = Append(queue, [edge |-> e, expected |-> timers[e]])
    /\ timers' = [timers EXCEPT ![e] = NoReference]
    /\ UNCHANGED <<slot, procVars, ctl, job, attending, told, trouble>>

-----------------------------------------------------------------------------
(* The Controller                                                            *)

Stale(j) == [j EXCEPT !.fresh = FALSE]

Order(ordinal) ==
    /\ slot' = [ordinal |-> ordinal, phase |-> "launching", started |-> FALSE,
                rev |-> slot.rev + 1]
    /\ job' = Stale(job)
    /\ queue' = Append(queue, External("poke"))
    /\ UNCHANGED <<procVars, ctl, timers, attending, told, trouble>>

(* launchAttempt: publish the first Attempt, then one edge. *)
LaunchAttempt ==
    /\ ctl # "down" /\ attending
    /\ MaxAttempts > 0
    /\ slot.ordinal = 0
    /\ Order(1)

(* As Retryable, for a retry of what merely looks lost. *)
RetryableWhenUnknown ==
    \/ slot.phase = "outcome_unknown"
    \/ slot.phase = "terminal" /\ files[slot.ordinal].exit = "failed"

Retryable == slot.phase = "terminal" /\ files[slot.ordinal].exit = "failed"

(* retryAttempt: only a RunSlot whose last Attempt failed for certain. *)
RetryAttempt ==
    /\ ctl # "down" /\ attending
    /\ slot.ordinal \in 1..(MaxAttempts - 1)
    /\ Retryable
    /\ Order(slot.ordinal + 1)

(* Either call again, while its Attempt is the active one. *)
ReplayCall ==
    /\ ctl # "down" /\ attending
    /\ \/ slot.ordinal = 1 /\ slot.rev = 1
       \/ slot.ordinal > 1 /\ slot.phase # "terminal"
    /\ Disturb
    /\ queue' = Append(queue, External("poke"))
    /\ UNCHANGED <<slot, procVars, ctl, timers, job, attending, told>>

(* Another transition of the Lab moves its revision. *)
LabChanges ==
    /\ job.fresh
    /\ Disturb
    /\ job' = Stale(job)
    /\ UNCHANGED <<slot, procVars, ctl, queue, timers, attending, told>>

(* The Lab is paused or the Controller detaches; and back again. *)
ControllerLeaves ==
    /\ attending
    /\ Disturb
    /\ attending' = FALSE
    /\ UNCHANGED <<slot, procVars, ctlVars, told>>

ControllerReturns ==
    /\ ~attending
    /\ attending' = TRUE
    /\ UNCHANGED <<slot, procVars, ctlVars, told, trouble>>

Crash ==
    /\ ctl # "down"
    /\ Disturb
    /\ ctl' = "down"
    /\ queue' = <<>>
    /\ timers' = [e \in TimerEdges |-> NoReference]
    /\ job' = Idle
    /\ UNCHANGED <<slot, procVars, attending, told>>

(* start: the poke endpoint is open before the startup edges are dispatched. *)
Restart ==
    /\ ctl = "down"
    /\ ctl' = "opened"
    /\ UNCHANGED <<slot, procVars, queue, timers, job, attending, told, trouble>>

DispatchStartup ==
    /\ ctl = "opened"
    /\ ctl' = "ready"
    /\ queue' = Dispatched("startup")
    /\ UNCHANGED <<slot, procVars, timers, job, attending, told, trouble>>

-----------------------------------------------------------------------------
Init ==
    /\ slot = NoReference
    /\ files = [a \in Attempts |->
                  [log |-> 0, started |-> 0, exit |-> Unset, uncertain |-> Unset]]
    /\ wrapper = [w \in Wrappers |-> [attempt |-> 0, stage |-> "unborn"]]
    /\ command = [w \in Wrappers |-> Unset]
    /\ tmux = [a \in Attempts |-> 0]
    /\ ctl = "ready"
    /\ queue = <<>>
    /\ timers = [e \in TimerEdges |-> NoReference]
    /\ job = Idle
    /\ attending = TRUE
    /\ told = {}
    /\ trouble = 0

Wrapped ==
    \E w \in Wrappers :
       \/ VerifyTmuxBinding(w) \/ OpenLog(w) \/ StampStart(w) \/ WriteStarted(w)
       \/ PokeStarted(w) \/ SpawnCommand(w) \/ CommandEnds(w) \/ WriteExit(w)
       \/ PokeExit(w) \/ WrapperDies(w)

Environment ==
    \/ \E a \in Attempts : TmuxCloses(a) \/ TmuxLost(a)
    \/ LabChanges \/ ControllerLeaves \/ ControllerReturns \/ Crash \/ Restart

Consume ==
    \/ TakeEdge \/ ReadExit \/ ReadStarted \/ ReadLog \/ ProbeTmux \/ ProbeProcess
    \/ SettleExit \/ LaunchTmux \/ Reconcile \/ Publish \/ TellController

Tools == LaunchAttempt \/ RetryAttempt \/ ReplayCall

Wakeups == DispatchStartup \/ \E e \in TimerEdges : FireTimer(e)

Next == Wrapped \/ Environment \/ Consume \/ Tools \/ Wakeups

Spec == Init /\ [][Next]_vars

(* The Controller's process takes its edges and its timers fire. *)
FairSpec ==
    /\ Spec
    /\ WF_vars(Consume)
    /\ WF_vars(DispatchStartup)
    /\ \A e \in TimerEdges : WF_vars(FireTimer(e))

-----------------------------------------------------------------------------
(* Properties                                                                *)

(* Every variable has its type; the phase on record and the receipts a job
   has read refer to processes that exist. *)
TypeOK ==
    /\ slot \in References
    /\ files \in [Attempts -> Evidence]
    /\ wrapper \in [Wrappers -> Processes]
    /\ command \in [Wrappers -> {Unset, "running"} \cup Outcomes]
    /\ tmux \in [Attempts -> 0..MaxLaunches]
    /\ ctl \in {"down", "opened", "ready"}
    /\ queue \in Seq([edge : Edges, expected : References])
    /\ timers \in [TimerEdges -> References]
    /\ job \in Jobs
    /\ attending \in BOOLEAN
    /\ told \subseteq Events
    /\ trouble \in 0..MaxTrouble

Ran(a) == {w \in Wrappers : wrapper[w].attempt = a /\ command[w] # Unset}

(* The command of an Attempt runs at most once, however often a crash, a lost
   session or a lost poke makes the Controller launch it again: all wrappers
   of the Attempt compete for one log (attempt-wrapper.mjs, CREATE_LOG_FLAGS). *)
CommandRunsOnce == \A a \in Attempts : Cardinality(Ran(a)) <= 1

(* What became of the command of Attempt a. *)
RunOf(a) == IF Ran(a) = {} THEN Unset ELSE command[CHOOSE w \in Ran(a) : TRUE]

Slot == INSTANCE RunSlot WITH
    ordinal <- slot.ordinal,
    phase   <- slot.phase,
    run     <- [a \in Attempts |-> RunOf(a)]

(* Receipts, probes, races and restarts included, the record of the RunSlot
   keeps what RunSlot promises: no two Attempts run at once, a retry follows
   only a certain failure, and what is terminal has really ended. *)
ImplementsRunSlot == Slot!SlotSpec

(* An edge that reads the state from scratch is on its way. *)
Due == \/ ctl = "opened"
       \/ ctl = "ready" /\ \E i \in 1..Len(queue) : queue[i].expected = NoReference

Moved(a) == ctl = "down" \/ ~attending \/ slot.ordinal # a

(* The end of an Attempt whose exit receipt is in place reaches the
   Controller's Session through any edge that is still to come, although
   another change of the Lab may win the compare-and-set and a crash may fall
   between the record and the event. *)
EndIsTold ==
    \A a \in Attempts :
       (slot.ordinal = a /\ files[a].exit # Unset /\ Due)
          ~> (Event(a, "terminal") \in told \/ Moved(a))

(* The wrapper started and is gone without a result. *)
Vanished(a) ==
    /\ files[a].started # 0
    /\ wrapper[files[a].started].stage = "dead"
    /\ files[a].exit = Unset

(* So does the loss of an Attempt, or an incident that stands for it, even
   when the process table cannot be read at first. *)
LossIsTold ==
    \A a \in Attempts :
       (slot.ordinal = a /\ Vanished(a) /\ files[a].uncertain # "early" /\ Due)
          ~> (\/ Event(a, "outcome_unknown") \in told
              \/ Event(a, "incident") \in told
              \/ Moved(a))

=============================================================================
