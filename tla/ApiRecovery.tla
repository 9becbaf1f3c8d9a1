---------------------------- MODULE ApiRecovery ----------------------------
(***************************************************************************)
(* Recovery of one Controller Session after a terminal API failure:        *)
(* dsh-autolab/src/api-recovery.ts with its durable store                  *)
(* (api-recovery-store.ts) and the checks of index.ts that decide who may  *)
(* resume the Controller's Goal.                                           *)
(*                                                                         *)
(* Every asynchronous handler is a process in a slot of Handlers: what the *)
(* code does between two awaits is one action, and task[h] holds where the *)
(* handler waits and the values it read before it waited.  Writes of the   *)
(* store go through one queue per Session; a handler goes on in a step of  *)
(* its own after its write took effect.                                    *)
(*                                                                         *)
(* Simplifications: a failure is its code; the continuation is a Goal (the *)
(* Judge review takes the same path with an idempotent wake in the place   *)
(* of Goal resume); recordedAt is the ordinal of the recording.            *)
(***************************************************************************)
EXTENDS Naturals, Sequences, FiniteSets

CONSTANTS
    Handlers,      \* slots for handlers that run at the same time
    Automatic,     \* failure codes that a retry may repair
    Operator,      \* failure codes that need a person
    Unknown,       \* all other codes but ABORTED
    None,
    MaxTurns,      \* bound on the turns of the Session
    MaxTime,       \* bound on the clock
    MaxFaults,     \* bound on failed store writes, flushes and timers
    MaxRestarts,   \* bound on crashes and disposals
    MaxEdits,      \* bound on Goal replacements, Controller events, holds
    MaxUpdates,    \* bound on adapter updates
    MaxEvents      \* bound on the four kinds together

Codes == Automatic \cup Operator \cup Unknown

Incident ==
    [phase : {"awaiting", "scheduled", "recovering", "operator"},
     turn : 1..MaxTurns, code : Codes, ref : [asg : Nat, rev : Nat],
     used : BOOLEAN, at : Nat,
     due : Nat \cup {None}, resumed : Nat \cup {None}]

ASSUME ApiAssumption ==
    /\ MaxTurns \in Nat /\ MaxTime \in Nat
    /\ None \notin Handlers \cup Nat \cup Codes \cup Incident
    /\ Automatic \cap Unknown = {}
    /\ "other" \notin Handlers

VARIABLES
    now,       \* the clock, in retry delays
    agent,     \* the Agent: loaded, status, failure of its turn, its claim,
               \* and whether a lost claim waits for it to be idle
    edges,     \* lifecycle events emitted and not yet handled
    log,       \* log[t]: how turn t of the Session ended
    goal,      \* the Controller's Goal in the Session
    saved,     \* what of log and Goal a reload of the Session finds
    install,   \* the Goal reference in the RuntimeState of the Lab
    store,     \* the durable incident of the Session
    queue,     \* store operations in progress, in order
    pending,   \* pendingAwaiting
    timer,     \* the incident the one-shot timer is armed for
    started, inFlight,
    task,      \* the handlers that run
    count,     \* budgets spent, and recordings made
    told,      \* history: incidents published to the Controller
    fallback   \* history: the last Goal resume, if for an unknown code

session == <<log, saved>>
history == <<told, fallback>>
vars == <<now, agent, edges, session, goal, install, store, queue, pending,
          timer, started, inFlight, task, count, history>>

(* resolveApiRecoveryAssignment: the RuntimeState says that its Goal is the *)
(* one of the Session.                                                     *)
Resolved == install.applied /\ goal.asg = install.asg

Reference == [asg |-> install.asg, rev |-> install.rev]

(* An incident: ref is the assignment and the Goal revision it was         *)
(* recorded with; used says that the one continuation of an unknown code   *)
(* is spent; due and resumed are there in one phase only.                  *)
Awaiting(turn, code, used, at) ==
    [phase |-> "awaiting", turn |-> turn, code |-> code, ref |-> Reference,
     used |-> used, at |-> at, due |-> None, resumed |-> None]

(* apiRecoveryRecordSchema: a field of another phase is refused.           *)
FitsSchema(r) ==
    /\ (r.due # None) <=> (r.phase = "scheduled")
    /\ (r.resumed # None) <=> (r.phase = "recovering")

Checkpoint == [log |-> log, asg |-> goal.asg, rev |-> goal.rev]

IsPhase(r, phase) == r # None /\ r.phase = phase

NoFallback == [code |-> None, turn |-> 0]

(* Where a handler waits: for which incident, with which turn or revision, *)
(* and whether it is in resumeExact.                                       *)
At(pc, rec, arg, busy) ==
    [pc |-> pc, rec |-> rec, arg |-> arg, result |-> "none", busy |-> busy]

Idle == At("free", None, 0, FALSE)
Free(h) == task[h].pc = "free"
May(kind, bound) ==
    /\ count[kind] < bound
    /\ count.faults + count.restarts + count.edits + count.updates < MaxEvents
Spend(kind) == [count EXCEPT ![kind] = @ + 1]

-----------------------------------------------------------------------------
(* What the handlers read.                                                 *)

CurrentRecord == IF pending # None THEN pending ELSE store

(* assignmentAndContinuationMatch: install and disarmed Goal are both at   *)
(* the expected revision.                                                  *)
Matches(r, rev) ==
    /\ Resolved /\ Reference = [asg |-> r.ref.asg, rev |-> rev]
    /\ goal.rev = rev /\ ~goal.armed

(* appliedGoalContinuation: the resume took effect, its record did not.    *)
GoalApplied(r) ==
    /\ r.phase = "scheduled"
    /\ Resolved
    /\ goal.asg = r.ref.asg /\ goal.rev = r.ref.rev + 1 /\ goal.armed
    /\ install.rev \in {r.ref.rev, goal.rev}

(* carryUnknownFallback: the Goal that the continuation of this code       *)
(* resumed is the one that fails now.                                      *)
CarriesBeforeResume(prior, code) ==   \* compares the revision that failed first
    /\ code \in Unknown /\ IsPhase(prior, "recovering")
    /\ prior.used /\ prior.code = code
    /\ install.asg = prior.ref.asg /\ install.rev = prior.ref.rev
    /\ goal.asg = prior.ref.asg /\ goal.rev = prior.ref.rev

CarriesFallback(prior, code) ==
    /\ code \in Unknown /\ IsPhase(prior, "recovering")
    /\ prior.used /\ prior.code = code
    /\ install.asg = prior.ref.asg
    /\ install.rev \in {prior.ref.rev, prior.resumed}
    /\ goal.asg = prior.ref.asg /\ goal.rev = prior.resumed

(* controllerApiRecoveryOwnsGoal reads the store only.                     *)
RecoveryOwnsGoal ==
    /\ store # None
    /\ store.phase # "operator"
    /\ store.ref.asg = install.asg

-----------------------------------------------------------------------------
(* Pieces of handlers: what the code does up to its next await.  They set  *)
(* task, queue, inFlight and agent.                                        *)

Arm(r) == IF started /\ store = r THEN r ELSE timer

Return(h) ==
    /\ task' = [task EXCEPT ![h] = Idle]
    /\ UNCHANGED <<queue, inFlight, agent>>

Enqueue(kind, h, r) ==
    queue' = Append(queue, [kind |-> kind, by |-> h, rec |-> r])

(* Wait for the write of r and go on at pc; a record that does not fit the *)
(* schema is refused before it is queued, and the handler gives up.        *)
Put(h, pc, r) ==
    IF FitsSchema(r)
    THEN /\ Enqueue("put", h, r)
         /\ task' = [task EXCEPT ![h] = At(pc, r, 0, task[h].busy)]
    ELSE /\ task' = [task EXCEPT ![h] = Idle]
         /\ UNCHANGED queue

(* removeCurrent for an incident of the store: removed when the removal    *)
(* has its turn in the queue, if it is still the one that is stored.       *)
RemoveStored(h, r, pc, busy) ==
    /\ Enqueue("remove", h, r)
    /\ task' = [task EXCEPT ![h] = At(pc, r, 0, busy)]
    /\ UNCHANGED inFlight

(* removeCurrent for a candidate in memory, which goes at once.            *)
RemovePending(h, r) ==
    /\ pending' = None
    /\ IF store = r
       THEN RemoveStored(h, r, "clear", FALSE) /\ UNCHANGED timer
       ELSE /\ timer' = None
            /\ task' = [task EXCEPT ![h] = Idle]
            /\ UNCHANGED <<queue, inFlight>>

RemoveCurrent(h, r) ==
    IF pending = r THEN RemovePending(h, r)
    ELSE RemoveStored(h, r, "remove", FALSE) /\ UNCHANGED <<pending, timer>>

(* promoteOperator keeps every field of the record it promotes.            *)
PromoteOperator(h, r) ==
    Put(h, "publish", [r EXCEPT !.phase = "operator"])

(* resumeExact up to the maintenance claim.  A claim that fails looks      *)
(* again when the Agent is idle.                                           *)
ResumeExact(h, pc, r, rev) ==
    \/ /\ goal.spent /\ pc = "enter"
       /\ PromoteOperator(h, r)
       /\ UNCHANGED <<agent, inFlight>>
    \/ /\ ~goal.spent \/ pc = "adopt"
       /\ agent.claim = None
       /\ agent' = [agent EXCEPT !.claim = h]
       /\ inFlight' = TRUE
       /\ task' = [task EXCEPT ![h] = At(pc, r, rev, TRUE)]
       /\ UNCHANGED queue
    \/ /\ ~goal.spent \/ pc = "adopt"
       /\ agent.claim # None
       /\ agent' = [agent EXCEPT !.awaited = TRUE]
       /\ task' = [task EXCEPT ![h] = Idle]
       /\ UNCHANGED <<inFlight, queue>>

IsCurrent(r) ==
    /\ started /\ store = r
    /\ agent.up /\ agent.status = "idle"

MayResumeAgain(r) == IsCurrent(r)   \* inFlight is not looked at

MayResume(r) == IsCurrent(r) /\ ~inFlight

Drop(h, r) == RemoveStored(h, r, "remove", FALSE) /\ UNCHANGED agent

ResumeScheduled(h, r) ==
    IF ~MayResume(r) THEN Return(h)
    ELSE IF GoalApplied(r) THEN ResumeExact(h, "adopt", r, goal.rev)
    ELSE IF Matches(r, r.ref.rev) THEN ResumeExact(h, "enter", r, r.ref.rev)
    ELSE Drop(h, r)

ResumeRecovering(h, r) ==
    IF ~MayResume(r) THEN Return(h)
    ELSE IF /\ goal.asg = r.ref.asg /\ goal.rev = r.resumed /\ goal.armed
         THEN Return(h)
    ELSE IF Matches(r, r.resumed) THEN ResumeExact(h, "enter", r, r.resumed)
    ELSE IF Matches(r, r.ref.rev) THEN ResumeExact(h, "enter", r, r.ref.rev)
    ELSE Drop(h, r)

(* resumeOperatorOnAdapterUpdate: the incident of a person is scheduled    *)
(* for now if its Goal can still go on.                                    *)
ResumeOperator(h, r) ==
    IF ~IsCurrent(r) THEN Return(h)
    ELSE IF ~Matches(r, r.ref.rev) THEN Drop(h, r)
    ELSE IF goal.spent THEN Return(h)
    ELSE /\ Put(h, "retry", [r EXCEPT !.phase = "scheduled", !.due = now])
         /\ UNCHANGED <<inFlight, agent>>

(* handleSessionEvent for the end of turn t, up to its checkpoint.         *)
TurnEndHandler(h, t) ==
    task' = [task EXCEPT ![h] =
        IF started /\ \/ IsPhase(CurrentRecord, "recovering")
                         /\ t > CurrentRecord.turn
                      \/ IsPhase(CurrentRecord, "awaiting")
                         /\ t = CurrentRecord.turn
        THEN At("flush", CurrentRecord, t, FALSE)
        ELSE Idle]

(* The event of turn t if the log has it.                                  *)
ReconcileLater(h, t) == Return(h)   \* waits for the next event instead

ReconcileTurn(h, t) ==
    /\ IF t \in 1..Len(log) THEN TurnEndHandler(h, t)
                            ELSE task' = [task EXCEPT ![h] = Idle]
    /\ UNCHANGED <<queue, inFlight, agent>>

(* handleAgentReady                                                        *)
AgentReady(h) ==
    LET r == CurrentRecord
        early == IsPhase(r, "scheduled") /\ r.due > now
    IN /\ IF ~started \/ ~agent.up \/ r = None \/ early THEN Return(h)
          ELSE CASE r.phase = "awaiting"   -> ReconcileTurn(h, r.turn)
                 [] r.phase = "scheduled"  -> ResumeScheduled(h, r)
                 [] r.phase = "operator"   -> Return(h)
                 [] r.phase = "recovering" ->
                        IF Len(log) > r.turn THEN ReconcileTurn(h, Len(log))
                                             ELSE ResumeRecovering(h, r)
       /\ timer' = IF agent.up /\ early THEN Arm(r) ELSE timer
       /\ UNCHANGED pending

-----------------------------------------------------------------------------
(* The Session: turns of the Agent, and what they make the recovery do.    *)

Init ==
    /\ now = 0
    /\ agent = [up |-> TRUE, status |-> "idle", fault |-> None, claim |-> None,
              awaited |-> FALSE]
    /\ edges = {}
    /\ log = <<>>
    /\ goal = [asg |-> 1, rev |-> 1, armed |-> TRUE, spent |-> FALSE]
    /\ saved = [log |-> <<>>, asg |-> 1, rev |-> 1]
    /\ install = [asg |-> 1, rev |-> 1, applied |-> TRUE]
    /\ store = None /\ queue = <<>> /\ pending = None /\ timer = None
    /\ started = TRUE /\ inFlight = FALSE
    /\ task = [h \in Handlers |-> Idle]
    /\ count = [recordings |-> 0, faults |-> 0, restarts |-> 0,
                edits |-> 0, updates |-> 0]
    /\ told = {}
    /\ fallback = NoFallback

(* The Goal driver or a user opens a turn; the last round of a Goal may    *)
(* be the one that starts.                                                 *)
StartTurn ==
    /\ agent.up /\ agent.status = "idle" /\ agent.claim = None
    /\ "idle" \notin edges
    /\ Len(log) < MaxTurns
    /\ agent' = [agent EXCEPT !.status = "running"]
    /\ \E last \in BOOLEAN :
        /\ last => goal.armed
        /\ goal' = [goal EXCEPT !.spent = @ \/ last]
    /\ UNCHANGED <<now, edges, session, install, store, queue, pending, timer,
                   started, inFlight, task, count, history>>

(* handleRequestError after the native retry gave up: the candidate is in  *)
(* memory before its write is queued, and the timer of the incident before *)
(* is cleared.                                                             *)
RequestError(h, code) ==
    /\ agent.status = "running"
    /\ Free(h)
    /\ agent' = [agent EXCEPT !.status = "failing", !.fault = code]
    /\ IF started /\ Resolved
       THEN LET r == Awaiting(Len(log) + 1, code,
                              CarriesFallback(CurrentRecord, code),
                              count.recordings + 1)
            IN /\ count' = Spend("recordings")
               /\ pending' = r
               /\ timer' = None
               /\ Put(h, "request", r)
       ELSE UNCHANGED <<count, pending, timer, queue, task>>
    /\ UNCHANGED <<now, edges, session, goal, install, store, started,
                   inFlight, history>>

(* The write of the candidate settled, one way or the other.               *)
RequestRecorded(h) ==
    /\ task[h].pc = "request" /\ task[h].result # "none"
    /\ pending' = IF task[h].result = "ok" /\ pending = task[h].rec
                  THEN None ELSE pending
    /\ task' = [task EXCEPT ![h] = Idle]
    /\ UNCHANGED <<now, agent, edges, session, goal, install, store, queue,
                   timer, started, inFlight, count, history>>

(* The turn ends, not before the request-error handler returned.  A        *)
(* failure disarms the Goal.  session/event starts a handler.              *)
EndTurn(h) ==
    /\ agent.status \in {"running", "failing"}
    /\ \A i \in Handlers : task[i].pc # "request"
    /\ Free(h)
    /\ log' = Append(log, agent.fault)
    /\ agent' = [agent EXCEPT !.status = "idle", !.fault = None]
    /\ edges' = edges \cup {"idle"}
    /\ goal' = [goal EXCEPT !.armed = @ /\ agent.fault = None]
    /\ TurnEndHandler(h, Len(log) + 1)
    /\ UNCHANGED <<now, saved, install, store, queue, pending, timer, started,
                   inFlight, count, history>>

(* agent/status idle and agent/session-start.                              *)
IdleEdge(h) ==
    /\ Free(h)
    /\ "idle" \in edges
    /\ edges' = edges \ {"idle"}
    /\ AgentReady(h)
    /\ UNCHANGED <<now, session, goal, install, store, started, count, history>>

(* The whenIdle() of a resume that lost its claim does the same.           *)
ClaimRetried ==
    /\ agent.awaited
    /\ agent.up /\ agent.status = "idle" /\ agent.claim = None
    /\ agent' = [agent EXCEPT !.awaited = FALSE]
    /\ edges' = edges \cup {"idle"}
    /\ UNCHANGED <<now, session, goal, install, store, queue, pending, timer,
                   started, inFlight, task, count, history>>

-----------------------------------------------------------------------------
(* The handlers after an await.                                            *)

Fault == May("faults", MaxFaults) /\ count' = Spend("faults")

(* What fallback becomes when r is stored.                                 *)
After(r) ==
    IF IsPhase(r, "recovering") /\ r.code \in Unknown
    THEN [code |-> r.code, turn |-> r.turn]
    ELSE IF IsPhase(r, "operator") THEN NoFallback
    ELSE IF r # None /\ r.code # fallback.code THEN NoFallback
    ELSE fallback

(* The operation at the head of the queue takes effect, or its write       *)
(* fails; the handler that waits for it goes on before the next operation. *)
Commit ==
    /\ queue # <<>>
    /\ \A h \in Handlers : task[h].result = "none"
    /\ LET op == Head(queue)
           Result(v) == task' = [task EXCEPT ![op.by].result = v]
       IN \/ /\ op.kind = "put"
             /\ store' = op.rec
             /\ Result("ok")
             /\ UNCHANGED count
          \/ /\ op.kind = "put"
             /\ Fault
             /\ Result("failed")
             /\ UNCHANGED store
          \/ /\ op.kind = "remove"
             /\ store' = IF store = op.rec THEN None ELSE store
             /\ Result(IF store = op.rec THEN "ok" ELSE "failed")
             /\ UNCHANGED count
    /\ queue' = Tail(queue)
    /\ fallback' = IF store' = store THEN fallback ELSE After(store')
    /\ UNCHANGED <<now, agent, edges, session, goal, install, pending, timer,
                   started, inFlight, told>>

GiveUp(h) ==
    /\ task' = [task EXCEPT ![h] = Idle]
    /\ UNCHANGED <<queue, pending, timer, inFlight>>

Disposition(r, code) ==
    IF code \in Automatic \/ (code \in Unknown /\ ~r.used)
    THEN "scheduled" ELSE "operator"

(* What the handler waited with is still what the Session waits for.       *)
StillStarted(r) == started   \* does not look again after the checkpoint

StillWaits(r) == started /\ CurrentRecord = r

(* handleSessionEvent after its checkpoint, for the incident that waited   *)
(* for this turn: scheduled, sent to a person, or not a failure after all. *)
TerminalSaved(h) ==
    LET r == task[h].rec
        phase == Disposition(r, r.code)
    IN /\ task[h].pc = "flush" /\ r.phase = "awaiting"
       /\ saved' = Checkpoint
       /\ IF ~StillWaits(r) THEN GiveUp(h)
          ELSE IF log[task[h].arg] # r.code THEN RemoveCurrent(h, r)
          ELSE /\ Put(h, "publish",
                      [r EXCEPT !.phase = phase,
                                !.used = @ /\ phase = "operator",
                                !.due = IF phase = "scheduled" THEN now + 1
                                                               ELSE None])
               /\ UNCHANGED <<pending, timer, inFlight>>
       /\ UNCHANGED <<now, agent, edges, log, goal, install, store, started,
                      count, history>>

(* settleRecovering after its checkpoint: a turn after the resumed one     *)
(* ended, and the incident ends with it or becomes the incident of the     *)
(* failure of that turn.                                                   *)
SettlementSaved(h) ==
    LET r == task[h].rec
        code == log[task[h].arg]
        repeated == code \in Unknown /\ r.used /\ r.code = code
        phase == IF repeated THEN "operator"
                 ELSE IF code \in Operator THEN "operator" ELSE "scheduled"
    IN /\ task[h].pc = "flush" /\ r.phase = "recovering"
       /\ saved' = Checkpoint
       /\ IF ~started \/ store # r
          THEN GiveUp(h) /\ UNCHANGED count
          ELSE IF code = None \/ ~Resolved \/ install.asg # r.ref.asg
          THEN RemoveCurrent(h, r) /\ UNCHANGED count
          ELSE /\ Put(h, "publish",
                      [phase |-> phase, turn |-> task[h].arg, code |-> code,
                       ref |-> Reference, used |-> repeated,
                       at |-> count.recordings + 1,
                       due |-> IF phase = "scheduled" THEN now + 1 ELSE None,
                       resumed |-> None])
               /\ count' = Spend("recordings")
               /\ UNCHANGED <<pending, timer, inFlight>>
       /\ UNCHANGED <<now, agent, edges, log, goal, install, store, started,
                      history>>

(* The checkpoint of a handler fails: it reports and gives up.             *)
CheckpointFails(h) ==
    /\ task[h].pc = "flush"
    /\ Fault
    /\ GiveUp(h)
    /\ UNCHANGED <<now, agent, edges, session, goal, install, store, started,
                   history>>

(* publishOperator                                                         *)
TellFirst(r) == IF started /\ told = {} THEN {r.at} ELSE told   \* only once

Tell(r) == IF started THEN told \cup {r.at} ELSE told

(* The incident is stored as scheduled or operator: the candidate leaves   *)
(* memory, and the timer is armed or the Controller is told.  The timer    *)
(* may be refused.                                                         *)
Published(h) ==
    LET r == task[h].rec
    IN /\ task[h].pc = "publish" /\ task[h].result = "ok"
       /\ pending' = IF pending # None /\ pending.at = r.at THEN None
                                                            ELSE pending
       /\ \/ /\ r.phase = "scheduled"
             /\ \/ timer' = Arm(r) /\ UNCHANGED count
                \/ UNCHANGED timer /\ Fault
             /\ UNCHANGED told
          \/ /\ r.phase = "operator"
             /\ told' = Tell(r)
             /\ UNCHANGED <<timer, count>>
       /\ task' = [task EXCEPT ![h] = Idle]
       /\ UNCHANGED <<now, agent, edges, session, goal, install, store, queue,
                      started, inFlight, fallback>>

WriteFailed(h) ==
    /\ task[h].pc \in {"publish", "retry"} /\ task[h].result = "failed"
    /\ GiveUp(h)
    /\ UNCHANGED <<now, agent, edges, session, goal, install, store, started,
                   count, history>>

(* removeCurrent after its removal.                                        *)
Removed(h) ==
    /\ task[h].pc \in {"clear", "remove"} /\ task[h].result # "none"
    /\ timer' = IF task[h].pc = "clear" \/ task[h].result = "ok"
                THEN None ELSE timer
    /\ inFlight' = (inFlight /\ ~task[h].busy)
    /\ task' = [task EXCEPT ![h] = Idle]
    /\ UNCHANGED <<now, agent, edges, session, goal, install, store, queue,
                   pending, started, count, history>>

-----------------------------------------------------------------------------
(* Resuming the Goal.                                                      *)

(* The one-shot timer of a scheduled incident.                             *)
TimerFires(h) ==
    /\ Free(h) /\ timer # None /\ timer.due <= now
    /\ timer' = None
    /\ ResumeScheduled(h, timer)
    /\ UNCHANGED <<now, edges, session, goal, install, store, pending, started,
                   count, history>>

(* The Goal and the incident are those the maintenance was claimed for.    *)
StillContinues(h, r) ==   \* the incident is not compared again
    IF task[h].pc = "adopt" THEN GoalApplied(r) ELSE Matches(r, task[h].arg)

StillExact(h, r) ==
    /\ store = r
    /\ IF task[h].pc = "adopt" THEN GoalApplied(r) ELSE Matches(r, task[h].arg)

(* The maintenance task of resumeExact: it looks again at what it was      *)
(* called for, resumes the Goal and writes the recovering incident, or     *)
(* finds its incident stale and removes it.  "adopt" finds the Goal        *)
(* resumed already.                                                        *)
EnterMaintenance(h) ==
    LET r == task[h].rec
        revision == IF task[h].pc = "adopt" THEN goal.rev ELSE goal.rev + 1
        unknown == r.code \in Unknown
    IN /\ task[h].pc \in {"enter", "adopt"}
       /\ \/ /\ ~started
             /\ agent' = [agent EXCEPT !.claim = None]
             /\ inFlight' = FALSE
             /\ task' = [task EXCEPT ![h] = Idle]
             /\ UNCHANGED <<goal, queue>>
          \/ /\ started /\ ~StillExact(h, r)
             /\ agent' = [agent EXCEPT !.claim = None]
             /\ RemoveStored(h, r, "remove", TRUE)
             /\ UNCHANGED goal
          \/ /\ started /\ StillExact(h, r)
             /\ goal' = [goal EXCEPT !.rev = revision, !.armed = TRUE]
             /\ Put(h, "resumed",
                    [r EXCEPT !.phase = "recovering", !.due = None,
                              !.resumed = revision, !.used = @ \/ unknown])
             /\ UNCHANGED <<agent, inFlight>>
       /\ edges' = IF goal' # goal THEN edges \cup {"goal"} ELSE edges
       /\ UNCHANGED <<now, session, install, store, pending, timer, started,
                      count, history>>

(* The end of the maintenance: after a successful write the Session is     *)
(* checkpointed, unless the plugin stopped.                                *)
LeaveMaintenance(h) ==
    /\ task[h].pc = "resumed" /\ task[h].result # "none"
    /\ agent' = [agent EXCEPT !.claim = None]
    /\ inFlight' = FALSE
    /\ task' = [task EXCEPT ![h] = Idle]
    /\ \/ /\ task[h].result = "ok" /\ started
          /\ \/ saved' = Checkpoint /\ UNCHANGED count
             \/ UNCHANGED saved /\ Fault
       \/ /\ task[h].result = "failed" \/ ~started
          /\ UNCHANGED <<saved, count>>
    /\ UNCHANGED <<now, edges, log, goal, install, store, queue, pending, timer,
                   started, history>>

(* handleAdaptersUpdated: a candidate in memory is reconciled first; the   *)
(* stored incident is looked at in a second pass.                          *)
AdaptersUpdated(h) ==
    /\ Free(h) /\ started
    /\ May("updates", MaxUpdates)
    /\ count' = Spend("updates")
    /\ edges' = edges \cup {"adapters"}
    /\ IF pending # None /\ agent.up THEN ReconcileTurn(h, pending.turn)
                                     ELSE Return(h)
    /\ UNCHANGED <<now, session, goal, install, store, pending, timer, started,
                   history>>

AdapterPass(h) ==
    /\ Free(h)
    /\ "adapters" \in edges
    /\ edges' = edges \ {"adapters"}
    /\ IF pending # None \/ store = None \/ ~agent.up
       THEN Return(h) /\ UNCHANGED <<pending, timer>>
       ELSE IF agent.status # "idle"
       THEN /\ IF store.phase = "operator"
               THEN /\ task' = [task EXCEPT ![h] = At("whenIdle", store, 0, FALSE)]
                    /\ UNCHANGED agent
               ELSE /\ agent' = [agent EXCEPT !.awaited = TRUE]
                    /\ UNCHANGED task
            /\ UNCHANGED <<queue, pending, timer, inFlight>>
       ELSE IF store.phase = "operator"
       THEN ResumeOperator(h, store) /\ UNCHANGED <<pending, timer>>
       ELSE AgentReady(h)
    /\ UNCHANGED <<now, session, goal, install, store, started, count, history>>

OperatorWhenIdle(h) ==
    /\ task[h].pc = "whenIdle"
    /\ agent.up /\ agent.status = "idle" /\ agent.claim = None
    /\ ResumeOperator(h, task[h].rec)
    /\ UNCHANGED <<now, edges, session, goal, install, store, pending, timer,
                   started, count, history>>

(* The incident of a person, scheduled again for now.                      *)
Rescheduled(h) ==
    /\ task[h].pc = "retry" /\ task[h].result = "ok"
    /\ ResumeScheduled(h, task[h].rec)
    /\ UNCHANGED <<now, edges, session, goal, install, store, pending, timer,
                   started, count, history>>

-----------------------------------------------------------------------------
(* The Runtime around the recovery.                                        *)

(* The work of the Runtime on one Lab is queued: a job that waits for a    *)
(* write keeps the others out.                                             *)
LabFree == edges \cap {"apply", "saving"} = {}

(* trackControllerGoalChange: the RuntimeState follows the Goal revision.  *)
TrackGoal ==
    /\ "goal" \in edges /\ LabFree
    /\ edges' = edges \ {"goal"}
    /\ install' = IF started /\ goal.asg = install.asg
                  THEN [install EXCEPT !.rev = goal.rev] ELSE install
    /\ UNCHANGED <<now, agent, session, goal, store, queue, pending, timer,
                   started, inFlight, task, count, history>>

(* wakeControllerForEvent: a result recorded for the Controller resumes    *)
(* its Goal, unless the recovery owns it.                                  *)
WakeController ==
    /\ started /\ agent.up /\ LabFree /\ Resolved
    /\ ~RecoveryOwnsGoal /\ ~goal.armed /\ ~goal.spent
    /\ May("edits", MaxEdits) /\ count' = Spend("edits")
    /\ goal' = [goal EXCEPT !.rev = @ + 1, !.armed = TRUE]
    /\ edges' = edges \cup {"saving"}
    /\ fallback' = NoFallback
    /\ UNCHANGED <<now, agent, session, install, store, queue, pending, timer,
                   started, inFlight, task, told>>

(* armControllerGoal, for a Controller that is attached or that got a new  *)
(* objective: the assignment of the Goal is recorded first.                *)
ArmController ==
    /\ started /\ agent.up /\ LabFree
    /\ \/ /\ "attach" \in edges
          /\ UNCHANGED count
          /\ IF RecoveryOwnsGoal
             THEN UNCHANGED install /\ edges' = edges \ {"attach"}
             ELSE /\ install' = [install EXCEPT !.applied = FALSE]
                  /\ edges' = (edges \ {"attach"}) \cup {"apply"}
       \/ /\ ~RecoveryOwnsGoal
          /\ May("edits", MaxEdits) /\ count' = Spend("edits")
          /\ install' = [install EXCEPT !.asg = @ + 1, !.applied = FALSE]
          /\ edges' = edges \cup {"apply"}
    /\ UNCHANGED <<now, agent, session, goal, store, queue, pending, timer,
                   started, inFlight, task, history>>

(* applyControllerGoal: the Goal gets the objective of the assignment and  *)
(* is resumed, if it has a round left.                                     *)
ApplyGoal ==
    LET edited == IF goal.asg = install.asg THEN goal
                  ELSE [goal EXCEPT !.asg = install.asg, !.rev = @ + 1]
    IN /\ "apply" \in edges
       /\ started /\ agent.up
       /\ \/ /\ goal.spent /\ ~goal.armed
             /\ goal' = edited
             /\ edges' = edges \ {"apply"}
             /\ UNCHANGED fallback
          \/ /\ ~goal.spent \/ goal.armed
             /\ goal' = IF goal.armed THEN edited
                        ELSE [edited EXCEPT !.rev = @ + 1, !.armed = TRUE]
             /\ edges' = (edges \ {"apply"}) \cup {"saving"}
             /\ fallback' = IF goal' = goal THEN fallback ELSE NoFallback
       /\ UNCHANGED <<now, agent, session, install, store, queue, pending,
                      timer, started, inFlight, task, count, told>>

(* The Session is checkpointed, then the RuntimeState says applied.        *)
GoalSaved ==
    /\ "saving" \in edges
    /\ edges' = edges \ {"saving"}
    /\ saved' = Checkpoint
    /\ install' = [install EXCEPT !.rev = goal.rev, !.applied = TRUE]
    /\ UNCHANGED <<now, agent, log, goal, store, queue, pending, timer,
                   started, inFlight, task, count, history>>

(* Another maintenance holds the idle Agent for a while.                   *)
Hold ==
    /\ agent.up /\ agent.status = "idle" /\ agent.claim = None
    /\ "idle" \notin edges
    /\ May("edits", MaxEdits)
    /\ count' = Spend("edits")
    /\ agent' = [agent EXCEPT !.claim = "other"]
    /\ UNCHANGED <<now, edges, session, goal, install, store, queue, pending,
                   timer, started, inFlight, task, history>>

Release ==
    /\ agent.claim = "other"
    /\ agent' = [agent EXCEPT !.claim = None]
    /\ UNCHANGED <<now, edges, session, goal, install, store, queue, pending,
                   timer, started, inFlight, task, count, history>>

(* A retry delay passes.  It is longer than a write of the store.          *)
Tick ==
    /\ now < MaxTime /\ queue = <<>>
    /\ IsPhase(store, "scheduled") /\ store.due > now
    /\ now' = now + 1
    /\ UNCHANGED <<agent, edges, session, goal, install, store, queue, pending,
                   timer, started, inFlight, task, count, history>>

(* dispose: the handlers that run find the plugin stopped.                 *)
Dispose ==
    /\ started
    /\ May("restarts", MaxRestarts)
    /\ count' = Spend("restarts")
    /\ started' = FALSE
    /\ timer' = None
    /\ edges' = edges \ {"goal", "attach", "adapters", "apply"}
    /\ UNCHANGED <<now, agent, session, goal, install, store, queue, pending,
                   inFlight, task, history>>

(* The process dies: what is not in the store, the RuntimeState or the     *)
(* saved Session is lost.  Between checkpoints the Session may have been   *)
(* saved as well.                                                          *)
Crash ==
    /\ May("restarts", MaxRestarts)
    /\ count' = Spend("restarts")
    /\ started' = FALSE /\ inFlight' = FALSE
    /\ agent' = [up |-> FALSE, status |-> "idle", fault |-> None,
                 claim |-> None, awaited |-> FALSE]
    /\ edges' = {}
    /\ \/ log' = saved.log
          /\ goal' = [goal EXCEPT !.asg = saved.asg, !.rev = saved.rev,
                                !.armed = FALSE]
          /\ UNCHANGED saved
       \/ saved' = Checkpoint
          /\ goal' = [goal EXCEPT !.armed = FALSE]
          /\ UNCHANGED log
    /\ queue' = <<>> /\ pending' = None /\ timer' = None
    /\ task' = [h \in Handlers |-> Idle]
    /\ fallback' = IF goal'.rev # goal.rev THEN NoFallback ELSE fallback
    /\ UNCHANGED <<now, install, store, told>>

(* start in a fresh process, or after the handlers of a disposed plugin    *)
(* were drained.                                                           *)
Start ==
    /\ ~started
    /\ \A h \in Handlers : Free(h)
    /\ queue = <<>>
    /\ started' = TRUE
    /\ pending' = None /\ inFlight' = FALSE
    /\ edges' = edges \cup {"reconcile"}
                      \cup (IF agent.up THEN {"attach"} ELSE {})
    /\ UNCHANGED <<now, agent, session, goal, install, store, queue, timer,
                   task, count, history>>

(* The Session is loaded again: agent/created and agent/session-start.     *)
Load ==
    /\ ~agent.up
    /\ agent' = [agent EXCEPT !.up = TRUE]
    /\ edges' = edges \cup (IF started THEN {"reconcile", "idle", "attach"}
                                       ELSE {})
    /\ UNCHANGED <<now, session, goal, install, store, queue, pending, timer,
                   started, inFlight, task, count, history>>

(* reconcile and handleAgentCreated: a scheduled incident is armed, any    *)
(* other is taken up where it waits.                                       *)
Reconcile(h) ==
    /\ Free(h)
    /\ "reconcile" \in edges
    /\ edges' = edges \ {"reconcile"}
    /\ IF pending = None /\ IsPhase(store, "scheduled")
       THEN timer' = Arm(store) /\ Return(h) /\ UNCHANGED pending
       ELSE AgentReady(h)
    /\ UNCHANGED <<now, session, goal, install, store, started, count, history>>

-----------------------------------------------------------------------------
Handler(h) ==
    \/ RequestRecorded(h) \/ TerminalSaved(h)
    \/ SettlementSaved(h) \/ Published(h) \/ WriteFailed(h) \/ Removed(h)
    \/ EnterMaintenance(h) \/ LeaveMaintenance(h) \/ OperatorWhenIdle(h)
    \/ Rescheduled(h)

Edge(h) == IdleEdge(h) \/ AdapterPass(h) \/ Reconcile(h)

Next ==
    \/ StartTurn \/ Commit \/ TrackGoal \/ WakeController
    \/ ArmController \/ ApplyGoal \/ GoalSaved
    \/ ClaimRetried \/ Hold \/ Release \/ Tick \/ Dispose \/ Crash \/ Start \/ Load
    \/ \E h \in Handlers :
          \/ \E code \in Codes : RequestError(h, code)
          \/ EndTurn(h) \/ CheckpointFails(h) \/ TimerFires(h)
          \/ AdaptersUpdated(h) \/ Edge(h) \/ Handler(h)

Spec == Init /\ [][Next]_vars

FairSpec ==
    /\ Spec
    /\ WF_vars(Commit) /\ WF_vars(TrackGoal) /\ WF_vars(Release)
    /\ WF_vars(ClaimRetried)
    /\ WF_vars(ArmController /\ UNCHANGED count) /\ WF_vars(ApplyGoal)
    /\ WF_vars(GoalSaved) /\ WF_vars(Tick) /\ WF_vars(Start) /\ WF_vars(Load)
    /\ WF_vars(\E h \in Handlers : EndTurn(h))
    /\ WF_vars(\E h \in Handlers : Edge(h))
    /\ WF_vars(\E h \in Handlers : TimerFires(h))
    /\ \A h \in Handlers : WF_vars(Handler(h))

-----------------------------------------------------------------------------
Task ==
    [pc : {"free", "request", "flush", "publish", "clear", "remove", "enter",
           "adopt", "resumed", "whenIdle", "retry"},
     rec : Incident \cup {None}, arg : Nat,
     result : {"none", "ok", "failed"}, busy : BOOLEAN]

(* Every variable has its type; a handler that waits knows its incident,   *)
(* and one that waits for a checkpoint the turn that ended.                *)
TypeOK ==
    /\ now \in 0..MaxTime
    /\ agent \in [up : BOOLEAN, status : {"idle", "running", "failing"},
                  fault : Codes \cup {None},
                  claim : Handlers \cup {"other", None}, awaited : BOOLEAN]
    /\ edges \subseteq {"idle", "adapters", "goal", "attach", "reconcile",
                       "apply", "saving"}
    /\ log \in Seq(Codes \cup {None}) /\ Len(log) <= MaxTurns
    /\ goal \in [asg : Nat, rev : Nat, armed : BOOLEAN, spent : BOOLEAN]
    /\ saved \in [log : Seq(Codes \cup {None}), asg : Nat, rev : Nat]
    /\ Len(saved.log) <= MaxTurns
    /\ install \in [asg : Nat, rev : Nat, applied : BOOLEAN]
    /\ store \in Incident \cup {None} /\ pending \in Incident \cup {None}
    /\ timer \in Incident \cup {None}
    /\ started \in BOOLEAN /\ inFlight \in BOOLEAN
    /\ task \in [Handlers -> Task]
    /\ \A h \in Handlers :
          /\ task[h].pc # "free" => task[h].rec \in Incident
          /\ task[h].pc = "flush" => task[h].arg \in 1..Len(log)
    /\ queue \in Seq([kind : {"put", "remove"}, by : Handlers, rec : Incident])
    /\ count \in [recordings : Nat, faults : Nat, restarts : Nat, edits : Nat,
                  updates : Nat]

(* The maintenance claim is given back before the stale incident is        *)
(* removed, so inFlight alone keeps a second timer or idle edge from       *)
(* resuming meanwhile: one handler at most is in resumeExact, and inFlight *)
(* says so.                                                                *)
OneInFlight ==
    /\ \A h, i \in Handlers : task[h].busy /\ task[i].busy => h = i
    /\ (\E h \in Handlers : task[h].busy) => inFlight

(* "An old timer can never erase a newer failure": while no write fails    *)
(* and the plugin runs on, no handler that waited for a checkpoint or for  *)
(* the queue puts an older incident over a newer one.                      *)
NewerIncidentKept ==
    [][store # None /\ store' # None /\ count.faults + count.restarts = 0 =>
            store'.at >= store.at /\ store'.turn >= store.turn]_vars

(* The Goal is resumed for the incident that is current then, in memory or *)
(* stored, also when the handler waited for its maintenance claim since.   *)
ResumesTheLast ==
    [][\A h \in Handlers :
        EnterMaintenance(h) /\ goal' # goal /\ count.faults = 0 =>
            CurrentRecord = task[h].rec]_vars

(* "Exactly one conservative continuation is allowed for one unknown code":*)
(* the Goal is not resumed for the failure of the very turn that followed  *)
(* its resume for the same code, unless a person was asked or the Goal was *)
(* resumed by someone else.                                                *)
OneFallback ==
    [][fallback'.code # None /\ fallback'.code = fallback.code
            /\ fallback'.turn # fallback.turn
            /\ count.faults + count.restarts = 0 =>
        fallback'.turn > fallback.turn + 1]_vars

(* Nothing a recovery may not get over: no failed write, a round left.     *)
Quiet == count.faults = 0 /\ ~goal.spent

(* A failure that a retry may repair, of the Goal as it stands, and not    *)
(* given up by a handler before.                                           *)
Repairable ==
    LET r == CurrentRecord
    IN /\ r # None /\ r.phase \in {"awaiting", "scheduled"}
       /\ r.code \in Automatic /\ r.turn <= Len(log) /\ log[r.turn] = r.code
       /\ Matches(r, r.ref.rev)
       /\ \A h \in Handlers : task[h].pc = "remove" => task[h].rec # r

(* The end of the failed turn did not survive a crash.                     *)
TurnLost == CurrentRecord # None /\ CurrentRecord.turn > Len(log)

(* After a failure that a retry may repair the Goal goes on, whatever      *)
(* handlers overlap, whoever holds the Agent when the deadline passes and  *)
(* wherever the plugin or the process stops and starts.                    *)
AutomaticFailureResumes ==
    (Repairable /\ Quiet) ~> (goal.armed \/ ~Quiet \/ TurnLost)

(* An incident for a person reaches the Controller, unless the process     *)
(* stopped after it was stored: nothing publishes it again.                *)
OperatorIsTold ==
    (IsPhase(store, "operator") /\ store.at \notin told)
        ~> (~IsPhase(store, "operator") \/ store.at \in told
            \/ count.restarts > 0)

(* A scheduled incident whose Goal has no round left is handed to a person:*)
(* api-recovery.test.ts "turns a mechanical resume refusal into one        *)
(* operator incident instead of stalling".  It is not: promoteOperator     *)
(* keeps dueAt, and the schema of the durable store refuses the record.    *)
RefusalIsHandedOver ==
    (IsPhase(store, "scheduled") /\ goal.spent) ~> ~IsPhase(store, "scheduled")
=============================================================================
