----------------------------- MODULE ApiProofs -----------------------------
(***************************************************************************)
(* Proofs about ApiRecovery for any number of handlers, turns, codes and   *)
(* disturbances: the types, one resume in flight, the resume of the        *)
(* current incident only, the order of the incidents that are stored, and  *)
(* the one continuation of an unknown failure.                             *)
(***************************************************************************)
EXTENDS ApiRecovery, TLAPS

-----------------------------------------------------------------------------
(* The inductive invariant.                                                *)

PutWaits == {"request", "publish", "resumed", "retry"}
RemoveWaits == {"clear", "remove"}
Waits(kind) == IF kind = "put" THEN PutWaits ELSE RemoveWaits
Claiming == {"enter", "adopt", "resumed"}

(* An operation of the queue is the only one of its handler, which waits for it. *)
QueueShape ==
    /\ \A i \in 1..Len(queue) :
          /\ task[queue[i].by].result = "none"
          /\ task[queue[i].by].pc \in Waits(queue[i].kind)
    /\ \A i, j \in 1..Len(queue) : queue[i].by = queue[j].by => i = j

(* A maintenance runs on an idle Agent that its handler claimed. *)
ClaimShape ==
    /\ agent.claim # None => agent.status = "idle"
    /\ \A h \in Handlers :
          /\ task[h].pc \in Claiming => task[h].busy /\ agent.claim = h
          /\ task[h].busy => task[h].pc \in Claiming \cup {"remove"}

(* While no write fails, a candidate is in memory only until the request-error
   handler of the failing turn returns. *)
PendingShape ==
    /\ \A h \in Handlers : task[h].pc = "request" => agent.status = "failing"
    /\ count.faults = 0 =>
          /\ \A h \in Handlers : task[h].pc = "request" => task[h].result # "failed"
          /\ pending # None =>
                \E h \in Handlers : task[h].pc = "request" /\ task[h].rec = pending

(* A turn that is under way has its place in the log. *)
TurnFits == agent.status # "idle" => Len(log) < MaxTurns

IInv ==
    TypeOK /\ TurnFits /\ QueueShape /\ ClaimShape /\ PendingShape /\ OneInFlight

-----------------------------------------------------------------------------
(* The parts of TypeOK.                                                    *)

Agents == [up : BOOLEAN, status : {"idle", "running", "failing"},
           fault : Codes \cup {None}, claim : Handlers \cup {"other", None},
           awaited : BOOLEAN]

Operations == [kind : {"put", "remove"}, by : Handlers, rec : Incident]

Counts == [recordings : Nat, faults : Nat, restarts : Nat, edits : Nat,
           updates : Nat]

Saves ==
    {c \in [log : Seq(Codes \cup {None}), asg : Nat, rev : Nat] :
        Len(c.log) <= MaxTurns}

Data ==
    /\ now \in 0..MaxTime
    /\ edges \subseteq {"idle", "adapters", "goal", "attach", "reconcile",
                       "apply", "saving"}
    /\ log \in Seq(Codes \cup {None}) /\ Len(log) <= MaxTurns
    /\ goal \in [asg : Nat, rev : Nat, armed : BOOLEAN, spent : BOOLEAN]
    /\ saved \in Saves
    /\ install \in [asg : Nat, rev : Nat, applied : BOOLEAN]
    /\ store \in Incident \cup {None} /\ pending \in Incident \cup {None}
    /\ timer \in Incident \cup {None}
    /\ started \in BOOLEAN
    /\ count \in Counts

Tasks ==
    /\ task \in [Handlers -> Task]
    /\ \A h \in Handlers :
          /\ task[h].pc # "free" => task[h].rec \in Incident
          /\ task[h].pc = "flush" => task[h].arg \in 1..Len(log)
    /\ queue \in Seq(Operations)

LEMMA TypeParts ==
    TypeOK <=> Data /\ agent \in Agents /\ inFlight \in BOOLEAN /\ Tasks
BY DEF TypeOK, Data, Agents, Tasks, Operations, Counts, Saves

LEMMA TypePartsNext ==
    TypeOK' <=> Data' /\ agent' \in Agents /\ inFlight' \in BOOLEAN /\ Tasks'
BY DEF TypeOK, Data, Agents, Tasks, Operations, Counts, Saves

(* What the step of handler h does to its task: t is where it goes. *)
Shifts(h, t) ==
    /\ t \in Task
    /\ t.pc # "free" => t.rec \in Incident
    /\ t.pc = "flush" => t.arg \in 1..Len(log')
    /\ task' = [task EXCEPT ![h] = t]
    /\ \/ queue' = queue /\ t.pc \notin PutWaits \cup RemoveWaits
       \/ \E kind \in {"put", "remove"} :
             /\ queue' = Append(queue, [kind |-> kind, by |-> h, rec |-> t.rec])
             /\ t.pc \in Waits(kind) /\ t.result = "none"

(* What it does to the claim of the Agent: nothing, take it, keep it or give it
   back. *)
NoClaim(h, t) ==
    /\ ~task[h].busy /\ ~t.busy /\ t.pc \notin Claiming
    /\ inFlight' = inFlight /\ agent'.claim = agent.claim

TakesClaim(h, t) ==
    /\ ~inFlight /\ agent.status = "idle"
    /\ t.busy /\ t.pc \in Claiming /\ inFlight' = TRUE /\ agent'.claim = h

KeepsClaim(h, t) ==
    /\ task[h].busy /\ t.busy /\ inFlight' = inFlight
    /\ task[h].pc \in Claiming
    /\ \/ t.pc \in Claiming /\ agent'.claim = agent.claim
       \/ t.pc = "remove" /\ agent'.claim = None

EndsClaim(h, t) ==
    /\ task[h].busy /\ ~t.busy /\ t.pc \notin Claiming /\ inFlight' = FALSE
    /\ \/ task[h].pc = "remove" /\ agent'.claim = agent.claim
       \/ task[h].pc \in Claiming /\ agent'.claim = None

Claims(h, t) ==
    NoClaim(h, t) \/ TakesClaim(h, t) \/ KeepsClaim(h, t) \/ EndsClaim(h, t)

(* No operation of the queue is of h. *)
Unqueued(h) == \A i \in 1..Len(queue) : queue[i].by # h

Moved(h) ==
    /\ agent' \in Agents /\ agent'.status = agent.status
    /\ inFlight' \in BOOLEAN
    /\ \E t \in Task : Shifts(h, t) /\ Claims(h, t) /\ t.pc # "request"

Ready(h) == ~task[h].busy /\ Unqueued(h) /\ task[h].pc # "request"

-----------------------------------------------------------------------------
(* What a step of one handler preserves.                                   *)

LEMMA IdleTask == Idle \in Task /\ Idle.pc = "free" /\ ~Idle.busy /\ Idle.result = "none"
BY DEF Idle, At, Task

LEMMA OthersQueued ==
    ASSUME queue \in Seq(Operations), NEW h \in Handlers, Unqueued(h)
    PROVE  \A i \in 1..Len(queue) : queue[i].by \in Handlers \ {h}
<1> SUFFICES ASSUME NEW i \in 1..Len(queue) PROVE queue[i].by \in Handlers \ {h}
  OBVIOUS
<1>1. queue[i] \in Operations
  OBVIOUS
<1> QED BY <1>1 DEF Operations, Unqueued

LEMMA ShiftsTasks ==
    ASSUME Tasks, QueueShape, NEW h \in Handlers, NEW t, Shifts(h, t), Unqueued(h),
           Len(log) \in Nat, Len(log') \in Nat, Len(log) <= Len(log')
    PROVE  Tasks' /\ QueueShape'
<1>1. /\ task' \in [Handlers -> Task] /\ task'[h] = t
      /\ \A i \in Handlers \ {h} : task'[i] = task[i]
  BY DEF Shifts, Tasks
<1>2. \A i \in Handlers : /\ task'[i].pc # "free" => task'[i].rec \in Incident
                          /\ task'[i].pc = "flush" => task'[i].arg \in 1..Len(log')
  <2> SUFFICES ASSUME NEW i \in Handlers
               PROVE  /\ task'[i].pc # "free" => task'[i].rec \in Incident
                      /\ task'[i].pc = "flush" => task'[i].arg \in 1..Len(log')
    OBVIOUS
  <2>1. CASE i = h
    BY <1>1, <2>1 DEF Shifts
  <2>2. CASE i # h
    BY <1>1, <2>2 DEF Tasks
  <2> QED BY <2>1, <2>2
<1>3. queue \in Seq(Operations)
  BY DEF Tasks
<1>4. CASE queue' = queue
  <2>1. \A i \in 1..Len(queue) : queue[i].by \in Handlers \ {h}
    BY <1>3, OthersQueued
  <2>2. QueueShape'
    BY <1>1, <1>4, <2>1 DEF QueueShape
  <2> QED BY <1>1, <1>2, <1>3, <1>4, <2>2 DEF Tasks
<1>5. CASE \E kind \in {"put", "remove"} :
              /\ queue' = Append(queue, [kind |-> kind, by |-> h, rec |-> t.rec])
              /\ t.pc \in Waits(kind) /\ t.result = "none"
  <2>1. PICK kind \in {"put", "remove"} :
              /\ queue' = Append(queue, [kind |-> kind, by |-> h, rec |-> t.rec])
              /\ t.pc \in Waits(kind) /\ t.result = "none"
    BY <1>5
  <2>2. t.rec \in Incident
    BY <2>1 DEF Shifts, Waits, PutWaits, RemoveWaits
  <2>3. [kind |-> kind, by |-> h, rec |-> t.rec] \in Operations
    BY <2>2 DEF Operations
  <2>4. /\ queue' \in Seq(Operations) /\ Len(queue') = Len(queue) + 1
        /\ \A i \in 1..Len(queue) : queue'[i] = queue[i]
        /\ queue'[Len(queue) + 1] = [kind |-> kind, by |-> h, rec |-> t.rec]
    BY <1>3, <2>1, <2>3
  <2>5. \A i \in 1..Len(queue) : queue[i].by \in Handlers \ {h}
    BY <1>3, OthersQueued
  <2>6. queue'[Len(queue) + 1].by = h /\ queue'[Len(queue) + 1].kind = kind
    BY <2>4
  <2>7. Len(queue) \in Nat
    BY <1>3
  <2>8. \A i \in 1..Len(queue') : i \in 1..Len(queue) \/ i = Len(queue) + 1
    BY <2>4, <2>7
  <2>9. \A i \in 1..Len(queue') :
          /\ task'[queue'[i].by].result = "none"
          /\ task'[queue'[i].by].pc \in Waits(queue'[i].kind)
    <3> SUFFICES ASSUME NEW i \in 1..Len(queue')
                 PROVE  /\ task'[queue'[i].by].result = "none"
                        /\ task'[queue'[i].by].pc \in Waits(queue'[i].kind)
      OBVIOUS
    <3>1. CASE i \in 1..Len(queue)
      BY <1>1, <2>4, <2>5, <3>1 DEF QueueShape
    <3>2. CASE i = Len(queue) + 1
      BY <1>1, <2>1, <2>6, <3>2
    <3> QED BY <2>8, <3>1, <3>2
  <2>10. \A i, j \in 1..Len(queue') : queue'[i].by = queue'[j].by => i = j
    BY <2>4, <2>5, <2>6, <2>8 DEF QueueShape
  <2>11. QueueShape'
    BY <2>9, <2>10 DEF QueueShape, Waits, PutWaits, RemoveWaits
  <2> QED BY <1>1, <1>2, <2>4, <2>11 DEF Tasks
<1> QED BY <1>4, <1>5 DEF Shifts

LEMMA ClaimsKept ==
    ASSUME Tasks, ClaimShape, OneInFlight, NEW h \in Handlers, NEW t \in Task,
           task' = [task EXCEPT ![h] = t], Claims(h, t), inFlight \in BOOLEAN,
           agent'.claim # None => agent'.status = "idle" \/ agent'.status = agent.status
    PROVE  ClaimShape' /\ OneInFlight'
<1> USE ApiAssumption
<1>1. /\ task'[h] = t
      /\ \A i \in Handlers \ {h} : task'[i] = task[i]
  BY DEF Tasks
<1>2. CASE NoClaim(h, t)
  BY <1>1, <1>2 DEF NoClaim, ClaimShape, OneInFlight, Claiming
<1>3. CASE TakesClaim(h, t)
  <2>1. \A i \in Handlers \ {h} : ~task'[i].busy /\ task'[i].pc \notin Claiming
    BY <1>1, <1>3 DEF TakesClaim, OneInFlight, ClaimShape
  <2> QED BY <1>1, <1>3, <2>1 DEF TakesClaim, ClaimShape, OneInFlight, Claiming
<1>4. CASE KeepsClaim(h, t)
  <2>1. \A i \in Handlers \ {h} : ~task'[i].busy /\ task'[i].pc \notin Claiming
    BY <1>1, <1>4 DEF KeepsClaim, OneInFlight, ClaimShape
  <2> QED BY <1>1, <1>4, <2>1 DEF KeepsClaim, ClaimShape, OneInFlight, Claiming
<1>5. CASE EndsClaim(h, t)
  <2>1. \A i \in Handlers \ {h} : ~task'[i].busy /\ task'[i].pc \notin Claiming
    BY <1>1, <1>5 DEF EndsClaim, OneInFlight, ClaimShape
  <2> QED BY <1>1, <1>5, <2>1 DEF EndsClaim, ClaimShape, OneInFlight, Claiming
<1> QED BY <1>2, <1>3, <1>4, <1>5 DEF Claims

LEMMA PendingKept ==
    ASSUME Tasks, PendingShape, count \in Counts, NEW h \in Handlers, NEW t \in Task,
           task' = [task EXCEPT ![h] = t], task[h].pc # "request", t.pc # "request",
           pending' \in {pending, None}, agent'.status = agent.status,
           count' \in Counts, count'.faults >= count.faults
    PROVE  PendingShape'
<1>1. /\ task'[h] = t
      /\ \A i \in Handlers \ {h} : task'[i] = task[i]
  BY DEF Tasks
<1>2. count'.faults = 0 => count.faults = 0
  BY DEF Counts
<1> QED BY <1>1, <1>2 DEF PendingShape

LEMMA UnqueuedWhen ==
    ASSUME QueueShape, NEW h \in Handlers,
           \/ task[h].pc \notin PutWaits \cup RemoveWaits
           \/ task[h].result # "none"
    PROVE  Unqueued(h)
BY DEF QueueShape, Unqueued, Waits

LEMMA ReadyWhen ==
    ASSUME IInv, NEW h \in Handlers,
           \/ task[h].pc \in {"free", "flush", "whenIdle"}
           \/ task[h].pc \in {"retry", "publish", "clear"} /\ task[h].result # "none"
    PROVE  Ready(h)
<1>1. Unqueued(h)
  BY UnqueuedWhen DEF IInv, PutWaits, RemoveWaits
<1>2. task[h].pc \notin Claiming \cup {"remove", "request"}
  BY DEF Claiming
<1>3. ~task[h].busy
  BY <1>2 DEF IInv, ClaimShape
<1> QED BY <1>1, <1>2, <1>3 DEF Ready

(* The step of a handler that is not in its request-error part. *)
LEMMA HandlerStep ==
    ASSUME IInv, NEW h \in Handlers, task[h].pc # "request", Unqueued(h), Moved(h),
           UNCHANGED log, Data', pending' \in {pending, None},
           count'.faults >= count.faults
    PROVE  IInv'
<1>0. /\ Data /\ agent \in Agents /\ inFlight \in BOOLEAN /\ Tasks
      /\ TurnFits /\ QueueShape /\ ClaimShape /\ PendingShape /\ OneInFlight
  BY TypeParts DEF IInv
<1>1. PICK t \in Task : Shifts(h, t) /\ Claims(h, t) /\ t.pc # "request"
  BY DEF Moved
<1>2. agent' \in Agents /\ agent'.status = agent.status /\ inFlight' \in BOOLEAN
  BY DEF Moved
<1>3. task' = [task EXCEPT ![h] = t]
  BY <1>1 DEF Shifts
<1>4. Len(log) \in Nat
  BY <1>0 DEF Data
<1>5. Tasks' /\ QueueShape'
  BY <1>0, <1>1, <1>4, ShiftsTasks
<1>6. ClaimShape' /\ OneInFlight'
  BY <1>0, <1>1, <1>2, <1>3, ClaimsKept
<1>7. count \in Counts /\ count' \in Counts
  BY <1>0 DEF Data
<1>8. PendingShape'
  BY <1>0, <1>1, <1>2, <1>3, <1>7, PendingKept
<1>9. TurnFits'
  BY <1>0, <1>2 DEF TurnFits
<1>10. TypeOK'
  BY <1>2, <1>5, TypePartsNext
<1> QED BY <1>5, <1>6, <1>8, <1>9, <1>10 DEF IInv

-----------------------------------------------------------------------------
(* The pieces of handlers.                                                 *)

LEMMA AtTask ==
    ASSUME NEW pc \in {"free", "request", "flush", "publish", "clear", "remove",
                       "enter", "adopt", "resumed", "whenIdle", "retry"},
           NEW r \in Incident \cup {None}, NEW arg \in Nat, NEW busy \in BOOLEAN
    PROVE  At(pc, r, arg, busy) \in Task
BY DEF At, Task

LEMMA ReturnMoves ==
    ASSUME IInv, NEW h \in Handlers, Ready(h),
           task' = [task EXCEPT ![h] = Idle], UNCHANGED <<queue, inFlight>>,
           agent' \in Agents, agent'.status = agent.status,
           agent'.claim = agent.claim
    PROVE  Moved(h)
<1>1. Idle \in Task /\ Idle.pc = "free" /\ ~Idle.busy
  BY IdleTask
<1>2. Shifts(h, Idle)
  BY <1>1 DEF Shifts, PutWaits, RemoveWaits
<1>3. NoClaim(h, Idle)
  BY <1>1 DEF NoClaim, Ready, Claiming
<1>4. inFlight' \in BOOLEAN
  BY TypeParts DEF IInv
<1> QED BY <1>1, <1>2, <1>3, <1>4 DEF Moved, Claims

(* A write or a removal that h waits for without a claim. *)
LEMMA WaitMoves ==
    ASSUME IInv, NEW h \in Handlers, Ready(h),
           NEW kind \in {"put", "remove"}, NEW r \in Incident,
           NEW pc \in Waits(kind) \ {"request", "resumed"},
           Enqueue(kind, h, r), task' = [task EXCEPT ![h] = At(pc, r, 0, FALSE)],
           UNCHANGED <<inFlight, agent>>
    PROVE  Moved(h)
<1> DEFINE t == At(pc, r, 0, FALSE)
<1>1. pc \in {"publish", "retry", "clear", "remove"}
  BY DEF Waits, PutWaits, RemoveWaits
<1>2. t \in Task
  BY <1>1, AtTask
<1>3. t.pc = pc /\ t.rec = r /\ t.result = "none" /\ ~t.busy
  BY DEF At
<1> HIDE DEF t
<1>4. Shifts(h, t)
  BY <1>1, <1>2, <1>3 DEF Shifts, Enqueue, t
<1>5. NoClaim(h, t)
  BY <1>1, <1>3 DEF NoClaim, Ready, Claiming
<1>6. agent' \in Agents /\ inFlight' \in BOOLEAN
  BY TypeParts DEF IInv
<1> QED BY <1>1, <1>2, <1>3, <1>4, <1>5, <1>6 DEF Moved, Claims

LEMMA PutMoves ==
    ASSUME IInv, NEW h \in Handlers, Ready(h), NEW r \in Incident,
           NEW pc \in {"publish", "retry"}, Put(h, pc, r),
           UNCHANGED <<inFlight, agent>>
    PROVE  Moved(h)
<1>1. agent \in Agents
  BY TypeParts DEF IInv
<1>2. CASE FitsSchema(r)
  <2>1. task[h].busy = FALSE
    <3>1. task[h] \in Task
      BY TypeParts DEF IInv, Tasks
    <3> QED BY <3>1 DEF Ready, Task
  <2>2. pc \in Waits("put") \ {"request", "resumed"}
    BY DEF Waits, PutWaits
  <2> QED BY <1>2, <2>1, <2>2, WaitMoves DEF Put
<1>3. CASE ~FitsSchema(r)
  BY <1>1, <1>3, ReturnMoves DEF Put
<1> QED BY <1>2, <1>3

LEMMA RemoveMoves ==
    ASSUME IInv, NEW h \in Handlers, Ready(h), NEW r \in Incident,
           NEW pc \in {"clear", "remove"}, RemoveStored(h, r, pc, FALSE),
           UNCHANGED agent
    PROVE  Moved(h)
<1>1. pc \in Waits("remove") \ {"request", "resumed"}
  BY DEF Waits, RemoveWaits
<1> QED BY <1>1, WaitMoves DEF RemoveStored

LEMMA RemoveCurrentMoves ==
    ASSUME IInv, NEW h \in Handlers, Ready(h), NEW r \in Incident,
           RemoveCurrent(h, r), UNCHANGED agent
    PROVE  Moved(h) /\ pending' \in {pending, None} /\ timer' \in {timer, None}
<1>1. agent \in Agents
  BY TypeParts DEF IInv
<1>2. CASE pending = r /\ store = r
  <2>1. RemoveStored(h, r, "clear", FALSE) /\ pending' = None /\ timer' = timer
    BY <1>2 DEF RemoveCurrent, RemovePending
  <2> QED BY <2>1, RemoveMoves
<1>3. CASE pending = r /\ store # r
  <2>1. /\ task' = [task EXCEPT ![h] = Idle] /\ UNCHANGED <<queue, inFlight>>
        /\ pending' = None /\ timer' = None
    BY <1>3 DEF RemoveCurrent, RemovePending
  <2> QED BY <1>1, <2>1, ReturnMoves
<1>4. CASE pending # r
  <2>1. RemoveStored(h, r, "remove", FALSE) /\ pending' = pending /\ timer' = timer
    BY <1>4 DEF RemoveCurrent
  <2> QED BY <2>1, RemoveMoves
<1> QED BY <1>2, <1>3, <1>4

(* Records that handlers make of a record. *)
LEMMA PromotedType ==
    ASSUME NEW r \in Incident
    PROVE  [r EXCEPT !.phase = "operator"] \in Incident
BY DEF Incident

LEMMA RetriedType ==
    ASSUME NEW r \in Incident, now \in Nat
    PROVE  [r EXCEPT !.phase = "scheduled", !.due = now] \in Incident
<1> DEFINE s == [r EXCEPT !.phase = "scheduled"]
<1>1. s \in Incident
  BY DEF Incident
<1>2. [r EXCEPT !.phase = "scheduled", !.due = now] = [s EXCEPT !.due = now]
  OBVIOUS
<1> HIDE DEF s
<1>3. [s EXCEPT !.due = now] \in Incident
  BY <1>1 DEF Incident
<1> QED BY <1>2, <1>3

LEMMA ResumeExactMoves ==
    ASSUME IInv, NEW h \in Handlers, Ready(h), NEW r \in Incident,
           NEW pc \in {"enter", "adopt"}, NEW rev \in Nat, MayResume(r),
           ResumeExact(h, pc, r, rev)
    PROVE  Moved(h)
<1>0. agent \in Agents /\ inFlight \in BOOLEAN
  BY TypeParts DEF IInv
<1>1. CASE goal.spent /\ pc = "enter" /\ PromoteOperator(h, r) /\ UNCHANGED <<agent, inFlight>>
  BY <1>1, PromotedType, PutMoves DEF PromoteOperator
<1>2. CASE /\ agent.claim = None
           /\ agent' = [agent EXCEPT !.claim = h]
           /\ inFlight' = TRUE
           /\ task' = [task EXCEPT ![h] = At(pc, r, rev, TRUE)]
           /\ UNCHANGED queue
  <2> DEFINE t == At(pc, r, rev, TRUE)
  <2>1. t \in Task
    BY AtTask
  <2>2. t.pc = pc /\ t.rec = r /\ t.result = "none" /\ t.busy
    BY DEF At
  <2> HIDE DEF t
  <2>3. Shifts(h, t)
    BY <1>2, <2>1, <2>2 DEF Shifts, t, PutWaits, RemoveWaits
  <2>4. /\ agent' \in Agents /\ agent'.claim = h /\ agent'.status = agent.status
    BY <1>0, <1>2 DEF Agents
  <2>5. TakesClaim(h, t)
    BY <1>2, <2>2, <2>4 DEF TakesClaim, MayResume, IsCurrent, Claiming
  <2>6. inFlight' \in BOOLEAN
    BY <1>2
  <2> QED BY <2>1, <2>2, <2>3, <2>4, <2>5, <2>6 DEF Moved, Claims
<1>3. CASE /\ agent' = [agent EXCEPT !.awaited = TRUE]
           /\ task' = [task EXCEPT ![h] = Idle]
           /\ UNCHANGED <<inFlight, queue>>
  <2>1. agent' \in Agents /\ agent'.status = agent.status /\ agent'.claim = agent.claim
    BY <1>0, <1>3 DEF Agents
  <2> QED BY <1>3, <2>1, ReturnMoves
<1> QED BY <1>1, <1>2, <1>3 DEF ResumeExact

LEMMA DropMoves ==
    ASSUME IInv, NEW h \in Handlers, Ready(h), NEW r \in Incident, Drop(h, r)
    PROVE  Moved(h)
BY RemoveMoves DEF Drop

LEMMA StaysMoves ==
    ASSUME IInv, NEW h \in Handlers, Ready(h), Return(h)
    PROVE  Moved(h)
<1>1. agent \in Agents
  BY TypeParts DEF IInv
<1> QED BY <1>1, ReturnMoves DEF Return

LEMMA RevisionType ==
    ASSUME IInv, NEW r \in Incident
    PROVE  goal.rev \in Nat /\ r.ref.rev \in Nat /\ r.resumed \in Nat \cup {None}
BY TypeParts DEF IInv, Data, Incident

LEMMA ResumeScheduledMoves ==
    ASSUME IInv, NEW h \in Handlers, Ready(h), NEW r \in Incident, ResumeScheduled(h, r)
    PROVE  Moved(h)
<1>1. goal.rev \in Nat /\ r.ref.rev \in Nat
  BY RevisionType
<1>2. CASE ~MayResume(r)
  BY <1>2, StaysMoves DEF ResumeScheduled
<1>3. CASE MayResume(r) /\ GoalApplied(r)
  BY <1>1, <1>3, ResumeExactMoves DEF ResumeScheduled
<1>4. CASE MayResume(r) /\ ~GoalApplied(r) /\ Matches(r, r.ref.rev)
  BY <1>1, <1>4, ResumeExactMoves DEF ResumeScheduled
<1>5. CASE MayResume(r) /\ ~GoalApplied(r) /\ ~Matches(r, r.ref.rev)
  BY <1>5, DropMoves DEF ResumeScheduled
<1> QED BY <1>2, <1>3, <1>4, <1>5

LEMMA ResumeRecoveringMoves ==
    ASSUME IInv, NEW h \in Handlers, Ready(h), NEW r \in Incident, ResumeRecovering(h, r)
    PROVE  Moved(h)
<1> DEFINE resumedNow == goal.asg = r.ref.asg /\ goal.rev = r.resumed /\ goal.armed
<1>1. goal.rev \in Nat /\ r.ref.rev \in Nat
  BY RevisionType
<1>2. CASE ~MayResume(r) \/ resumedNow
  BY <1>2, StaysMoves DEF ResumeRecovering
<1>3. CASE MayResume(r) /\ ~resumedNow /\ Matches(r, r.resumed)
  <2>1. r.resumed \in Nat
    BY <1>1, <1>3 DEF Matches
  <2> QED BY <1>3, <2>1, ResumeExactMoves DEF ResumeRecovering
<1>4. CASE MayResume(r) /\ ~resumedNow /\ ~Matches(r, r.resumed) /\ Matches(r, r.ref.rev)
  BY <1>1, <1>4, ResumeExactMoves DEF ResumeRecovering
<1>5. CASE MayResume(r) /\ ~resumedNow /\ ~Matches(r, r.resumed) /\ ~Matches(r, r.ref.rev)
  BY <1>5, DropMoves DEF ResumeRecovering
<1> QED BY <1>2, <1>3, <1>4, <1>5

LEMMA ResumeOperatorMoves ==
    ASSUME IInv, NEW h \in Handlers, Ready(h), NEW r \in Incident, ResumeOperator(h, r)
    PROVE  Moved(h)
<1>1. now \in Nat
  BY TypeParts DEF IInv, Data
<1>2. CASE ~IsCurrent(r)
  BY <1>2, StaysMoves DEF ResumeOperator
<1>3. CASE IsCurrent(r) /\ ~Matches(r, r.ref.rev)
  BY <1>3, DropMoves DEF ResumeOperator
<1>4. CASE IsCurrent(r) /\ Matches(r, r.ref.rev) /\ goal.spent
  BY <1>4, StaysMoves DEF ResumeOperator
<1>5. CASE IsCurrent(r) /\ Matches(r, r.ref.rev) /\ ~goal.spent
  BY <1>1, <1>5, RetriedType, PutMoves DEF ResumeOperator
<1> QED BY <1>2, <1>3, <1>4, <1>5

LEMMA TurnEndMoves ==
    ASSUME IInv, NEW h \in Handlers, Ready(h), NEW n \in 1..Len(log), UNCHANGED log,
           TurnEndHandler(h, n), UNCHANGED <<queue, inFlight, agent>>
    PROVE  Moved(h)
<1>0. agent \in Agents /\ inFlight \in BOOLEAN /\ Data
  BY TypeParts DEF IInv
<1>1. CASE task' = [task EXCEPT ![h] = Idle]
  BY <1>0, <1>1, ReturnMoves
<1>2. CASE /\ CurrentRecord # None
           /\ task' = [task EXCEPT ![h] = At("flush", CurrentRecord, n, FALSE)]
  <2> DEFINE t == At("flush", CurrentRecord, n, FALSE)
  <2>1. CurrentRecord \in Incident
    BY <1>0, <1>2 DEF Data, CurrentRecord
  <2>2. n \in Nat
    BY <1>0 DEF Data
  <2>3. t \in Task
    BY <2>1, <2>2, AtTask
  <2>4. t.pc = "flush" /\ t.rec = CurrentRecord /\ t.arg = n /\ ~t.busy
    BY DEF At
  <2> HIDE DEF t
  <2>5. Shifts(h, t)
    BY <1>2, <2>1, <2>3, <2>4 DEF Shifts, t, PutWaits, RemoveWaits
  <2>6. NoClaim(h, t)
    BY <2>4 DEF NoClaim, Ready, Claiming
  <2> QED BY <1>0, <2>3, <2>4, <2>5, <2>6 DEF Moved, Claims
<1> QED BY <1>1, <1>2 DEF TurnEndHandler, IsPhase

LEMMA ReconcileTurnMoves ==
    ASSUME IInv, NEW h \in Handlers, Ready(h), NEW n, UNCHANGED log, ReconcileTurn(h, n)
    PROVE  Moved(h)
<1>1. CASE n \in 1..Len(log)
  BY <1>1, TurnEndMoves DEF ReconcileTurn
<1>2. CASE n \notin 1..Len(log)
  BY <1>2, StaysMoves DEF ReconcileTurn, Return
<1> QED BY <1>1, <1>2

LEMMA ArmType ==
    ASSUME IInv, NEW r \in Incident
    PROVE  Arm(r) \in Incident \cup {None}
BY TypeParts DEF IInv, Data, Arm

LEMMA AgentReadyMoves ==
    ASSUME IInv, NEW h \in Handlers, Ready(h), UNCHANGED log, AgentReady(h)
    PROVE  Moved(h) /\ timer' \in Incident \cup {None} /\ pending' = pending
<1> DEFINE r == CurrentRecord
           early == IsPhase(r, "scheduled") /\ r.due > now
           skips == ~started \/ ~agent.up \/ r = None \/ early
<1>0. Data
  BY TypeParts DEF IInv
<1>1. r = None \/ r \in Incident
  BY <1>0 DEF Data, CurrentRecord
<1>2. pending' = pending
  BY DEF AgentReady
<1>3. timer' \in Incident \cup {None}
  <2>1. CASE early
    <3>1. r \in Incident
      BY <1>1, <2>1 DEF IsPhase
    <3>2. timer' \in {Arm(r), timer}
      BY DEF AgentReady
    <3> QED BY <1>0, <3>1, <3>2, ArmType DEF Data
  <2>2. CASE ~early
    BY <1>0, <2>2 DEF AgentReady, Data
  <2> QED BY <2>1, <2>2
<1>4. Moved(h)
  <2>1. CASE skips
    BY <2>1, StaysMoves DEF AgentReady
  <2>2. CASE ~skips
    <3>1. r \in Incident
      BY <1>1, <2>2
    <3>2. r.phase \in {"awaiting", "scheduled", "operator", "recovering"}
      BY <3>1 DEF Incident
    <3>3. CASE r.phase = "awaiting"
      BY <2>2, <3>3, ReconcileTurnMoves DEF AgentReady
    <3>4. CASE r.phase = "scheduled"
      BY <2>2, <3>1, <3>4, ResumeScheduledMoves DEF AgentReady
    <3>5. CASE r.phase = "operator"
      BY <2>2, <3>5, StaysMoves DEF AgentReady
    <3>6. CASE r.phase = "recovering"
      BY <2>2, <3>1, <3>6, ReconcileTurnMoves, ResumeRecoveringMoves DEF AgentReady
    <3> QED BY <3>2, <3>3, <3>4, <3>5, <3>6
  <2> QED BY <2>1, <2>2
<1> QED BY <1>2, <1>3, <1>4

LEMMA TerminalType ==
    ASSUME NEW r \in Incident, now \in Nat,
           NEW phase \in {"scheduled", "operator"}, NEW used \in BOOLEAN
    PROVE  [r EXCEPT !.phase = phase, !.used = used,
                     !.due = IF phase = "scheduled" THEN now + 1 ELSE None]
              \in Incident
<1> DEFINE s == [r EXCEPT !.phase = phase]
           u == [s EXCEPT !.used = used]
           due == IF phase = "scheduled" THEN now + 1 ELSE None
<1>1. s \in Incident
  BY DEF Incident
<1>2. [r EXCEPT !.phase = phase, !.used = used, !.due = due] = [u EXCEPT !.due = due]
  OBVIOUS
<1>3. due \in Nat \cup {None}
  OBVIOUS
<1> HIDE DEF s, due
<1>4. u \in Incident
  BY <1>1 DEF Incident
<1> HIDE DEF u
<1>5. [u EXCEPT !.due = due] \in Incident
  BY <1>3, <1>4 DEF Incident
<1> QED BY <1>2, <1>5 DEF due

LEMMA ResumedType ==
    ASSUME NEW r \in Incident, NEW revision \in Nat, NEW used \in BOOLEAN
    PROVE  LET s == [r EXCEPT !.phase = "recovering", !.due = None,
                              !.resumed = revision, !.used = used]
           IN  s \in Incident /\ FitsSchema(s)
<1> DEFINE s == [r EXCEPT !.phase = "recovering"]
           u == [s EXCEPT !.due = None]
           v == [u EXCEPT !.resumed = revision]
           w == [v EXCEPT !.used = used]
<1>1. s \in Incident /\ s.phase = "recovering"
  BY DEF Incident
<1>2. [r EXCEPT !.phase = "recovering", !.due = None,
               !.resumed = revision, !.used = used] = w
  OBVIOUS
<1> HIDE DEF s
<1>3. u \in Incident /\ u.phase = "recovering" /\ u.due = None
  BY <1>1 DEF Incident
<1> HIDE DEF u
<1>4. v \in Incident /\ v.phase = "recovering" /\ v.due = None /\ v.resumed = revision
  BY <1>3 DEF Incident
<1> HIDE DEF v
<1>5. w \in Incident /\ w.phase = "recovering" /\ w.due = None /\ w.resumed = revision
  BY <1>4 DEF Incident
<1> HIDE DEF w
<1>6. FitsSchema(w)
  BY <1>5, ApiAssumption DEF FitsSchema
<1> QED BY <1>2, <1>5, <1>6

-----------------------------------------------------------------------------
(* The actions of handlers.                                                *)

LEMMA TaskIncident ==
    ASSUME IInv, NEW h \in Handlers, task[h].pc # "free"
    PROVE  task[h].rec \in Incident /\ task[h] \in Task
BY TypeParts DEF IInv, Tasks

LEMMA GiveUpMoves ==
    ASSUME IInv, NEW h \in Handlers, Ready(h), GiveUp(h), UNCHANGED agent
    PROVE  Moved(h) /\ pending' = pending /\ timer' = timer
<1>1. agent \in Agents
  BY TypeParts DEF IInv
<1> QED BY <1>1, ReturnMoves DEF GiveUp

LEMMA CheckpointType ==
    ASSUME IInv
    PROVE  Checkpoint \in Saves
BY TypeParts DEF IInv, Data, Checkpoint, Saves

LEMMA TerminalSavedStep ==
    ASSUME IInv, NEW h \in Handlers, TerminalSaved(h)
    PROVE  IInv'
<1> DEFINE r == task[h].rec
           phase == Disposition(r, r.code)
<1>0. Data /\ count \in Counts
  BY TypeParts DEF IInv, Data
<1>1. task[h].pc = "flush" /\ Ready(h) /\ r \in Incident
  BY ReadyWhen, TaskIncident DEF TerminalSaved
<1>2. saved' \in Saves
  BY CheckpointType DEF TerminalSaved
<1>3. /\ UNCHANGED <<now, agent, edges, log, goal, install, store, started, count>>
  BY DEF TerminalSaved, history
<1>4. Moved(h) /\ pending' \in {pending, None} /\ timer' \in {timer, None}
  <2>1. CASE ~StillWaits(r)
    BY <1>1, <1>3, <2>1, GiveUpMoves DEF TerminalSaved
  <2>2. CASE StillWaits(r) /\ log[task[h].arg] # r.code
    BY <1>1, <1>3, <2>2, RemoveCurrentMoves DEF TerminalSaved
  <2>3. CASE StillWaits(r) /\ log[task[h].arg] = r.code
    <3> DEFINE used == r.used /\ phase = "operator"
               s == [r EXCEPT !.phase = phase, !.used = used,
                         !.due = IF phase = "scheduled" THEN now + 1 ELSE None]
    <3>1. phase \in {"scheduled", "operator"}
      BY DEF Disposition
    <3>2. used \in BOOLEAN
      OBVIOUS
    <3>3. now \in Nat
      BY <1>0 DEF Data
    <3>4. Put(h, "publish", s) /\ UNCHANGED <<pending, timer, inFlight>>
      BY <2>3 DEF TerminalSaved
    <3> HIDE DEF phase, used
    <3>5. s \in Incident
      BY <1>1, <3>1, <3>2, <3>3, TerminalType
    <3> HIDE DEF s
    <3> QED BY <1>1, <1>3, <3>4, <3>5, PutMoves
  <2> QED BY <2>1, <2>2, <2>3
<1>5. Data'
  BY <1>0, <1>2, <1>3, <1>4 DEF Data
<1> QED BY <1>0, <1>1, <1>3, <1>4, <1>5, HandlerStep DEF Ready, Counts

LEMMA SettlementSavedStep ==
    ASSUME IInv, NEW h \in Handlers, SettlementSaved(h)
    PROVE  IInv'
<1> DEFINE r == task[h].rec
           code == log[task[h].arg]
           repeated == code \in Unknown /\ r.used /\ r.code = code
           phase == IF repeated THEN "operator"
                    ELSE IF code \in Operator THEN "operator" ELSE "scheduled"
           ends == code = None \/ ~Resolved \/ install.asg # r.ref.asg
           s == [phase |-> phase, turn |-> task[h].arg, code |-> code,
                 ref |-> Reference, used |-> repeated, at |-> count.recordings + 1,
                 due |-> IF phase = "scheduled" THEN now + 1 ELSE None,
                 resumed |-> None]
<1>0. Data /\ count \in Counts
  BY TypeParts DEF IInv, Data
<1>1. task[h].pc = "flush" /\ Ready(h) /\ r \in Incident
  BY ReadyWhen, TaskIncident DEF SettlementSaved
<1>2. saved' \in Saves
  BY CheckpointType DEF SettlementSaved
<1>3. UNCHANGED <<now, agent, edges, log, goal, install, store, started>>
  BY DEF SettlementSaved
<1>4. /\ Moved(h) /\ pending' \in {pending, None} /\ timer' \in {timer, None}
      /\ count' \in Counts /\ count'.faults >= count.faults
  <2>0. count.faults >= count.faults
    BY <1>0 DEF Counts
  <2>1. CASE ~started \/ store # r
    <3>1. GiveUp(h) /\ UNCHANGED count
      BY <2>1 DEF SettlementSaved
    <3> QED BY <1>0, <1>1, <1>3, <2>0, <3>1, GiveUpMoves
  <2>2. CASE ~(~started \/ store # r) /\ ends
    <3>1. RemoveCurrent(h, r) /\ UNCHANGED count
      BY <2>2 DEF SettlementSaved
    <3> QED BY <1>0, <1>1, <1>3, <2>0, <3>1, RemoveCurrentMoves
  <2>3. CASE ~(~started \/ store # r) /\ ~ends
    <3>1. /\ Put(h, "publish", s) /\ count' = Spend("recordings")
          /\ UNCHANGED <<pending, timer, inFlight>>
      BY <2>3 DEF SettlementSaved
    <3>2. task[h].arg \in 1..Len(log) /\ Len(log) <= MaxTurns /\ Len(log) \in Nat
      BY <1>0, <1>1, TypeParts DEF IInv, Tasks, Data
    <3>3. task[h].arg \in 1..MaxTurns
      BY <3>2, ApiAssumption
    <3>4. code \in Codes
      BY <1>0, <2>3, <3>2 DEF Data
    <3>5. Reference \in [asg : Nat, rev : Nat]
      BY <1>0 DEF Data, Reference
    <3>6. phase \in {"scheduled", "operator"} /\ repeated \in BOOLEAN
      OBVIOUS
    <3>7. now + 1 \in Nat /\ count.recordings + 1 \in Nat
      BY <1>0 DEF Data, Counts
    <3> HIDE DEF phase, repeated, code, ends
    <3>8. s \in Incident
      BY <3>3, <3>4, <3>5, <3>6, <3>7 DEF Incident
    <3> HIDE DEF s
    <3>9. Moved(h)
      BY <1>1, <1>3, <3>1, <3>8, PutMoves
    <3>10. count' \in Counts /\ count'.faults = count.faults
      BY <1>0, <3>1 DEF Spend, Counts
    <3> QED BY <2>0, <3>1, <3>9, <3>10
  <2> QED BY <2>1, <2>2, <2>3
<1>5. Data'
  BY <1>0, <1>2, <1>3, <1>4 DEF Data
<1> QED BY <1>1, <1>3, <1>4, <1>5, HandlerStep DEF Ready

LEMMA SpendType ==
    ASSUME count \in Counts,
           NEW kind \in {"recordings", "faults", "restarts", "edits", "updates"}
    PROVE  /\ Spend(kind) \in Counts
           /\ Spend(kind).faults >= count.faults
           /\ kind = "faults" => Spend(kind).faults > 0
BY DEF Spend, Counts

LEMMA CountType == IInv => count \in Counts /\ count.faults >= count.faults
BY TypeParts DEF IInv, Data, Counts

LEMMA CheckpointFailsStep ==
    ASSUME IInv, NEW h \in Handlers, CheckpointFails(h)
    PROVE  IInv'
<1>1. task[h].pc = "flush" /\ Ready(h)
  BY ReadyWhen DEF CheckpointFails
<1>2. Moved(h) /\ pending' = pending /\ timer' = timer
  BY <1>1, GiveUpMoves DEF CheckpointFails
<1>3. count' \in Counts /\ count'.faults >= count.faults
  BY CountType, SpendType DEF CheckpointFails, Fault
<1>4. Data'
  BY <1>2, <1>3, TypeParts DEF IInv, Data, CheckpointFails, session
<1> QED BY <1>1, <1>2, <1>3, <1>4, HandlerStep DEF Ready, CheckpointFails, session

LEMMA PublishedStep ==
    ASSUME IInv, NEW h \in Handlers, Published(h)
    PROVE  IInv'
<1> DEFINE r == task[h].rec
<1>0. Data /\ count \in Counts
  BY TypeParts DEF IInv, Data
<1>1. task[h].pc = "publish" /\ Ready(h) /\ r \in Incident
  BY ReadyWhen, TaskIncident DEF Published
<1>2. Moved(h)
  BY <1>1, TypeParts, ReturnMoves DEF IInv, Published
<1>3. count' \in Counts /\ count'.faults >= count.faults
  BY CountType, SpendType DEF Published, Fault
<1>4. timer' \in {timer, Arm(r)} /\ pending' \in {pending, None}
  BY DEF Published
<1>5. timer' \in Incident \cup {None}
  BY <1>0, <1>1, <1>4, ArmType DEF Data
<1>6. Data'
  BY <1>0, <1>3, <1>4, <1>5 DEF Data, Published, session
<1> QED BY <1>1, <1>2, <1>3, <1>4, <1>6, HandlerStep DEF Ready, Published, session

LEMMA WriteFailedStep ==
    ASSUME IInv, NEW h \in Handlers, WriteFailed(h)
    PROVE  IInv'
<1>1. Ready(h)
  BY ReadyWhen DEF WriteFailed
<1>2. Moved(h) /\ pending' = pending /\ timer' = timer
  BY <1>1, GiveUpMoves DEF WriteFailed
<1>3. Data'
  BY <1>2, TypeParts DEF IInv, Data, WriteFailed, session
<1> QED BY <1>1, <1>2, <1>3, CountType, HandlerStep DEF Ready, WriteFailed, session

LEMMA RemovedStep ==
    ASSUME IInv, NEW h \in Handlers, Removed(h)
    PROVE  IInv'
<1>0. Data /\ agent \in Agents /\ inFlight \in BOOLEAN /\ task[h] \in Task
  BY TypeParts, TaskIncident DEF IInv, Removed
<1>1. Unqueued(h) /\ task[h].pc # "request" /\ task[h].pc \notin Claiming
  BY UnqueuedWhen DEF IInv, Removed, Claiming
<1>2. Idle \in Task /\ Idle.pc = "free" /\ ~Idle.busy /\ Idle.result = "none"
  BY IdleTask
<1>3. Shifts(h, Idle)
  BY <1>2 DEF Shifts, Removed, PutWaits, RemoveWaits
<1>4. NoClaim(h, Idle) \/ EndsClaim(h, Idle)
  <2>1. CASE ~task[h].busy
    BY <1>0, <1>1, <1>2, <2>1 DEF NoClaim, Removed, Claiming
  <2>2. CASE task[h].busy
    <3>1. task[h].pc = "remove"
      BY <1>1, <2>2 DEF IInv, ClaimShape
    <3>2. inFlight' = FALSE /\ agent' = agent
      BY <2>2 DEF Removed
    <3> QED BY <1>2, <2>2, <3>1, <3>2 DEF EndsClaim, Claiming
  <2> QED BY <2>1, <2>2
<1>5. inFlight' \in BOOLEAN /\ agent' = agent
  BY DEF Removed
<1>6. Moved(h)
  BY <1>0, <1>2, <1>3, <1>4, <1>5 DEF Moved, Claims
<1>7. timer' \in {timer, None}
  BY DEF Removed
<1>8. Data'
  BY <1>0, <1>7 DEF Data, Removed, session
<1> QED BY <1>1, <1>6, <1>8, CountType, HandlerStep DEF Removed, session

LEMMA TimerFiresStep ==
    ASSUME IInv, NEW h \in Handlers, TimerFires(h)
    PROVE  IInv'
<1>0. Data
  BY TypeParts DEF IInv
<1>1. Ready(h) /\ timer \in Incident
  BY <1>0, ReadyWhen DEF TimerFires, Free, Data
<1>2. Moved(h)
  BY <1>1, ResumeScheduledMoves DEF TimerFires
<1>3. Data'
  BY <1>0 DEF Data, TimerFires, session
<1> QED BY <1>1, <1>2, <1>3, CountType, HandlerStep DEF Ready, TimerFires, session

LEMMA RescheduledStep ==
    ASSUME IInv, NEW h \in Handlers, Rescheduled(h)
    PROVE  IInv'
<1>0. Data
  BY TypeParts DEF IInv
<1>1. Ready(h) /\ task[h].rec \in Incident
  BY ReadyWhen, TaskIncident DEF Rescheduled
<1>2. Moved(h)
  BY <1>1, ResumeScheduledMoves DEF Rescheduled
<1>3. Data'
  BY <1>0 DEF Data, Rescheduled, session
<1> QED BY <1>1, <1>2, <1>3, CountType, HandlerStep DEF Ready, Rescheduled, session

LEMMA OperatorWhenIdleStep ==
    ASSUME IInv, NEW h \in Handlers, OperatorWhenIdle(h)
    PROVE  IInv'
<1>0. Data
  BY TypeParts DEF IInv
<1>1. Ready(h) /\ task[h].rec \in Incident
  BY ReadyWhen, TaskIncident DEF OperatorWhenIdle
<1>2. Moved(h)
  BY <1>1, ResumeOperatorMoves DEF OperatorWhenIdle
<1>3. Data'
  BY <1>0 DEF Data, OperatorWhenIdle, session
<1> QED BY <1>1, <1>2, <1>3, CountType, HandlerStep DEF Ready, OperatorWhenIdle, session

LEMMA IdleEdgeStep ==
    ASSUME IInv, NEW h \in Handlers, IdleEdge(h)
    PROVE  IInv'
<1>0. Data
  BY TypeParts DEF IInv
<1>1. Ready(h)
  BY ReadyWhen DEF IdleEdge, Free
<1>2. Moved(h) /\ timer' \in Incident \cup {None} /\ pending' = pending
  BY <1>1, AgentReadyMoves DEF IdleEdge, session
<1>3. Data'
  BY <1>0, <1>2 DEF Data, IdleEdge, session
<1> QED BY <1>1, <1>2, <1>3, CountType, HandlerStep DEF Ready, IdleEdge, session

LEMMA ReconcileStep ==
    ASSUME IInv, NEW h \in Handlers, Reconcile(h)
    PROVE  IInv'
<1>0. Data
  BY TypeParts DEF IInv
<1>1. Ready(h) /\ UNCHANGED <<log, saved, now, goal, install, store, started, count>>
  BY ReadyWhen DEF Reconcile, Free, session
<1>2. Moved(h) /\ timer' \in Incident \cup {None} /\ pending' = pending
  <2>1. CASE pending = None /\ IsPhase(store, "scheduled")
    <3>1. store \in Incident
      BY <1>0, <2>1 DEF Data, IsPhase
    <3>2. timer' = Arm(store) /\ Return(h) /\ pending' = pending
      BY <2>1 DEF Reconcile
    <3> QED BY <1>1, <3>1, <3>2, ArmType, StaysMoves
  <2>2. CASE ~(pending = None /\ IsPhase(store, "scheduled"))
    BY <1>1, <2>2, AgentReadyMoves DEF Reconcile
  <2> QED BY <2>1, <2>2
<1>3. edges' \subseteq edges
  BY DEF Reconcile
<1>4. Data'
  BY <1>0, <1>1, <1>2, <1>3 DEF Data
<1> QED BY <1>1, <1>2, <1>4, CountType, HandlerStep DEF Ready

LEMMA AdaptersUpdatedStep ==
    ASSUME IInv, NEW h \in Handlers, AdaptersUpdated(h)
    PROVE  IInv'
<1>0. Data
  BY TypeParts DEF IInv
<1>1. Ready(h) /\ UNCHANGED log
  BY ReadyWhen DEF AdaptersUpdated, Free, session
<1>2. Moved(h)
  BY <1>1, ReconcileTurnMoves, StaysMoves DEF AdaptersUpdated
<1>3. count' \in Counts /\ count'.faults >= count.faults
  BY CountType, SpendType DEF AdaptersUpdated
<1>4. Data'
  BY <1>0, <1>3 DEF Data, AdaptersUpdated, session
<1> QED BY <1>1, <1>2, <1>3, <1>4, HandlerStep DEF Ready, AdaptersUpdated

LEMMA AdapterPassStep ==
    ASSUME IInv, NEW h \in Handlers, AdapterPass(h)
    PROVE  IInv'
<1>0. Data /\ agent \in Agents /\ inFlight \in BOOLEAN
  BY TypeParts DEF IInv
<1>1. Ready(h) /\ UNCHANGED <<log, saved, now, goal, install, store, started, count>>
  BY ReadyWhen DEF AdapterPass, Free, session
<1> DEFINE none == pending # None \/ store = None \/ ~agent.up
<1>2. Moved(h) /\ timer' \in Incident \cup {None} /\ pending' = pending
  <2>1. CASE none
    BY <1>0, <1>1, <2>1, StaysMoves DEF AdapterPass, Data
  <2>2. CASE ~none /\ agent.status # "idle" /\ store.phase = "operator"
    <3> DEFINE t == At("whenIdle", store, 0, FALSE)
    <3>1. /\ task' = [task EXCEPT ![h] = t]
          /\ UNCHANGED <<agent, queue, pending, timer, inFlight>>
      BY <2>2 DEF AdapterPass
    <3>2. t \in Task /\ store \in Incident
      BY <1>0, <2>2, AtTask DEF Data
    <3>3. t.pc = "whenIdle" /\ t.rec = store /\ ~t.busy
      BY DEF At
    <3> HIDE DEF t
    <3>4. Shifts(h, t)
      BY <3>1, <3>2, <3>3 DEF Shifts, PutWaits, RemoveWaits
    <3>5. NoClaim(h, t)
      BY <1>1, <3>1, <3>3 DEF NoClaim, Ready, Claiming
    <3> QED BY <1>0, <3>1, <3>2, <3>3, <3>4, <3>5 DEF Moved, Claims, Data
  <2>3. CASE ~none /\ agent.status # "idle" /\ store.phase # "operator"
    <3>1. /\ agent' = [agent EXCEPT !.awaited = TRUE] /\ task' = task
          /\ UNCHANGED <<queue, pending, timer, inFlight>>
      BY <2>3 DEF AdapterPass
    <3>2. /\ agent' \in Agents /\ agent'.status = agent.status
          /\ agent'.claim = agent.claim
      BY <1>0, <3>1 DEF Agents
    <3>3. task \in [Handlers -> Task] /\ Free(h)
      BY TypeParts DEF IInv, Tasks, AdapterPass
    <3>4. task' = [task EXCEPT ![h] = task[h]] /\ task[h] \in Task
      BY <3>1, <3>3
    <3>5. Shifts(h, task[h])
      BY <3>1, <3>3, <3>4 DEF Shifts, Free, PutWaits, RemoveWaits
    <3>6. NoClaim(h, task[h])
      BY <1>1, <3>1, <3>2, <3>3 DEF NoClaim, Ready, Free, Claiming
    <3> QED BY <1>0, <1>1, <3>1, <3>2, <3>4, <3>5, <3>6 DEF Moved, Claims, Ready, Data
  <2>4. CASE ~none /\ agent.status = "idle" /\ store.phase = "operator"
    <3>1. store \in Incident
      BY <1>0, <2>4 DEF Data
    <3>2. ResumeOperator(h, store) /\ UNCHANGED <<pending, timer>>
      BY <2>4 DEF AdapterPass
    <3> QED BY <1>0, <1>1, <3>1, <3>2, ResumeOperatorMoves DEF Data
  <2>5. CASE ~none /\ agent.status = "idle" /\ store.phase # "operator"
    BY <1>1, <2>5, AgentReadyMoves DEF AdapterPass
  <2> QED BY <2>1, <2>2, <2>3, <2>4, <2>5
<1>3. edges' \subseteq edges
  BY DEF AdapterPass
<1>4. Data'
  BY <1>0, <1>1, <1>2, <1>3 DEF Data
<1> QED BY <1>1, <1>2, <1>4, CountType, HandlerStep DEF Ready

LEMMA EnterMaintenanceStep ==
    ASSUME IInv, NEW h \in Handlers, EnterMaintenance(h)
    PROVE  IInv'
<1> DEFINE r == task[h].rec
           revision == IF task[h].pc = "adopt" THEN goal.rev ELSE goal.rev + 1
           used == r.used \/ r.code \in Unknown
<1>0. Data /\ agent \in Agents /\ inFlight \in BOOLEAN
  BY TypeParts DEF IInv
<1>1. /\ task[h].pc \in {"enter", "adopt"} /\ r \in Incident /\ task[h] \in Task
      /\ task[h].busy /\ task[h].busy = TRUE
  <2>1. task[h] \in Task /\ r \in Incident /\ task[h].pc \in {"enter", "adopt"}
    BY TaskIncident DEF EnterMaintenance
  <2>2. task[h].busy
    BY <2>1 DEF IInv, ClaimShape, Claiming
  <2> QED BY <2>1, <2>2 DEF Task
<1>2. Unqueued(h)
  BY <1>1, UnqueuedWhen DEF IInv, PutWaits, RemoveWaits
<1>3. UNCHANGED <<now, log, saved, install, store, pending, timer, started, count>>
  BY DEF EnterMaintenance, session
<1>4. revision \in Nat
  BY <1>0 DEF Data
<1>5. goal' \in [asg : Nat, rev : Nat, armed : BOOLEAN, spent : BOOLEAN]
  <2>1. goal' \in {goal, [goal EXCEPT !.rev = revision, !.armed = TRUE]}
    BY DEF EnterMaintenance
  <2> DEFINE g == [goal EXCEPT !.rev = revision]
  <2>2. [goal EXCEPT !.rev = revision, !.armed = TRUE] = [g EXCEPT !.armed = TRUE]
    OBVIOUS
  <2> HIDE DEF revision
  <2>3. g \in [asg : Nat, rev : Nat, armed : BOOLEAN, spent : BOOLEAN]
    BY <1>0, <1>4 DEF Data
  <2> HIDE DEF g
  <2> QED BY <1>0, <2>1, <2>2, <2>3 DEF Data
<1>6. edges' \subseteq edges \cup {"goal"}
  BY DEF EnterMaintenance
<1>7. Moved(h)
  <2>1. CASE ~started
    <3>1. /\ agent' = [agent EXCEPT !.claim = None] /\ inFlight' = FALSE
          /\ task' = [task EXCEPT ![h] = Idle] /\ queue' = queue
      BY <2>1 DEF EnterMaintenance
    <3>2. Idle \in Task /\ Idle.pc = "free" /\ ~Idle.busy
      BY IdleTask
    <3>3. Shifts(h, Idle)
      BY <3>1, <3>2 DEF Shifts, PutWaits, RemoveWaits
    <3>4. agent' \in Agents /\ agent'.claim = None /\ agent'.status = agent.status
      BY <1>0, <3>1 DEF Agents
    <3>5. EndsClaim(h, Idle)
      BY <1>1, <3>1, <3>2, <3>4 DEF EndsClaim, Claiming
    <3> QED BY <3>1, <3>2, <3>3, <3>4, <3>5 DEF Moved, Claims
  <2>2. CASE started /\ ~StillExact(h, r)
    <3> DEFINE t == At("remove", r, 0, TRUE)
    <3>1. /\ agent' = [agent EXCEPT !.claim = None] /\ inFlight' = inFlight
          /\ task' = [task EXCEPT ![h] = t] /\ Enqueue("remove", h, r)
      BY <2>2 DEF EnterMaintenance, RemoveStored
    <3>2. t \in Task
      BY <1>1, AtTask
    <3>3. t.pc = "remove" /\ t.rec = r /\ t.result = "none" /\ t.busy
      BY DEF At
    <3> HIDE DEF t
    <3>4. Shifts(h, t)
      BY <1>1, <3>1, <3>2, <3>3 DEF Shifts, Enqueue, Waits, RemoveWaits
    <3>5. agent' \in Agents /\ agent'.claim = None /\ agent'.status = agent.status
      BY <1>0, <3>1 DEF Agents
    <3>6. KeepsClaim(h, t)
      BY <1>1, <3>1, <3>3, <3>5 DEF KeepsClaim, Claiming
    <3> QED BY <1>0, <3>1, <3>2, <3>3, <3>4, <3>5, <3>6 DEF Moved, Claims
  <2>3. CASE started /\ StillExact(h, r)
    <3> DEFINE s == [r EXCEPT !.phase = "recovering", !.due = None,
                              !.resumed = revision, !.used = used]
               t == At("resumed", s, 0, task[h].busy)
    <3>1. Put(h, "resumed", s) /\ UNCHANGED <<agent, inFlight>>
      BY <2>3 DEF EnterMaintenance
    <3>2. used \in BOOLEAN
      OBVIOUS
    <3> HIDE DEF revision, used
    <3>3. s \in Incident /\ FitsSchema(s)
      BY <1>1, <1>4, <3>2, ResumedType
    <3> HIDE DEF s
    <3>4. task' = [task EXCEPT ![h] = t] /\ Enqueue("put", h, s)
      BY <3>1, <3>3 DEF Put
    <3>5. t \in Task
      BY <1>1, <3>3, AtTask
    <3>6. t.pc = "resumed" /\ t.rec = s /\ t.result = "none" /\ t.busy
      BY <1>1 DEF At
    <3> HIDE DEF t
    <3>7. Shifts(h, t)
      BY <3>3, <3>4, <3>5, <3>6 DEF Shifts, Enqueue, Waits, PutWaits
    <3>8. KeepsClaim(h, t)
      BY <1>1, <3>1, <3>6 DEF KeepsClaim, Claiming
    <3> QED BY <1>0, <3>1, <3>5, <3>6, <3>7, <3>8 DEF Moved, Claims
  <2> QED BY <2>1, <2>2, <2>3 DEF EnterMaintenance
<1>8. Data'
  BY <1>0, <1>3, <1>5, <1>6 DEF Data
<1> QED BY <1>1, <1>2, <1>3, <1>7, <1>8, CountType, HandlerStep

LEMMA LeaveMaintenanceStep ==
    ASSUME IInv, NEW h \in Handlers, LeaveMaintenance(h)
    PROVE  IInv'
<1>0. Data /\ agent \in Agents
  BY TypeParts DEF IInv
<1>1. task[h].pc = "resumed" /\ task[h].busy /\ Unqueued(h)
  BY UnqueuedWhen DEF IInv, ClaimShape, Claiming, LeaveMaintenance
<1>2. /\ agent' = [agent EXCEPT !.claim = None] /\ inFlight' = FALSE
      /\ task' = [task EXCEPT ![h] = Idle] /\ queue' = queue
  BY DEF LeaveMaintenance
<1>3. Moved(h)
  <2>1. Idle \in Task /\ Idle.pc = "free" /\ ~Idle.busy
    BY IdleTask
  <2>2. Shifts(h, Idle)
    BY <1>2, <2>1 DEF Shifts, PutWaits, RemoveWaits
  <2>3. agent' \in Agents /\ agent'.claim = None /\ agent'.status = agent.status
    BY <1>0, <1>2 DEF Agents
  <2>4. EndsClaim(h, Idle)
    BY <1>1, <1>2, <2>1, <2>3 DEF EndsClaim, Claiming
  <2> QED BY <1>2, <2>1, <2>2, <2>3, <2>4 DEF Moved, Claims
<1>4. count' \in Counts /\ count'.faults >= count.faults
  BY CountType, SpendType DEF LeaveMaintenance, Fault
<1>5. saved' \in Saves
  BY <1>0, CheckpointType DEF LeaveMaintenance, Data
<1>6. Data'
  BY <1>0, <1>4, <1>5 DEF Data, LeaveMaintenance
<1> QED BY <1>1, <1>3, <1>4, <1>6, HandlerStep DEF LeaveMaintenance

-----------------------------------------------------------------------------
(* The end of a turn, the request error and its record.                    *)

LEMMA EndTurnStep ==
    ASSUME IInv, NEW h \in Handlers, EndTurn(h)
    PROVE  IInv'
<1> USE ApiAssumption
<1>0. /\ Data /\ agent \in Agents /\ inFlight \in BOOLEAN /\ Tasks /\ count \in Counts
      /\ TurnFits /\ QueueShape /\ ClaimShape /\ PendingShape /\ OneInFlight
  BY TypeParts DEF IInv, Data
<1>1. Ready(h)
  BY ReadyWhen DEF EndTurn, Free
<1>2. /\ UNCHANGED <<now, saved, install, store, queue, pending, timer, started,
                     inFlight, count>>
      /\ edges' = edges \cup {"idle"}
  BY DEF EndTurn
<1>3. /\ agent' \in Agents /\ agent'.status = "idle" /\ agent'.claim = agent.claim
  <2> DEFINE g == [agent EXCEPT !.status = "idle"]
  <2>1. agent' = [g EXCEPT !.fault = None]
    BY DEF EndTurn
  <2>2. g \in Agents /\ g.status = "idle" /\ g.claim = agent.claim
    BY <1>0 DEF Agents
  <2> HIDE DEF g
  <2> QED BY <2>1, <2>2 DEF Agents
<1>4. /\ log' \in Seq(Codes \cup {None}) /\ Len(log') = Len(log) + 1
      /\ Len(log') <= MaxTurns /\ Len(log) \in Nat
  <2>1. log \in Seq(Codes \cup {None}) /\ agent.fault \in Codes \cup {None}
    BY <1>0 DEF Data, Agents
  <2>2. Len(log) < MaxTurns
    BY <1>0 DEF TurnFits, EndTurn
  <2> QED BY <2>1, <2>2 DEF EndTurn
<1>5. goal' \in [asg : Nat, rev : Nat, armed : BOOLEAN, spent : BOOLEAN]
  <2>1. goal' = [goal EXCEPT !.armed = goal.armed /\ agent.fault = None]
    BY DEF EndTurn
  <2>2. (goal.armed /\ agent.fault = None) \in BOOLEAN
    OBVIOUS
  <2> QED BY <1>0, <2>1, <2>2 DEF Data
<1>6. Data'
  BY <1>0, <1>2, <1>4, <1>5 DEF Data
<1>7. PICK t \in Task : /\ task' = [task EXCEPT ![h] = t] /\ ~t.busy
                        /\ t.pc \in {"free", "flush"}
                        /\ t.pc = "flush" => t.rec \in Incident /\ t.arg = Len(log) + 1
  <2>1. CASE task' = [task EXCEPT ![h] = Idle]
    BY <2>1, IdleTask
  <2>2. CASE /\ CurrentRecord # None
             /\ task' = [task EXCEPT ![h] = At("flush", CurrentRecord, Len(log) + 1, FALSE)]
    <3> DEFINE t == At("flush", CurrentRecord, Len(log) + 1, FALSE)
    <3>1. CurrentRecord \in Incident
      BY <1>0, <2>2 DEF Data, CurrentRecord
    <3>2. Len(log) + 1 \in Nat
      BY <1>4
    <3>3. t \in Task
      BY <3>1, <3>2, AtTask
    <3>4. t.pc = "flush" /\ t.rec = CurrentRecord /\ t.arg = Len(log) + 1 /\ ~t.busy
      BY DEF At
    <3> HIDE DEF t
    <3> QED BY <2>2, <3>1, <3>3, <3>4 DEF t
  <2> QED BY <2>1, <2>2 DEF EndTurn, TurnEndHandler, IsPhase
<1>8. Shifts(h, t)
  BY <1>2, <1>4, <1>7 DEF Shifts, PutWaits, RemoveWaits
<1>9. Tasks' /\ QueueShape'
  BY <1>0, <1>1, <1>4, <1>8, ShiftsTasks DEF Ready
<1>10. ClaimShape' /\ OneInFlight'
  <2>1. NoClaim(h, t)
    BY <1>1, <1>2, <1>3, <1>7 DEF NoClaim, Ready, Claiming
  <2> QED BY <1>0, <1>3, <1>7, <2>1, ClaimsKept DEF Claims
<1>11. PendingShape'
  <2>1. \A i \in Handlers : task[i].pc # "request"
    BY DEF EndTurn
  <2>2. \A i \in Handlers : task'[i].pc # "request"
    BY <1>0, <1>7, <2>1 DEF Tasks
  <2>3. count.faults = 0 => pending = None
    BY <1>0, <2>1 DEF PendingShape
  <2> QED BY <1>2, <2>2, <2>3 DEF PendingShape
<1>12. TurnFits'
  BY <1>3 DEF TurnFits
<1>13. TypeOK'
  BY <1>0, <1>2, <1>3, <1>6, <1>9, TypePartsNext
<1> QED BY <1>9, <1>10, <1>11, <1>12, <1>13 DEF IInv

LEMMA RequestErrorStep ==
    ASSUME IInv, NEW h \in Handlers, NEW code \in Codes, RequestError(h, code)
    PROVE  IInv'
<1> USE ApiAssumption
<1>0. /\ Data /\ agent \in Agents /\ inFlight \in BOOLEAN /\ Tasks /\ count \in Counts
      /\ TurnFits /\ QueueShape /\ ClaimShape /\ PendingShape /\ OneInFlight
  BY TypeParts DEF IInv, Data
<1>1. Ready(h) /\ agent.status = "running" /\ agent.claim = None
  BY ReadyWhen DEF IInv, ClaimShape, RequestError, Free
<1>2. UNCHANGED <<now, edges, log, saved, goal, install, store, started, inFlight>>
  BY DEF RequestError, session
<1>3. agent' \in Agents /\ agent'.status = "failing" /\ agent'.claim = None
  <2> DEFINE g == [agent EXCEPT !.status = "failing"]
  <2>1. agent' = [g EXCEPT !.fault = code]
    BY DEF RequestError
  <2>2. g \in Agents /\ g.status = "failing" /\ g.claim = None
    BY <1>0, <1>1 DEF Agents
  <2> HIDE DEF g
  <2> QED BY <2>1, <2>2 DEF Agents
<1>4. \A i \in Handlers : task[i].pc # "request"
  BY <1>0, <1>1 DEF PendingShape
<1>5. TurnFits' /\ Len(log) \in Nat
  BY <1>0, <1>1, <1>2 DEF TurnFits, Data
<1>6. CASE started /\ Resolved
  <2> DEFINE r == Awaiting(Len(log) + 1, code, CarriesFallback(CurrentRecord, code),
                           count.recordings + 1)
             t == At("request", r, 0, FALSE)
  <2>1. r \in Incident /\ FitsSchema(r)
    <3>1. Len(log) + 1 \in 1..MaxTurns
      BY <1>0, <1>1, <1>5 DEF TurnFits
    <3>2. CarriesFallback(CurrentRecord, code) \in BOOLEAN
      BY DEF CarriesFallback, IsPhase
    <3>3. Reference \in [asg : Nat, rev : Nat] /\ count.recordings + 1 \in Nat
      BY <1>0 DEF Data, Reference, Counts
    <3> QED BY <3>1, <3>2, <3>3 DEF Awaiting, Incident, FitsSchema
  <2>2. task[h].busy = FALSE
    BY <1>0, <1>1 DEF Ready, Tasks, Task
  <2>3. /\ count' = Spend("recordings") /\ pending' = r /\ timer' = None
        /\ Put(h, "request", r)
    BY <1>6 DEF RequestError
  <2> HIDE DEF r
  <2>4. task' = [task EXCEPT ![h] = t] /\ Enqueue("put", h, r)
    BY <2>1, <2>2, <2>3 DEF Put
  <2>5. t \in Task
    BY <2>1, AtTask
  <2>6. t.pc = "request" /\ t.rec = r /\ t.result = "none" /\ ~t.busy
    BY DEF At
  <2> HIDE DEF t
  <2>7. Shifts(h, t)
    BY <2>1, <2>4, <2>5, <2>6 DEF Shifts, Enqueue, Waits, PutWaits
  <2>8. Tasks' /\ QueueShape'
    BY <1>0, <1>1, <1>2, <1>5, <2>7, ShiftsTasks DEF Ready
  <2>9. ClaimShape' /\ OneInFlight'
    <3>1. NoClaim(h, t)
      BY <1>1, <1>2, <1>3, <2>6 DEF NoClaim, Ready, Claiming
    <3> QED BY <1>0, <1>3, <2>4, <2>5, <3>1, ClaimsKept DEF Claims
  <2>10. count' \in Counts
    BY <1>0, <2>3, SpendType
  <2>11. Data'
    BY <1>0, <1>2, <2>1, <2>3, <2>10 DEF Data
  <2>12. PendingShape'
    <3>1. task'[h] = t /\ \A i \in Handlers \ {h} : task'[i].pc # "request"
      BY <1>0, <1>4, <2>4 DEF Tasks
    <3> QED BY <1>3, <2>3, <2>6, <3>1 DEF PendingShape
  <2>13. TypeOK'
    BY <1>0, <1>2, <1>3, <2>8, <2>11, TypePartsNext
  <2> QED BY <1>5, <2>8, <2>9, <2>12, <2>13 DEF IInv
<1>7. CASE ~(started /\ Resolved)
  <2>1. UNCHANGED <<count, pending, timer, queue, task>>
    BY <1>7 DEF RequestError
  <2>2. Data' /\ Tasks' /\ QueueShape' /\ OneInFlight'
    BY <1>0, <1>2, <2>1 DEF Data, Tasks, QueueShape, OneInFlight
  <2>3. ClaimShape'
    BY <1>0, <1>1, <1>3, <2>1 DEF ClaimShape
  <2>4. PendingShape'
    BY <1>0, <1>4, <2>1 DEF PendingShape
  <2>5. TypeOK'
    BY <1>0, <1>2, <1>3, <2>2, TypePartsNext
  <2> QED BY <1>5, <2>2, <2>3, <2>4, <2>5 DEF IInv
<1> QED BY <1>6, <1>7

LEMMA RequestRecordedStep ==
    ASSUME IInv, NEW h \in Handlers, RequestRecorded(h)
    PROVE  IInv'
<1>0. /\ Data /\ agent \in Agents /\ inFlight \in BOOLEAN /\ Tasks
      /\ TurnFits /\ QueueShape /\ ClaimShape /\ PendingShape /\ OneInFlight
  BY TypeParts DEF IInv
<1>1. /\ task[h].pc = "request" /\ Unqueued(h) /\ ~task[h].busy
      /\ task[h].result \in {"ok", "failed"}
  <2>1. task[h].pc = "request" /\ task[h].result # "none"
    BY DEF RequestRecorded
  <2>2. task[h].result \in {"none", "ok", "failed"}
    BY <1>0 DEF Tasks, Task
  <2> QED BY <1>0, <2>1, <2>2, UnqueuedWhen DEF ClaimShape, Claiming
<1>2. /\ UNCHANGED <<now, agent, edges, log, saved, goal, install, store, queue,
                     timer, started, inFlight, count>>
      /\ task' = [task EXCEPT ![h] = Idle]
  BY DEF RequestRecorded, session
<1>3. Idle \in Task /\ Idle.pc = "free" /\ ~Idle.busy
  BY IdleTask
<1>4. Shifts(h, Idle)
  BY <1>2, <1>3 DEF Shifts, PutWaits, RemoveWaits
<1>5. Tasks' /\ QueueShape'
  <2>1. Len(log) \in Nat
    BY <1>0 DEF Data
  <2> QED BY <1>0, <1>1, <1>2, <1>4, <2>1, ShiftsTasks
<1>6. ClaimShape' /\ OneInFlight'
  <2>1. NoClaim(h, Idle)
    BY <1>1, <1>2, <1>3 DEF NoClaim, Claiming
  <2> QED BY <1>0, <1>2, <1>3, <2>1, ClaimsKept DEF Claims
<1>7. Data'
  BY <1>0, <1>2 DEF Data, RequestRecorded
<1>8. PendingShape'
  <2>1. \A i \in Handlers : i # h => task'[i] = task[i]
    BY <1>0, <1>2 DEF Tasks
  <2>2. task'[h].pc # "request"
    BY <1>0, <1>2, <1>3 DEF Tasks
  <2>3. ASSUME count.faults = 0, pending' # None
        PROVE  \E i \in Handlers : task'[i].pc = "request" /\ task'[i].rec = pending'
    <3>1. task[h].result = "ok"
      BY <1>0, <1>1, <2>3 DEF PendingShape
    <3>2. pending' = pending /\ pending # task[h].rec /\ pending # None
      BY <2>3, <3>1 DEF RequestRecorded
    <3>3. PICK i \in Handlers : task[i].pc = "request" /\ task[i].rec = pending
      BY <1>0, <2>3, <3>2 DEF PendingShape
    <3> QED BY <2>1, <3>2, <3>3
  <2> QED BY <1>0, <1>2, <2>1, <2>2, <2>3 DEF PendingShape
<1>9. TurnFits'
  BY <1>0, <1>2 DEF TurnFits
<1>10. TypeOK'
  BY <1>0, <1>2, <1>5, <1>7, TypePartsNext
<1> QED BY <1>5, <1>6, <1>8, <1>9, <1>10 DEF IInv

LEMMA CommitStep ==
    ASSUME IInv, Commit
    PROVE  IInv'
<1> DEFINE op == Head(queue)
           h == op.by
<1>0. /\ Data /\ agent \in Agents /\ inFlight \in BOOLEAN /\ Tasks /\ count \in Counts
      /\ TurnFits /\ QueueShape /\ ClaimShape /\ PendingShape /\ OneInFlight
  BY TypeParts DEF IInv, Data
<1>1. /\ queue \in Seq(Operations) /\ queue # <<>> /\ queue' = Tail(queue)
      /\ op = queue[1] /\ 1 \in 1..Len(queue)
  BY <1>0 DEF Commit, Tasks
<1>2. op \in Operations /\ h \in Handlers /\ op.rec \in Incident
  <2>1. op \in Operations
    BY <1>1
  <2> QED BY <2>1 DEF Operations
<1>3. /\ Tail(queue) \in Seq(Operations) /\ Len(Tail(queue)) = Len(queue) - 1
      /\ \A i \in 1..Len(Tail(queue)) :
            i + 1 \in 1..Len(queue) /\ Tail(queue)[i] = queue[i + 1]
  BY <1>1
<1>4. task[h].result = "none" /\ task[h].pc \in Waits(op.kind)
  BY <1>0, <1>1 DEF QueueShape
<1>5. /\ UNCHANGED <<now, agent, edges, log, saved, goal, install, pending, timer,
                     started, inFlight>>
      /\ \E v \in {"ok", "failed"} :
            /\ task' = [task EXCEPT ![h].result = v]
            /\ v = "failed" => count'.faults > 0 \/ op.kind = "remove"
      /\ store' \in {store, op.rec, None}
      /\ count' \in Counts /\ count'.faults >= count.faults
  BY <1>0, CountType, SpendType DEF Commit, session, Fault
<1>6. PICK v \in {"ok", "failed"} :
            /\ task' = [task EXCEPT ![h].result = v]
            /\ v = "failed" => count'.faults > 0 \/ op.kind = "remove"
  BY <1>5
<1> HIDE DEF op, h
<1>7. /\ task' \in [Handlers -> Task]
      /\ \A i \in Handlers \ {h} : task'[i] = task[i]
      /\ task'[h].pc = task[h].pc /\ task'[h].rec = task[h].rec
      /\ task'[h].arg = task[h].arg /\ task'[h].busy = task[h].busy
      /\ task'[h].result = v
  <2>1. task \in [Handlers -> Task] /\ task[h] \in Task
    BY <1>0, <1>2 DEF Tasks
  <2>2. task' = [task EXCEPT ![h] = [task[h] EXCEPT !.result = v]]
    BY <1>6
  <2>3. [task[h] EXCEPT !.result = v] \in Task
    BY <2>1 DEF Task
  <2>4. task'[h] = [task[h] EXCEPT !.result = v]
    BY <1>2, <2>1, <2>2
  <2>5. task' \in [Handlers -> Task] /\ \A i \in Handlers \ {h} : task'[i] = task[i]
    BY <2>1, <2>2, <2>3
  <2> QED BY <2>1, <2>4, <2>5 DEF Task
<1>8. \A i \in Handlers : /\ task'[i].pc = task[i].pc /\ task'[i].rec = task[i].rec
                          /\ task'[i].arg = task[i].arg /\ task'[i].busy = task[i].busy
  BY <1>7
<1>9. Tasks'
  BY <1>0, <1>1, <1>3, <1>5, <1>7, <1>8 DEF Tasks
<1>10. QueueShape'
  <2>1. \A i \in 1..Len(queue') : /\ i + 1 \in 1..Len(queue) /\ queue'[i] = queue[i + 1]
                                  /\ queue[i + 1].by \in Handlers \ {h}
    <3> SUFFICES ASSUME NEW i \in 1..Len(queue')
                 PROVE  /\ i + 1 \in 1..Len(queue) /\ queue'[i] = queue[i + 1]
                        /\ queue[i + 1].by \in Handlers \ {h}
      OBVIOUS
    <3>1. i + 1 \in 1..Len(queue) /\ queue'[i] = queue[i + 1] /\ i + 1 # 1
      BY <1>1, <1>3
    <3>2. queue[i + 1] \in Operations
      BY <1>1, <3>1
    <3>3. queue[i + 1].by # h
      BY <1>0, <1>1, <3>1 DEF QueueShape, h
    <3> QED BY <3>1, <3>2, <3>3 DEF Operations
  <2>2. \A i \in 1..Len(queue') : task'[queue'[i].by] = task[queue[i + 1].by]
    BY <1>7, <2>1
  <2>3. \A i \in 1..Len(queue') :
          /\ task'[queue'[i].by].result = "none"
          /\ task'[queue'[i].by].pc \in Waits(queue'[i].kind)
    BY <1>0, <2>1, <2>2 DEF QueueShape
  <2>4. ASSUME NEW i \in 1..Len(queue'), NEW j \in 1..Len(queue'),
               queue'[i].by = queue'[j].by
        PROVE  i = j
    <3>1. i + 1 = j + 1
      BY <1>0, <2>1, <2>4 DEF QueueShape
    <3>2. i \in Nat /\ j \in Nat
      BY <1>1, <1>3
    <3> QED BY <3>1, <3>2
  <2> QED BY <2>3, <2>4 DEF QueueShape, Waits, PutWaits, RemoveWaits
<1>11. ClaimShape' /\ OneInFlight'
  BY <1>0, <1>5, <1>8 DEF ClaimShape, OneInFlight
<1>12. PendingShape'
  <2>1. count'.faults = 0 => count.faults = 0
    BY <1>0, <1>5 DEF Counts
  <2>2. count'.faults = 0 /\ task[h].pc = "request" => v # "failed"
    BY <1>4, <1>5, <1>6 DEF Waits, RemoveWaits, Counts
  <2>3. count'.faults = 0 =>
          \A i \in Handlers : task'[i].pc = "request" => task'[i].result # "failed"
    BY <1>0, <1>7, <2>1, <2>2 DEF PendingShape
  <2>4. count'.faults = 0 /\ pending' # None =>
          \E i \in Handlers : task'[i].pc = "request" /\ task'[i].rec = pending'
    BY <1>0, <1>5, <1>8, <2>1 DEF PendingShape
  <2> QED BY <1>0, <1>5, <1>8, <2>3, <2>4 DEF PendingShape
<1>13. TurnFits'
  BY <1>0, <1>5 DEF TurnFits
<1>14. Data'
  BY <1>0, <1>2, <1>5 DEF Data
<1>15. TypeOK'
  BY <1>0, <1>5, <1>9, <1>14, TypePartsNext
<1> QED BY <1>10, <1>11, <1>12, <1>13, <1>15 DEF IInv

-----------------------------------------------------------------------------
(* Steps in which no handler takes part.                                   *)

LEMMA OutsideStep ==
    ASSUME IInv, UNCHANGED <<task, queue, inFlight, log, pending>>, Data',
           count'.faults >= count.faults, agent' \in Agents, TurnFits',
           agent'.status = agent.status \/ agent.status = "idle",
           agent'.claim # None => agent'.status = "idle",
           \/ agent'.claim = agent.claim
           \/ \A h \in Handlers : agent.claim # h
    PROVE  IInv'
<1>0. /\ Data /\ agent \in Agents /\ inFlight \in BOOLEAN /\ Tasks
      /\ TurnFits /\ QueueShape /\ ClaimShape /\ PendingShape /\ OneInFlight
  BY TypeParts DEF IInv
<1>1. Tasks' /\ QueueShape' /\ OneInFlight'
  BY <1>0 DEF Tasks, QueueShape, OneInFlight
<1>2. ClaimShape'
  BY <1>0 DEF ClaimShape
<1>3. PendingShape'
  <2>1. count'.faults = 0 => count.faults = 0
    BY SMTT(40), <1>0 DEF Data, Counts
  <2>2. \A h \in Handlers : task[h].pc = "request" => agent'.status = "failing"
    BY <1>0 DEF PendingShape
  <2> QED BY <1>0, <2>1, <2>2 DEF PendingShape
<1>4. TypeOK'
  BY <1>0, <1>1, TypePartsNext
<1> QED BY <1>1, <1>2, <1>3, <1>4 DEF IInv

(* Most of them leave turn and claim of the Agent alone. *)
LEMMA RuntimeStep ==
    ASSUME IInv, UNCHANGED <<task, queue, inFlight, log, pending>>, Data',
           count'.faults >= count.faults, agent' \in Agents,
           agent'.status = agent.status, agent'.claim = agent.claim
    PROVE  IInv'
<1>1. TurnFits'
  BY DEF IInv, TurnFits
<1>2. agent'.claim # None => agent'.status = "idle"
  BY DEF IInv, ClaimShape
<1> QED BY <1>1, <1>2, OutsideStep

LEMMA StartTurnStep ==
    ASSUME IInv, StartTurn
    PROVE  IInv'
<1>0. Data /\ agent \in Agents
  BY TypeParts DEF IInv
<1>1. /\ agent' \in Agents /\ agent'.status = "running" /\ agent'.claim = agent.claim
      /\ agent.status = "idle" /\ agent.claim = None
  BY <1>0 DEF StartTurn, Agents
<1>2. goal' \in [asg : Nat, rev : Nat, armed : BOOLEAN, spent : BOOLEAN]
  <2>1. PICK last \in BOOLEAN : goal' = [goal EXCEPT !.spent = goal.spent \/ last]
    BY DEF StartTurn
  <2>2. (goal.spent \/ last) \in BOOLEAN
    OBVIOUS
  <2> QED BY <1>0, <2>1, <2>2 DEF Data
<1>3. Data'
  BY <1>0, <1>2 DEF Data, StartTurn, session
<1>4. TurnFits'
  BY DEF TurnFits, StartTurn, session
<1> QED BY <1>1, <1>3, <1>4, CountType, OutsideStep DEF StartTurn, session

LEMMA HoldStep ==
    ASSUME IInv, Hold \/ Release
    PROVE  IInv'
<1> USE ApiAssumption
<1>0. Data /\ agent \in Agents
  BY TypeParts DEF IInv
<1>1. /\ agent' \in Agents /\ agent'.status = agent.status
      /\ agent'.claim # None => agent'.status = "idle"
      /\ \A h \in Handlers : agent.claim # h
  BY <1>0 DEF Hold, Release, Agents
<1>2. count' \in Counts /\ count'.faults >= count.faults
  BY CountType, SpendType DEF Hold, Release
<1>3. Data'
  BY <1>0, <1>2 DEF Data, Hold, Release, session
<1>4. TurnFits'
  BY <1>1 DEF TurnFits, IInv, Hold, Release, session
<1> QED BY <1>1, <1>2, <1>3, <1>4, OutsideStep DEF Hold, Release, session

LEMMA GoalStep ==
    ASSUME IInv,
           \/ TrackGoal \/ WakeController \/ ArmController \/ ApplyGoal \/ GoalSaved
           \/ ClaimRetried \/ Tick \/ Dispose \/ Load
    PROVE  IInv'
<1> USE ApiAssumption
<1> DEFINE Goals == [asg : Nat, rev : Nat, armed : BOOLEAN, spent : BOOLEAN]
           Installs == [asg : Nat, rev : Nat, applied : BOOLEAN]
<1>0. Data /\ agent \in Agents /\ count \in Counts
  BY TypeParts DEF IInv, Data
<1>1. UNCHANGED <<task, queue, inFlight, log, pending>>
  BY DEF TrackGoal, WakeController, ArmController, ApplyGoal, GoalSaved, ClaimRetried,
         Tick, Dispose, Load, session
<1>2. agent' \in Agents /\ agent'.status = agent.status /\ agent'.claim = agent.claim
  <2>1. CASE ClaimRetried
    BY <1>0, <2>1 DEF ClaimRetried, Agents
  <2>2. CASE Load
    BY <1>0, <2>2 DEF Load, Agents
  <2>3. CASE agent' = agent
    BY <1>0, <2>3
  <2> QED BY <2>1, <2>2, <2>3 DEF TrackGoal, WakeController, ArmController, ApplyGoal,
             GoalSaved, Tick, Dispose
<1>3. count' \in Counts /\ count'.faults >= count.faults
  BY CountType, SpendType DEF TrackGoal, WakeController, ArmController, ApplyGoal,
     GoalSaved, ClaimRetried, Tick, Dispose, Load
<1>4. goal' \in Goals
  <2>0. goal \in Goals /\ install.asg \in Nat
    BY <1>0 DEF Data
  <2>1. CASE WakeController
    <3> DEFINE g == [goal EXCEPT !.rev = goal.rev + 1]
    <3>1. goal' = [g EXCEPT !.armed = TRUE]
      BY <2>1 DEF WakeController
    <3>2. g \in Goals
      BY <2>0
    <3> HIDE DEF g
    <3> QED BY <3>1, <3>2
  <2>2. CASE ApplyGoal
    <3> DEFINE moved == [goal EXCEPT !.asg = install.asg]
               next == [moved EXCEPT !.rev = goal.rev + 1]
               edited == IF goal.asg = install.asg THEN goal
                         ELSE [goal EXCEPT !.asg = install.asg, !.rev = goal.rev + 1]
               resumed == [edited EXCEPT !.rev = edited.rev + 1]
    <3>1. moved \in Goals /\ moved.rev = goal.rev
      BY <2>0
    <3>2. [goal EXCEPT !.asg = install.asg, !.rev = goal.rev + 1] = next
      OBVIOUS
    <3> HIDE DEF moved
    <3>3. next \in Goals
      BY <2>0, <3>1
    <3> HIDE DEF next
    <3>4. edited \in Goals
      BY <2>0, <3>2, <3>3
    <3>5. goal' = edited \/ goal' = [resumed EXCEPT !.armed = TRUE]
      BY <2>2 DEF ApplyGoal
    <3> HIDE DEF edited
    <3>6. resumed \in Goals
      BY <3>4
    <3> HIDE DEF resumed
    <3> QED BY <3>4, <3>5, <3>6
  <2>3. CASE goal' = goal
    BY <2>0, <2>3
  <2> QED BY <2>1, <2>2, <2>3 DEF TrackGoal, ArmController, GoalSaved, ClaimRetried,
             Tick, Dispose, Load
<1>5. install' \in Installs
  <2>0. install \in Installs /\ goal.rev \in Nat
    BY <1>0 DEF Data
  <2>1. CASE TrackGoal
    BY <2>0, <2>1 DEF TrackGoal
  <2>2. CASE ArmController
    <3> DEFINE i == [install EXCEPT !.asg = install.asg + 1]
    <3>1. i \in Installs
      BY <2>0
    <3>2. [install EXCEPT !.applied = FALSE] \in Installs
      BY <2>0
    <3>3. install' \in {install, [install EXCEPT !.applied = FALSE], [i EXCEPT !.applied = FALSE]}
      BY <2>2 DEF ArmController
    <3> HIDE DEF i
    <3>4. [i EXCEPT !.applied = FALSE] \in Installs
      BY <3>1
    <3> QED BY <2>0, <3>2, <3>3, <3>4
  <2>3. CASE GoalSaved
    <3> DEFINE i == [install EXCEPT !.rev = goal.rev]
    <3>1. i \in Installs
      BY <2>0
    <3>2. install' = [i EXCEPT !.applied = TRUE]
      BY <2>3 DEF GoalSaved
    <3> HIDE DEF i
    <3> QED BY <3>1, <3>2
  <2>4. CASE install' = install
    BY <2>0, <2>4
  <2> QED BY <2>1, <2>2, <2>3, <2>4 DEF WakeController, ApplyGoal, ClaimRetried, Tick,
             Dispose, Load
<1>6. saved' \in Saves
  <2>1. saved' = saved \/ saved' = Checkpoint
    BY DEF TrackGoal, WakeController, ArmController, ApplyGoal, GoalSaved, ClaimRetried,
           Tick, Dispose, Load, session
  <2> QED BY <1>0, <2>1, CheckpointType DEF Data
<1>7. now' \in 0..MaxTime
  BY <1>0 DEF TrackGoal, WakeController, ArmController, ApplyGoal, GoalSaved, ClaimRetried,
     Tick, Dispose, Load, Data
<1>8. edges' \subseteq {"idle", "adapters", "goal", "attach", "reconcile", "apply", "saving"}
  BY <1>0 DEF TrackGoal, WakeController, ArmController, ApplyGoal, GoalSaved, ClaimRetried,
     Tick, Dispose, Load, Data
<1>9. /\ store' = store /\ timer' \in {timer, None} /\ started' \in BOOLEAN
  BY <1>0 DEF TrackGoal, WakeController, ArmController, ApplyGoal, GoalSaved, ClaimRetried,
     Tick, Dispose, Load, Data
<1>10. Data'
  BY <1>0, <1>1, <1>3, <1>4, <1>5, <1>6, <1>7, <1>8, <1>9 DEF Data
<1> QED BY <1>1, <1>2, <1>3, <1>10, RuntimeStep

LEMMA NobodyRuns ==
    ASSUME Tasks, \A h \in Handlers : task'[h] = Idle, task' \in [Handlers -> Task],
           queue' = <<>>
    PROVE  /\ Tasks' /\ QueueShape' /\ OneInFlight'
           /\ \A h \in Handlers : /\ task'[h].pc \notin Claiming \cup {"request"}
                                  /\ ~task'[h].busy
<1>1. Idle.pc = "free" /\ ~Idle.busy
  BY IdleTask
<1> QED BY <1>1 DEF Tasks, QueueShape, OneInFlight, Claiming

LEMMA CrashStep ==
    ASSUME IInv, Crash
    PROVE  IInv'
<1>0. Data /\ agent \in Agents /\ Tasks /\ count \in Counts
  BY TypeParts DEF IInv, Data
<1>1. task' \in [Handlers -> Task] /\ (\A h \in Handlers : task'[h] = Idle) /\ queue' = <<>>
  BY IdleTask DEF Crash
<1>2. /\ Tasks' /\ QueueShape' /\ OneInFlight'
      /\ \A h \in Handlers : task'[h].pc \notin Claiming \cup {"request"} /\ ~task'[h].busy
  BY <1>0, <1>1, NobodyRuns
<1>3. agent' \in Agents /\ agent'.status = "idle" /\ agent'.claim = None
  BY DEF Crash, Agents
<1>4. count' \in Counts
  BY <1>0, SpendType DEF Crash
<1>5. goal' \in [asg : Nat, rev : Nat, armed : BOOLEAN, spent : BOOLEAN]
  <2> DEFINE Goals == [asg : Nat, rev : Nat, armed : BOOLEAN, spent : BOOLEAN]
             g == [goal EXCEPT !.asg = saved.asg]
             k == [g EXCEPT !.rev = saved.rev]
  <2>1. goal \in Goals /\ saved.asg \in Nat /\ saved.rev \in Nat
    BY <1>0 DEF Data, Saves
  <2>2. goal' = [goal EXCEPT !.armed = FALSE] \/ goal' = [k EXCEPT !.armed = FALSE]
    BY DEF Crash
  <2>3. g \in Goals
    BY <2>1
  <2> HIDE DEF g
  <2>4. k \in Goals
    BY <2>1, <2>3
  <2> HIDE DEF k
  <2> QED BY <2>1, <2>2, <2>4
<1>6. /\ log' \in {log, saved.log}
      /\ saved' \in {saved, Checkpoint}
  BY DEF Crash
<1>7. Data'
  <2>1. log' \in Seq(Codes \cup {None}) /\ Len(log') <= MaxTurns
    BY <1>0, <1>6 DEF Data, Saves
  <2>2. saved' \in Saves
    BY <1>0, <1>6, CheckpointType DEF Data
  <2> QED BY <1>0, <1>4, <1>5, <2>1, <2>2 DEF Data, Crash
<1>8. ClaimShape' /\ TurnFits' /\ PendingShape'
  BY <1>2, <1>3 DEF ClaimShape, TurnFits, PendingShape, Crash
<1>9. inFlight' \in BOOLEAN
  BY DEF Crash
<1>10. TypeOK'
  BY <1>2, <1>3, <1>7, <1>9, TypePartsNext
<1> QED BY <1>2, <1>8, <1>10 DEF IInv

LEMMA StartStep ==
    ASSUME IInv, Start
    PROVE  IInv'
<1>0. /\ Data /\ agent \in Agents /\ Tasks /\ count \in Counts
      /\ TurnFits /\ QueueShape /\ ClaimShape /\ PendingShape
  BY TypeParts DEF IInv, Data
<1>1. \A h \in Handlers : task[h].pc = "free" /\ ~task[h].busy
  BY <1>0 DEF Start, Free, ClaimShape, Claiming
<1>2. /\ UNCHANGED <<now, agent, log, saved, goal, install, store, queue, timer, task, count>>
      /\ inFlight' = FALSE /\ pending' = None /\ started' = TRUE
      /\ edges' \subseteq edges \cup {"reconcile", "attach"}
  BY DEF Start, session
<1>3. Tasks' /\ QueueShape' /\ ClaimShape' /\ TurnFits' /\ OneInFlight'
  BY <1>0, <1>1, <1>2 DEF Tasks, QueueShape, ClaimShape, TurnFits, OneInFlight
<1>4. PendingShape'
  BY <1>0, <1>1, <1>2 DEF PendingShape
<1>5. Data'
  BY <1>0, <1>2 DEF Data
<1>6. inFlight' \in BOOLEAN /\ agent' \in Agents
  BY <1>0, <1>2
<1>7. TypeOK'
  BY <1>3, <1>5, <1>6, TypePartsNext
<1> QED BY <1>3, <1>4, <1>7 DEF IInv

-----------------------------------------------------------------------------
LEMMA InitInv == Init => IInv
<1> SUFFICES ASSUME Init PROVE IInv
  OBVIOUS
<1> USE ApiAssumption
<1>1. \A h \in Handlers : task[h] = Idle
  BY DEF Init
<1>2. Data /\ agent \in Agents /\ inFlight \in BOOLEAN
  <2>1. <<>> \in Seq(Codes \cup {None}) /\ Len(<<>>) = 0 /\ 0 <= MaxTurns
    OBVIOUS
  <2>2. saved \in Saves
    BY <2>1 DEF Init, Saves
  <2>3. count \in Counts
    BY DEF Init, Counts
  <2>4. agent \in Agents
    BY DEF Init, Agents
  <2>5. log \in Seq(Codes \cup {None}) /\ Len(log) <= MaxTurns
    BY <2>1 DEF Init
  <2>6. /\ goal \in [asg : Nat, rev : Nat, armed : BOOLEAN, spent : BOOLEAN]
        /\ install \in [asg : Nat, rev : Nat, applied : BOOLEAN]
    BY DEF Init
  <2>7. now = 0 /\ edges = {} /\ store = None /\ pending = None /\ timer = None
    BY DEF Init
  <2>8. 0 \in 0..MaxTime
    OBVIOUS
  <2>9. started \in BOOLEAN /\ inFlight \in BOOLEAN
    BY Zenon DEF Init
  <2> QED BY <2>2, <2>3, <2>4, <2>5, <2>6, <2>7, <2>8, <2>9 DEF Data
<1>3. Tasks
  BY IdleTask DEF Init, Tasks
<1>4. TypeOK
  BY <1>2, <1>3, TypeParts
<1>5. \A h \in Handlers : task[h].pc = "free" /\ ~task[h].busy
  BY <1>1, IdleTask
<1>6. QueueShape /\ ClaimShape /\ PendingShape /\ TurnFits /\ OneInFlight
  BY <1>5 DEF Init, QueueShape, ClaimShape, PendingShape, TurnFits, OneInFlight, Claiming
<1> QED BY <1>4, <1>6 DEF IInv

LEMMA StepInv == IInv /\ [Next]_vars => IInv'
<1> SUFFICES ASSUME IInv, [Next]_vars PROVE IInv'
  OBVIOUS
<1>1. CASE UNCHANGED vars
  <2>1. Data' /\ agent' \in Agents
    BY <1>1, TypeParts DEF IInv, Data, vars, session, history
  <2> QED BY <1>1, <2>1, CountType, RuntimeStep DEF vars, session, history
<1>2. CASE StartTurn
  BY <1>2, StartTurnStep
<1>3. CASE Commit
  BY <1>3, CommitStep
<1>4. CASE \/ TrackGoal \/ WakeController \/ ArmController \/ ApplyGoal \/ GoalSaved
           \/ ClaimRetried \/ Tick \/ Dispose \/ Load
  BY <1>4, GoalStep
<1>5. CASE Hold \/ Release
  BY <1>5, HoldStep
<1>6. CASE Crash
  BY <1>6, CrashStep
<1>7. CASE Start
  BY <1>7, StartStep
<1>8. ASSUME NEW h \in Handlers, NEW code \in Codes, RequestError(h, code)
      PROVE  IInv'
  BY <1>8, RequestErrorStep
<1>9. ASSUME NEW h \in Handlers,
             EndTurn(h) \/ CheckpointFails(h) \/ TimerFires(h) \/ AdaptersUpdated(h)
      PROVE  IInv'
  BY <1>9, EndTurnStep, CheckpointFailsStep, TimerFiresStep, AdaptersUpdatedStep
<1>10. ASSUME NEW h \in Handlers, Edge(h)
       PROVE  IInv'
  BY <1>10, IdleEdgeStep, AdapterPassStep, ReconcileStep DEF Edge
<1>11. ASSUME NEW h \in Handlers, Handler(h)
       PROVE  IInv'
  BY <1>11, RequestRecordedStep, TerminalSavedStep, SettlementSavedStep, PublishedStep,
     WriteFailedStep, RemovedStep, EnterMaintenanceStep, LeaveMaintenanceStep,
     OperatorWhenIdleStep, RescheduledStep DEF Handler
<1> QED BY <1>1, <1>2, <1>3, <1>4, <1>5, <1>6, <1>7, <1>8, <1>9, <1>10, <1>11 DEF Next

LEMMA AlwaysInv == Spec => []IInv
BY InitInv, StepInv, PTL DEF Spec

(* Every variable keeps its type: what handlers store, arm and wait with is an
   incident, also after a crash, and a turn that is under way fits the log.  *)
THEOREM TypeCorrect == Spec => []TypeOK
<1>1. IInv => TypeOK
  BY DEF IInv
<1> QED BY <1>1, AlwaysInv, PTL

(* resumeExact is entered by one handler at a time, for any number of timers,
   idle edges, adapter updates and restarts.                                 *)
THEOREM ResumesOnce == Spec => []OneInFlight
<1>1. IInv => OneInFlight
  BY DEF IInv
<1> QED BY <1>1, AlwaysInv, PTL

(* While no write fails, the Goal is resumed for the incident that is current
   when it is resumed: a candidate in memory and a claimed idle Agent exclude
   each other.                                                               *)
THEOREM ResumesCurrent == Spec => ResumesTheLast
<1>1. ASSUME IInv, NEW h \in Handlers, EnterMaintenance(h), goal' # goal,
             count.faults = 0
      PROVE  CurrentRecord = task[h].rec
  <2>1. task[h].pc \in {"enter", "adopt"} /\ store = task[h].rec
    BY <1>1 DEF EnterMaintenance, StillExact
  <2>2. agent.claim = h /\ agent.claim # None
    BY <1>1, <2>1, ApiAssumption DEF IInv, ClaimShape, Claiming
  <2>3. agent.status = "idle"
    BY <1>1, <2>2 DEF IInv, ClaimShape
  <2>4. \A i \in Handlers : task[i].pc # "request"
    BY <1>1, <2>3 DEF IInv, PendingShape
  <2>5. pending = None
    BY <1>1, <2>4 DEF IInv, PendingShape
  <2> QED BY <2>1, <2>5 DEF CurrentRecord
<1>2. IInv /\ [Next]_vars =>
        [\A h \in Handlers : EnterMaintenance(h) /\ goal' # goal /\ count.faults = 0 =>
             CurrentRecord = task[h].rec]_vars
  BY <1>1
<1> QED BY <1>2, AlwaysInv, PTL DEF Spec, ResumesTheLast

-----------------------------------------------------------------------------
(* The order of incidents.                                                 *)

(* No write failed and the plugin ran on. *)
Calm == count.faults = 0 /\ count.restarts = 0

Writes == {i \in 1..Len(queue) : queue[i].kind = "put"}
OfRequest(i) == task[queue[i].by].pc = "request"

(* Two phases of one incident. *)
Kin(r, q) == r.at = q.at /\ r.turn = q.turn /\ r.ref = q.ref

Superseded(r) == r.ref.asg < install.asg
Newest(r) == r.at = count.recordings /\ r.turn = Len(log) + 1

(* An incident was recorded before now, for an assignment that is installed
   then; as long as that one stands, no turn failed after it. *)
Known(r) ==
    /\ r.at <= count.recordings /\ r.turn <= Len(log) + 1
    /\ r.ref.asg <= install.asg
    /\ r.ref.asg = install.asg => Resolved
    /\ \A t \in 1..Len(log) : r.turn < t /\ log[t] # None => Superseded(r)

RuntimeShape ==
    /\ started /\ agent.up /\ "attach" \notin edges
    /\ "apply" \in edges => ~install.applied /\ "saving" \notin edges
    /\ agent.status # "failing" => agent.fault = None

(* One candidate at a time is in memory, and it is the newest incident. *)
RequestShape ==
    \A h \in Handlers : task[h].pc = "request" =>
        /\ pending = task[h].rec /\ Newest(pending)
        /\ \A i \in Handlers : task[i].pc = "request" => i = h

(* A handler waits for the checkpoint of a turn that its incident is about, and
   publishes no candidate. *)
WaitShape ==
    \A h \in Handlers :
        /\ task[h].pc = "flush" =>
              /\ task[h].rec.phase = "awaiting" => task[h].arg = task[h].rec.turn
              /\ task[h].rec.phase = "recovering" => task[h].arg > task[h].rec.turn
        /\ task[h].pc = "publish" =>
              /\ task[h].rec.at <= count.recordings
              /\ pending # None => task[h].rec.at < pending.at

(* A queued write is of the candidate, with no write behind it, or of the
   incident that is stored. *)
ChainShape ==
    /\ store # None => Known(store)
    /\ \A i \in Writes :
          /\ Known(queue[i].rec)
          /\ OfRequest(i) => Newest(queue[i].rec) /\ \A j \in Writes : j <= i
          /\ ~OfRequest(i) =>
                /\ store # None => Kin(queue[i].rec, store)
                /\ \A j \in Writes : ~OfRequest(j) => Kin(queue[i].rec, queue[j].rec)

(* The failure of the turn that ends is recorded, or was not one of an
   assignment that has an incident. *)
Covered(r) == r.turn = Len(log) + 1 \/ Superseded(r)

FailShape ==
    agent.status = "failing" =>
        \/ \E h \in Handlers : task[h].pc = "request" /\ task[h].result = "none"
        \/ /\ store # None => Covered(store)
           /\ \A i \in Writes : Covered(queue[i].rec)

OrderShape == RuntimeShape /\ RequestShape /\ WaitShape /\ ChainShape /\ FailShape

NInv == Calm => OrderShape

-----------------------------------------------------------------------------
(* What the step of a handler does to the order of incidents: its task goes to
   t, and what it writes is the stored incident in another phase. *)
Continues(h) ==
    \E t \in Task :
        /\ task' = [task EXCEPT ![h] = t] /\ t.pc # "request"
        /\ t.pc = "flush" =>
              /\ t.rec.phase = "awaiting" => t.arg = t.rec.turn
              /\ t.rec.phase = "recovering" => t.arg > t.rec.turn
        /\ \/ queue' = queue /\ t.pc # "publish"
           \/ /\ queue' = Append(queue, [kind |-> "remove", by |-> h, rec |-> t.rec])
              /\ t.pc # "publish"
           \/ /\ queue' = Append(queue, [kind |-> "put", by |-> h, rec |-> t.rec])
              /\ t.rec \in Incident
              /\ store # None /\ Kin(t.rec, store) /\ pending = None

Frame ==
    /\ UNCHANGED <<log, install, store, pending, started>>
    /\ goal'.asg = goal.asg /\ count'.recordings = count.recordings
    /\ agent'.status = agent.status /\ agent'.fault = agent.fault
    /\ agent'.up = agent.up
    /\ "attach" \in edges' => "attach" \in edges
    /\ "apply" \in edges' => "apply" \in edges
    /\ "saving" \in edges' => "saving" \in edges

LEMMA NoRequest ==
    ASSUME IInv, OrderShape, pending = None
    PROVE  \A h \in Handlers : task[h].pc # "request"
<1> SUFFICES ASSUME NEW h \in Handlers, task[h].pc = "request" PROVE FALSE
  OBVIOUS
<1>1. task[h].rec \in Incident
  BY TaskIncident
<1> QED BY <1>1, ApiAssumption DEF OrderShape, RequestShape

LEMMA ContinuesOrder ==
    ASSUME IInv, OrderShape, NEW h \in Handlers, task[h].pc # "request", Unqueued(h),
           Continues(h), Frame
    PROVE  OrderShape'
<1>0. /\ Data /\ Tasks /\ RuntimeShape /\ RequestShape /\ WaitShape /\ ChainShape
      /\ FailShape /\ count \in Counts
  BY TypeParts DEF IInv, OrderShape, Data
<1>1. PICK t \in Task :
        /\ task' = [task EXCEPT ![h] = t] /\ t.pc # "request"
        /\ t.pc = "flush" =>
              /\ t.rec.phase = "awaiting" => t.arg = t.rec.turn
              /\ t.rec.phase = "recovering" => t.arg > t.rec.turn
        /\ \/ queue' = queue /\ t.pc # "publish"
           \/ /\ queue' = Append(queue, [kind |-> "remove", by |-> h, rec |-> t.rec])
              /\ t.pc # "publish"
           \/ /\ queue' = Append(queue, [kind |-> "put", by |-> h, rec |-> t.rec])
              /\ t.rec \in Incident
              /\ store # None /\ Kin(t.rec, store) /\ pending = None
  BY DEF Continues
<1>2. /\ task'[h] = t /\ \A i \in Handlers \ {h} : task'[i] = task[i]
      /\ queue \in Seq(Operations)
  BY <1>0, <1>1 DEF Tasks
<1>3. /\ UNCHANGED <<log, install, store, pending, started>>
      /\ goal'.asg = goal.asg /\ count'.recordings = count.recordings
      /\ agent'.status = agent.status /\ agent'.fault = agent.fault
      /\ agent'.up = agent.up
      /\ "attach" \in edges' => "attach" \in edges
      /\ "apply" \in edges' => "apply" \in edges
      /\ "saving" \in edges' => "saving" \in edges
  BY DEF Frame
<1>4. RuntimeShape'
  BY <1>0, <1>3 DEF RuntimeShape
<1>5. RequestShape'
  BY <1>0, <1>1, <1>2, <1>3 DEF RequestShape, Newest
<1>6. \A i \in 1..Len(queue) : queue[i].by \in Handlers \ {h} /\ queue[i].rec \in Incident
  <2>1. \A i \in 1..Len(queue) : queue[i].by \in Handlers \ {h}
    BY <1>2, OthersQueued
  <2> SUFFICES ASSUME NEW i \in 1..Len(queue) PROVE queue[i].rec \in Incident
    BY <2>1
  <2>2. queue[i] \in Operations
    BY <1>2
  <2> QED BY <2>2 DEF Operations
<1>7. \A r \in Incident : (Known(r) => Known(r)') /\ (Covered(r) => Covered(r)')
  BY <1>3 DEF Known, Covered, Superseded, Resolved
<1>8. store # None => store \in Incident /\ Known(store)
  BY <1>0 DEF Data, ChainShape
<1>9. CASE queue' = queue /\ t.pc # "publish"
  <2>1. \A i \in 1..Len(queue) : OfRequest(i)' <=> OfRequest(i)
    BY <1>2, <1>6, <1>9 DEF OfRequest
  <2>2. ChainShape'
    BY <1>0, <1>3, <1>6, <1>9, <2>1 DEF ChainShape, Writes, Known, Newest, Kin, Superseded, Resolved
  <2>3. FailShape'
    BY <1>0, <1>1, <1>2, <1>3, <1>9 DEF FailShape, Writes, Covered, Superseded
  <2>4. WaitShape'
    BY <1>0, <1>1, <1>2, <1>3, <1>9 DEF WaitShape
  <2> QED BY <1>4, <1>5, <2>2, <2>3, <2>4 DEF OrderShape
<1>10. ASSUME NEW kind \in {"put", "remove"},
              queue' = Append(queue, [kind |-> kind, by |-> h, rec |-> t.rec])
       PROVE  /\ Len(queue) \in Nat /\ Len(queue') = Len(queue) + 1
              /\ \A i \in 1..Len(queue) : queue'[i] = queue[i] /\ (OfRequest(i)' <=> OfRequest(i))
              /\ \A n \in 1..Len(queue') \ 1..Len(queue) :
                    /\ n = Len(queue) + 1 /\ ~OfRequest(n)'
                    /\ queue'[n].rec = t.rec /\ queue'[n].kind = kind
  <2>1. /\ Len(queue) \in Nat /\ Len(queue') = Len(queue) + 1
        /\ \A i \in 1..Len(queue) : queue'[i] = queue[i]
        /\ queue'[Len(queue) + 1] = [kind |-> kind, by |-> h, rec |-> t.rec]
    BY <1>2, <1>10
  <2> QED BY <1>1, <1>2, <1>6, <2>1 DEF OfRequest
<1>11. CASE /\ queue' = Append(queue, [kind |-> "remove", by |-> h, rec |-> t.rec])
            /\ t.pc # "publish"
  <2>1. /\ Writes' = Writes
        /\ \A i \in Writes : queue'[i] = queue[i] /\ (OfRequest(i)' <=> OfRequest(i))
    BY <1>10, <1>11 DEF Writes
  <2>2. ChainShape'
    BY <1>0, <1>3, <2>1 DEF ChainShape, Known, Newest, Kin, Superseded, Resolved
  <2>3. FailShape'
    BY <1>0, <1>1, <1>2, <1>3, <2>1 DEF FailShape, Covered, Superseded
  <2>4. WaitShape'
    BY <1>0, <1>1, <1>2, <1>3, <1>11 DEF WaitShape
  <2> QED BY <1>4, <1>5, <2>2, <2>3, <2>4 DEF OrderShape
<1>12. CASE /\ queue' = Append(queue, [kind |-> "put", by |-> h, rec |-> t.rec])
            /\ t.rec \in Incident
            /\ store # None /\ Kin(t.rec, store) /\ pending = None
  <2>0. PICK n \in 1..Len(queue') : n = Len(queue) + 1
    BY <1>10, <1>12
  <2>1. /\ Writes' = Writes \cup {n} /\ n \notin Writes
        /\ \A i \in Writes : queue'[i] = queue[i] /\ ~OfRequest(i) /\ ~OfRequest(i)'
        /\ queue'[n].rec = t.rec /\ ~OfRequest(n)'
    <3>1. \A i \in 1..Len(queue) : ~OfRequest(i)
      BY <1>6, <1>12, NoRequest DEF OfRequest
    <3> QED BY <1>10, <1>12, <2>0, <3>1 DEF Writes
  <2>2. Known(t.rec)' /\ (Covered(store) => Covered(t.rec)')
    BY <1>3, <1>8, <1>12 DEF Known, Kin, Covered, Superseded, Resolved
  <2>3. ChainShape'
    <3>1. store' = store /\ Known(store)'
      BY <1>3, <1>8, <1>12 DEF Known, Superseded, Resolved
    <3>2. ASSUME NEW i \in Writes' PROVE Known(queue[i].rec)' /\ Kin(queue'[i].rec, store)
      <4>1. CASE i \in Writes
        BY <1>0, <1>3, <1>12, <2>1, <4>1 DEF ChainShape, Known, Superseded, Resolved
      <4>2. CASE i = n
        BY <1>12, <2>1, <2>2, <4>2 DEF Known, Superseded, Resolved
      <4> QED BY <2>1, <4>1, <4>2
    <3>3. \A i \in Writes' : ~OfRequest(i)'
      BY <2>1
    <3>4. \A i, j \in Writes' : Kin(queue'[i].rec, queue'[j].rec)
      BY <3>2 DEF Kin
    <3> QED BY <3>1, <3>2, <3>3, <3>4 DEF ChainShape, Kin
  <2>4. FailShape'
    <3>1. ASSUME NEW i \in Writes', Covered(store), \A j \in Writes : Covered(queue[j].rec)
          PROVE  Covered(queue[i].rec)'
      BY <1>3, <2>1, <2>2, <3>1 DEF Covered, Superseded
    <3>2. \A i \in Handlers : task[i].pc # "request"
      BY <1>12, NoRequest
    <3> QED BY <1>0, <1>3, <1>12, <3>1, <3>2 DEF FailShape, Covered, Superseded
  <2>5. WaitShape'
    <3>1. t.rec.at <= count'.recordings
      BY <1>3, <1>8, <1>12 DEF Known, Kin
    <3> QED BY <1>0, <1>1, <1>2, <1>3, <1>12, <3>1 DEF WaitShape
  <2> QED BY <1>4, <1>5, <2>3, <2>4, <2>5 DEF OrderShape
<1> QED BY <1>1, <1>9, <1>11, <1>12

-----------------------------------------------------------------------------
(* The pieces of handlers.                                                 *)

LEMMA ReturnContinues ==
    ASSUME NEW h \in Handlers, task' = [task EXCEPT ![h] = Idle], queue' = queue
    PROVE  Continues(h)
BY IdleTask DEF Continues

LEMMA PutContinues ==
    ASSUME IInv, NEW h \in Handlers, task[h] \in Task, NEW r \in Incident,
           NEW pc \in {"publish", "resumed", "retry"}, Put(h, pc, r),
           store # None, Kin(r, store), pending = None
    PROVE  Continues(h)
<1>1. CASE FitsSchema(r)
  <2> DEFINE t == At(pc, r, 0, task[h].busy)
  <2>1. t \in Task
    <3>1. task[h].busy \in BOOLEAN
      BY DEF Task
    <3> QED BY <3>1, AtTask
  <2>2. t.pc = pc /\ t.rec = r
    BY DEF At
  <2>3. task' = [task EXCEPT ![h] = t] /\ Enqueue("put", h, r)
    BY <1>1 DEF Put
  <2> HIDE DEF t
  <2> QED BY <2>1, <2>2, <2>3 DEF Continues, Enqueue
<1>2. CASE ~FitsSchema(r)
  BY <1>2, ReturnContinues DEF Put
<1> QED BY <1>1, <1>2

LEMMA RemoveContinues ==
    ASSUME NEW h \in Handlers, NEW r \in Incident, NEW busy \in BOOLEAN,
           NEW pc \in {"clear", "remove"}, RemoveStored(h, r, pc, busy)
    PROVE  Continues(h)
<1> DEFINE t == At(pc, r, 0, busy)
<1>1. t \in Task
  BY AtTask
<1>2. t.pc = pc /\ t.rec = r
  BY DEF At
<1>3. task' = [task EXCEPT ![h] = t] /\ Enqueue("remove", h, r)
  BY DEF RemoveStored
<1> HIDE DEF t
<1> QED BY <1>1, <1>2, <1>3 DEF Continues, Enqueue

(* While the Agent is idle no candidate is in memory. *)
LEMMA IdleNoCandidate ==
    ASSUME IInv, Calm, agent.status = "idle"
    PROVE  pending = None
BY DEF IInv, PendingShape, Calm

LEMMA ResumeExactContinues ==
    ASSUME IInv, Calm, NEW h \in Handlers, NEW r \in Incident,
           NEW pc \in {"enter", "adopt"}, NEW rev \in Nat, IsCurrent(r),
           ResumeExact(h, pc, r, rev)
    PROVE  Continues(h) /\ agent'.status = agent.status /\ agent'.fault = agent.fault
           /\ agent'.up = agent.up
<1>0. /\ agent \in Agents /\ task[h] \in Task /\ store = r /\ store # None
      /\ pending = None
  BY TypeParts, IdleNoCandidate, ApiAssumption DEF IInv, Tasks, IsCurrent
<1>1. CASE PromoteOperator(h, r) /\ UNCHANGED <<agent, inFlight>>
  <2>1. /\ [r EXCEPT !.phase = "operator"] \in Incident
        /\ Kin([r EXCEPT !.phase = "operator"], store)
    BY <1>0, PromotedType DEF Kin, Incident
  <2> QED BY <1>0, <1>1, <2>1, PutContinues DEF PromoteOperator
<1>2. CASE /\ agent' = [agent EXCEPT !.claim = h]
           /\ task' = [task EXCEPT ![h] = At(pc, r, rev, TRUE)]
           /\ UNCHANGED queue
  <2> DEFINE t == At(pc, r, rev, TRUE)
  <2>1. t \in Task /\ t.pc = pc
    BY AtTask DEF At
  <2>2. task' = [task EXCEPT ![h] = t]
    BY <1>2
  <2> HIDE DEF t
  <2>3. Continues(h)
    BY <1>2, <2>1, <2>2 DEF Continues
  <2> QED BY <1>0, <1>2, <2>3 DEF Agents
<1>3. CASE /\ agent' = [agent EXCEPT !.awaited = TRUE]
           /\ task' = [task EXCEPT ![h] = Idle]
           /\ UNCHANGED <<inFlight, queue>>
  BY <1>0, <1>3, ReturnContinues DEF Agents
<1> QED BY <1>1, <1>2, <1>3 DEF ResumeExact

(* What a piece leaves of the Agent. *)
SameTurn ==
    /\ agent'.status = agent.status /\ agent'.fault = agent.fault
    /\ agent'.up = agent.up

LEMMA StaysContinues ==
    ASSUME NEW h \in Handlers, Return(h)
    PROVE  Continues(h) /\ SameTurn
BY ReturnContinues DEF Return, SameTurn

LEMMA DropContinues ==
    ASSUME NEW h \in Handlers, NEW r \in Incident, Drop(h, r)
    PROVE  Continues(h) /\ SameTurn
BY RemoveContinues DEF Drop, SameTurn

LEMMA ResumeScheduledContinues ==
    ASSUME IInv, Calm, NEW h \in Handlers, NEW r \in Incident, ResumeScheduled(h, r)
    PROVE  Continues(h) /\ SameTurn
<1>1. goal.rev \in Nat /\ r.ref.rev \in Nat
  BY RevisionType
<1>2. CASE ~MayResume(r)
  BY <1>2, StaysContinues DEF ResumeScheduled
<1>3. CASE MayResume(r) /\ GoalApplied(r)
  BY <1>1, <1>3, ResumeExactContinues DEF ResumeScheduled, MayResume, SameTurn
<1>4. CASE MayResume(r) /\ ~GoalApplied(r) /\ Matches(r, r.ref.rev)
  BY <1>1, <1>4, ResumeExactContinues DEF ResumeScheduled, MayResume, SameTurn
<1>5. CASE MayResume(r) /\ ~GoalApplied(r) /\ ~Matches(r, r.ref.rev)
  BY <1>5, DropContinues DEF ResumeScheduled
<1> QED BY <1>2, <1>3, <1>4, <1>5

LEMMA ResumeRecoveringContinues ==
    ASSUME IInv, Calm, NEW h \in Handlers, NEW r \in Incident, ResumeRecovering(h, r)
    PROVE  Continues(h) /\ SameTurn
<1> DEFINE resumedNow == goal.asg = r.ref.asg /\ goal.rev = r.resumed /\ goal.armed
<1>1. goal.rev \in Nat /\ r.ref.rev \in Nat
  BY RevisionType
<1>2. CASE ~MayResume(r) \/ resumedNow
  BY <1>2, StaysContinues DEF ResumeRecovering
<1>3. CASE MayResume(r) /\ ~resumedNow /\ Matches(r, r.resumed)
  <2>1. r.resumed \in Nat
    BY <1>1, <1>3 DEF Matches
  <2> QED BY <1>3, <2>1, ResumeExactContinues DEF ResumeRecovering, MayResume, SameTurn
<1>4. CASE MayResume(r) /\ ~resumedNow /\ ~Matches(r, r.resumed) /\ Matches(r, r.ref.rev)
  BY <1>1, <1>4, ResumeExactContinues DEF ResumeRecovering, MayResume, SameTurn
<1>5. CASE MayResume(r) /\ ~resumedNow /\ ~Matches(r, r.resumed) /\ ~Matches(r, r.ref.rev)
  BY <1>5, DropContinues DEF ResumeRecovering
<1> QED BY <1>2, <1>3, <1>4, <1>5

LEMMA ResumeOperatorContinues ==
    ASSUME IInv, Calm, NEW h \in Handlers, NEW r \in Incident, ResumeOperator(h, r)
    PROVE  Continues(h) /\ SameTurn
<1>1. now \in Nat /\ task[h] \in Task
  BY TypeParts DEF IInv, Data, Tasks
<1>2. CASE ~IsCurrent(r)
  BY <1>2, StaysContinues DEF ResumeOperator
<1>3. CASE IsCurrent(r) /\ ~Matches(r, r.ref.rev)
  BY <1>3, DropContinues DEF ResumeOperator
<1>4. CASE IsCurrent(r) /\ Matches(r, r.ref.rev) /\ goal.spent
  BY <1>4, StaysContinues DEF ResumeOperator
<1>5. CASE IsCurrent(r) /\ Matches(r, r.ref.rev) /\ ~goal.spent
  <2> DEFINE s == [r EXCEPT !.phase = "scheduled", !.due = now]
  <2>1. store = r /\ store # None /\ pending = None
    BY <1>5, IdleNoCandidate, ApiAssumption DEF IsCurrent
  <2>2. s \in Incident /\ Kin(s, store)
    BY <1>1, <2>1, RetriedType DEF Kin, Incident
  <2>3. Put(h, "retry", s) /\ agent' = agent
    BY <1>5 DEF ResumeOperator
  <2> HIDE DEF s
  <2> QED BY <1>1, <2>1, <2>2, <2>3, PutContinues DEF SameTurn
<1> QED BY <1>2, <1>3, <1>4, <1>5

LEMMA TurnEndContinues ==
    ASSUME IInv, NEW h \in Handlers, NEW n \in Nat, TurnEndHandler(h, n), queue' = queue
    PROVE  Continues(h)
<1>1. CASE task' = [task EXCEPT ![h] = Idle]
  BY <1>1, ReturnContinues
<1>2. CASE /\ \/ IsPhase(CurrentRecord, "recovering") /\ n > CurrentRecord.turn
              \/ IsPhase(CurrentRecord, "awaiting") /\ n = CurrentRecord.turn
           /\ task' = [task EXCEPT ![h] = At("flush", CurrentRecord, n, FALSE)]
  <2> DEFINE t == At("flush", CurrentRecord, n, FALSE)
  <2>1. CurrentRecord \in Incident
    BY <1>2, TypeParts DEF IInv, Data, CurrentRecord, IsPhase
  <2>2. t \in Task
    BY <2>1, AtTask
  <2>3. t.pc = "flush" /\ t.rec = CurrentRecord /\ t.arg = n
    BY DEF At
  <2> HIDE DEF t
  <2> QED BY <1>2, <2>2, <2>3 DEF Continues, IsPhase, t
<1> QED BY <1>1, <1>2 DEF TurnEndHandler

LEMMA ReconcileTurnContinues ==
    ASSUME IInv, NEW h \in Handlers, NEW n, ReconcileTurn(h, n)
    PROVE  Continues(h) /\ SameTurn
<1>1. CASE n \in 1..Len(log)
  <2>1. n \in Nat
    BY <1>1, TypeParts DEF IInv, Data
  <2> QED BY <1>1, <2>1, TurnEndContinues DEF ReconcileTurn, SameTurn
<1>2. CASE n \notin 1..Len(log)
  BY <1>2, ReturnContinues DEF ReconcileTurn, SameTurn
<1> QED BY <1>1, <1>2

LEMMA AgentReadyContinues ==
    ASSUME IInv, Calm, NEW h \in Handlers, AgentReady(h)
    PROVE  Continues(h) /\ SameTurn /\ pending' = pending
<1> DEFINE r == CurrentRecord
           early == IsPhase(r, "scheduled") /\ r.due > now
           skips == ~started \/ ~agent.up \/ r = None \/ early
<1>1. r = None \/ r \in Incident
  BY TypeParts DEF IInv, Data, CurrentRecord
<1>2. pending' = pending
  BY DEF AgentReady
<1>3. CASE skips
  BY <1>2, <1>3, StaysContinues DEF AgentReady
<1>4. CASE ~skips
  <2>1. r \in Incident
    BY <1>1, <1>4
  <2>2. r.phase \in {"awaiting", "scheduled", "operator", "recovering"}
    BY <2>1 DEF Incident
  <2>3. CASE r.phase = "awaiting"
    BY <1>2, <1>4, <2>3, ReconcileTurnContinues DEF AgentReady
  <2>4. CASE r.phase = "scheduled"
    BY <1>2, <1>4, <2>1, <2>4, ResumeScheduledContinues DEF AgentReady
  <2>5. CASE r.phase = "operator"
    BY <1>2, <1>4, <2>5, StaysContinues DEF AgentReady
  <2>6. CASE r.phase = "recovering"
    BY <1>2, <1>4, <2>1, <2>6, ReconcileTurnContinues, ResumeRecoveringContinues
       DEF AgentReady
  <2> QED BY <2>2, <2>3, <2>4, <2>5, <2>6
<1> QED BY <1>3, <1>4

(* The candidate in memory is of the turn that did not end yet. *)
LEMMA CandidateTurn ==
    ASSUME IInv, OrderShape, Calm, pending # None
    PROVE  Newest(pending)
BY DEF IInv, PendingShape, OrderShape, RequestShape, Calm

(* So no handler that waited for a checkpoint waits with it. *)
LEMMA FlushIsStored ==
    ASSUME IInv, OrderShape, Calm, NEW h \in Handlers, task[h].pc = "flush",
           task[h].rec.phase \in {"awaiting", "recovering"}
    PROVE  pending # task[h].rec
<1> SUFFICES ASSUME pending = task[h].rec PROVE FALSE
  OBVIOUS
<1>1. task[h].rec \in Incident /\ task[h].arg \in 1..Len(log) /\ Len(log) \in Nat
  BY TypeParts DEF IInv, Tasks, Data
<1>2. Newest(pending)
  BY <1>1, CandidateTurn, ApiAssumption
<1>3. task[h].arg >= task[h].rec.turn
  BY <1>1 DEF OrderShape, WaitShape, Incident
<1> QED BY <1>1, <1>2, <1>3 DEF Newest

-----------------------------------------------------------------------------
(* The actions of handlers.                                                *)

LEMMA HandlerOrder ==
    ASSUME IInv, OrderShape, NEW h \in Handlers, Ready(h), Continues(h), SameTurn,
           UNCHANGED <<log, install, store, pending, started>>,
           goal'.asg = goal.asg, count'.recordings = count.recordings,
           edges' \subseteq edges \cup {"goal", "adapters"}
    PROVE  OrderShape'
<1>1. Frame
  BY DEF Frame, SameTurn
<1> QED BY <1>1, ContinuesOrder DEF Ready

LEMMA RemoveCurrentContinues ==
    ASSUME NEW h \in Handlers, NEW r \in Incident, RemoveCurrent(h, r), pending # r
    PROVE  Continues(h) /\ pending' = pending
BY RemoveContinues DEF RemoveCurrent

LEMMA TerminalSavedOrder ==
    ASSUME IInv, OrderShape, Calm, NEW h \in Handlers, TerminalSaved(h)
    PROVE  OrderShape'
<1> DEFINE r == task[h].rec
           phase == Disposition(r, r.code)
<1>1. task[h].pc = "flush" /\ Ready(h) /\ r \in Incident /\ task[h] \in Task
  BY ReadyWhen, TaskIncident DEF TerminalSaved
<1>2. UNCHANGED <<agent, edges, log, goal, install, store, started, count>>
  BY DEF TerminalSaved, history
<1>3. pending # r
  BY <1>1, FlushIsStored DEF TerminalSaved
<1>4. Continues(h) /\ pending' = pending
  <2>1. CASE ~StillWaits(r)
    BY <2>1, ReturnContinues DEF TerminalSaved, GiveUp
  <2>2. CASE StillWaits(r) /\ log[task[h].arg] # r.code
    BY <1>1, <1>3, <2>2, RemoveCurrentContinues DEF TerminalSaved
  <2>3. CASE StillWaits(r) /\ log[task[h].arg] = r.code
    <3> DEFINE used == r.used /\ phase = "operator"
               s == [r EXCEPT !.phase = phase, !.used = used,
                         !.due = IF phase = "scheduled" THEN now + 1 ELSE None]
    <3>1. phase \in {"scheduled", "operator"} /\ used \in BOOLEAN
      BY DEF Disposition
    <3>2. now \in Nat
      BY TypeParts DEF IInv, Data
    <3>3. Put(h, "publish", s) /\ pending' = pending
      BY <2>3 DEF TerminalSaved
    <3>4. s.at = r.at /\ s.turn = r.turn /\ s.ref = r.ref
      BY <1>1 DEF Incident
    <3>5. pending = None /\ store = r /\ store # None
      BY <1>1, <1>3, <2>3, ApiAssumption DEF StillWaits, CurrentRecord
    <3> HIDE DEF phase, used
    <3>6. s \in Incident
      BY <1>1, <3>1, <3>2, TerminalType
    <3> HIDE DEF s
    <3> QED BY <1>1, <3>3, <3>4, <3>5, <3>6, PutContinues DEF Kin
  <2> QED BY <2>1, <2>2, <2>3
<1> QED BY <1>1, <1>2, <1>4, HandlerOrder DEF SameTurn

(* While the plugin runs on, a failed turn after a resume has an incident of its
   own, and what is settled here only ends. *)
LEMMA SettlementSavedOrder ==
    ASSUME IInv, OrderShape, Calm, NEW h \in Handlers, SettlementSaved(h)
    PROVE  OrderShape' /\ count' = count
<1> DEFINE r == task[h].rec
           n == task[h].arg
           ends == log[n] = None \/ ~Resolved \/ install.asg # r.ref.asg
<1>1. task[h].pc = "flush" /\ Ready(h) /\ r \in Incident /\ task[h] \in Task
  BY ReadyWhen, TaskIncident DEF SettlementSaved
<1>2. UNCHANGED <<agent, edges, log, goal, install, store, started>>
  BY DEF SettlementSaved
<1>3. pending # r
  BY <1>1, FlushIsStored DEF SettlementSaved
<1>4. Continues(h) /\ pending' = pending /\ count' = count
  <2>1. CASE ~started \/ store # r
    BY <2>1, ReturnContinues DEF SettlementSaved, GiveUp
  <2>2. CASE started /\ store = r
    <3>1. n \in 1..Len(log) /\ n > r.turn
      BY <1>1, TypeParts DEF IInv, Tasks, OrderShape, WaitShape, SettlementSaved
    <3>2. Known(r)
      BY <1>1, <2>2, ApiAssumption DEF OrderShape, ChainShape
    <3>3. install.asg \in Nat /\ r.ref.asg \in Nat /\ r.turn \in Nat
      <4>1. install.asg \in Nat
        BY TypeParts DEF IInv, Data
      <4>2. r.ref.asg \in Nat /\ r.turn \in Nat
        BY <1>1 DEF Incident
      <4> QED BY <4>1, <4>2
    <3>4. ends
      BY <3>1, <3>2, <3>3 DEF Known, Superseded
    <3>5. RemoveCurrent(h, r) /\ count' = count
      BY <2>2, <3>4 DEF SettlementSaved
    <3> QED BY <1>1, <1>3, <3>5, RemoveCurrentContinues
  <2> QED BY <2>1, <2>2
<1> QED BY <1>1, <1>2, <1>4, HandlerOrder DEF SameTurn

LEMMA PublishedOrder ==
    ASSUME IInv, OrderShape, Calm, NEW h \in Handlers, Published(h)
    PROVE  OrderShape'
<1> DEFINE r == task[h].rec
<1>1. task[h].pc = "publish" /\ Ready(h) /\ r \in Incident
  BY ReadyWhen, TaskIncident DEF Published
<1>2. Continues(h) /\ UNCHANGED <<agent, edges, log, goal, install, store, started>>
  BY ReturnContinues DEF Published, session
<1>3. count'.recordings = count.recordings
  BY CountType DEF Published, Fault, Spend, Counts
<1>4. pending' = pending
  <2>1. ASSUME pending # None PROVE pending.at # r.at
    <3>1. r.at < pending.at /\ r.at \in Nat /\ pending.at \in Nat
      BY <1>1, <2>1, TypeParts DEF IInv, Data, OrderShape, WaitShape, Incident
    <3> QED BY <3>1
  <2> QED BY <2>1 DEF Published
<1> QED BY <1>1, <1>2, <1>3, <1>4, HandlerOrder DEF SameTurn

LEMMA WriteFailedOrder ==
    ASSUME IInv, OrderShape, NEW h \in Handlers, WriteFailed(h)
    PROVE  OrderShape'
<1>1. Ready(h)
  BY ReadyWhen DEF WriteFailed
<1>2. Continues(h) /\ pending' = pending
  BY ReturnContinues DEF WriteFailed, GiveUp
<1> QED BY <1>1, <1>2, HandlerOrder DEF WriteFailed, session, SameTurn

LEMMA RemovedOrder ==
    ASSUME IInv, OrderShape, NEW h \in Handlers, Removed(h)
    PROVE  OrderShape'
<1>1. task[h].pc # "request" /\ Unqueued(h)
  BY UnqueuedWhen DEF IInv, Removed
<1>2. Continues(h)
  BY ReturnContinues DEF Removed
<1>3. Frame
  BY DEF Frame, Removed, session
<1> QED BY <1>1, <1>2, <1>3, ContinuesOrder

LEMMA EnterMaintenanceOrder ==
    ASSUME IInv, OrderShape, Calm, NEW h \in Handlers, EnterMaintenance(h)
    PROVE  OrderShape'
<1> DEFINE r == task[h].rec
           revision == IF task[h].pc = "adopt" THEN goal.rev ELSE goal.rev + 1
           used == r.used \/ r.code \in Unknown
<1>0. Data /\ agent \in Agents
  BY TypeParts DEF IInv
<1>1. /\ task[h].pc \in {"enter", "adopt"} /\ r \in Incident /\ task[h] \in Task
      /\ Unqueued(h)
  BY TaskIncident, UnqueuedWhen DEF EnterMaintenance, IInv, PutWaits, RemoveWaits
<1>2. pending = None
  <2>1. agent.claim = h
    BY <1>1 DEF IInv, ClaimShape, Claiming
  <2>2. agent.status = "idle"
    BY <2>1, ApiAssumption DEF IInv, ClaimShape
  <2> QED BY <2>2, IdleNoCandidate
<1>3. UNCHANGED <<log, install, store, pending, started, count>>
  BY DEF EnterMaintenance, session
<1>4. goal'.asg = goal.asg /\ edges' \subseteq edges \cup {"goal"}
  BY <1>0 DEF EnterMaintenance, Data
<1>5. SameTurn
  BY <1>0 DEF EnterMaintenance, SameTurn, Agents
<1>6. Continues(h)
  <2>1. CASE ~started
    BY <2>1, ReturnContinues DEF EnterMaintenance
  <2>2. CASE started /\ ~StillExact(h, r)
    BY <1>1, <2>2, RemoveContinues DEF EnterMaintenance
  <2>3. CASE started /\ StillExact(h, r)
    <3> DEFINE s == [r EXCEPT !.phase = "recovering", !.due = None,
                              !.resumed = revision, !.used = used]
    <3>1. Put(h, "resumed", s)
      BY <2>3 DEF EnterMaintenance
    <3>2. used \in BOOLEAN /\ revision \in Nat
      BY <1>0 DEF Data
    <3>3. s.at = r.at /\ s.turn = r.turn /\ s.ref = r.ref
      BY <1>1 DEF Incident
    <3>4. store = r /\ store # None
      BY <1>1, <2>3, ApiAssumption DEF StillExact
    <3> HIDE DEF revision, used
    <3>5. s \in Incident
      BY <1>1, <3>2, ResumedType
    <3> HIDE DEF s
    <3> QED BY <1>1, <1>2, <3>1, <3>3, <3>4, <3>5, PutContinues DEF Kin
  <2> QED BY <2>1, <2>2, <2>3 DEF EnterMaintenance
<1>7. Frame
  BY <1>3, <1>4, <1>5 DEF Frame, SameTurn
<1> QED BY <1>1, <1>6, <1>7, ContinuesOrder

LEMMA LeaveMaintenanceOrder ==
    ASSUME IInv, OrderShape, NEW h \in Handlers, LeaveMaintenance(h)
    PROVE  OrderShape'
<1>1. task[h].pc # "request" /\ Unqueued(h)
  BY UnqueuedWhen DEF IInv, LeaveMaintenance
<1>2. Continues(h)
  BY ReturnContinues DEF LeaveMaintenance
<1>3. agent \in Agents /\ count'.recordings = count.recordings
  BY TypeParts, CountType DEF IInv, LeaveMaintenance, Fault, Spend, Counts
<1>4. Frame
  BY <1>3 DEF Frame, LeaveMaintenance, Agents
<1> QED BY <1>1, <1>2, <1>4, ContinuesOrder

LEMMA TimerOrder ==
    ASSUME IInv, OrderShape, Calm, NEW h \in Handlers,
           TimerFires(h) \/ Rescheduled(h) \/ OperatorWhenIdle(h)
    PROVE  OrderShape'
<1>1. Ready(h)
  BY ReadyWhen DEF TimerFires, Rescheduled, OperatorWhenIdle, Free
<1>2. Continues(h) /\ SameTurn
  <2>1. CASE TimerFires(h)
    <3>1. timer \in Incident
      BY <2>1, TypeParts DEF IInv, Data, TimerFires
    <3> QED BY <2>1, <3>1, ResumeScheduledContinues DEF TimerFires
  <2>2. CASE Rescheduled(h)
    BY <2>2, TaskIncident, ResumeScheduledContinues DEF Rescheduled
  <2>3. CASE OperatorWhenIdle(h)
    BY <2>3, TaskIncident, ResumeOperatorContinues DEF OperatorWhenIdle
  <2> QED BY <2>1, <2>2, <2>3
<1> QED BY <1>1, <1>2, HandlerOrder DEF TimerFires, Rescheduled, OperatorWhenIdle, session

LEMMA EdgeOrder ==
    ASSUME IInv, OrderShape, Calm, NEW h \in Handlers, Edge(h)
    PROVE  OrderShape'
<1>1. Ready(h) /\ task[h].pc = "free" /\ edges' \subseteq edges
  BY ReadyWhen DEF Edge, IdleEdge, AdapterPass, Reconcile, Free
<1>2. Continues(h) /\ SameTurn /\ pending' = pending
  <2>1. CASE IdleEdge(h)
    BY <2>1, AgentReadyContinues DEF IdleEdge
  <2>2. CASE Reconcile(h)
    BY <2>2, AgentReadyContinues, StaysContinues DEF Reconcile
  <2>3. CASE AdapterPass(h)
    <3> DEFINE none == pending # None \/ store = None \/ ~agent.up
    <3>0. agent \in Agents /\ task \in [Handlers -> Task]
      BY TypeParts DEF IInv, Tasks
    <3>1. CASE none
      BY <2>3, <3>1, StaysContinues DEF AdapterPass
    <3>2. CASE ~none /\ agent.status # "idle" /\ store.phase = "operator"
      <4> DEFINE t == At("whenIdle", store, 0, FALSE)
      <4>1. /\ task' = [task EXCEPT ![h] = t]
            /\ UNCHANGED <<agent, queue, pending>>
        BY <2>3, <3>2 DEF AdapterPass
      <4>2. t \in Task
        BY <3>2, AtTask, TypeParts DEF IInv, Data
      <4>3. t.pc = "whenIdle"
        BY DEF At
      <4> HIDE DEF t
      <4> QED BY <4>1, <4>2, <4>3 DEF Continues, SameTurn
    <3>3. CASE ~none /\ agent.status # "idle" /\ store.phase # "operator"
      <4>1. /\ agent' = [agent EXCEPT !.awaited = TRUE]
            /\ UNCHANGED <<task, queue, pending>>
        BY <2>3, <3>3 DEF AdapterPass
      <4>2. task' = [task EXCEPT ![h] = task[h]] /\ task[h] \in Task
        BY <3>0, <4>1
      <4> QED BY <1>1, <3>0, <4>1, <4>2 DEF Continues, SameTurn, Agents
    <3>4. CASE ~none /\ agent.status = "idle" /\ store.phase = "operator"
      <4>1. store \in Incident
        BY <3>4, TypeParts DEF IInv, Data
      <4> QED BY <2>3, <3>4, <4>1, ResumeOperatorContinues DEF AdapterPass
    <3>5. CASE ~none /\ agent.status = "idle" /\ store.phase # "operator"
      BY <2>3, <3>5, AgentReadyContinues DEF AdapterPass
    <3> QED BY <3>1, <3>2, <3>3, <3>4, <3>5
  <2> QED BY <2>1, <2>2, <2>3 DEF Edge
<1>3. UNCHANGED <<log, install, store, started, goal, count>>
  BY DEF Edge, IdleEdge, AdapterPass, Reconcile, session
<1> QED BY <1>1, <1>2, <1>3, HandlerOrder

LEMMA AdaptersUpdatedOrder ==
    ASSUME IInv, OrderShape, NEW h \in Handlers, AdaptersUpdated(h)
    PROVE  OrderShape'
<1>1. Ready(h)
  BY ReadyWhen DEF AdaptersUpdated, Free
<1>2. Continues(h) /\ SameTurn
  BY ReconcileTurnContinues, StaysContinues DEF AdaptersUpdated
<1>3. count'.recordings = count.recordings
  BY CountType DEF AdaptersUpdated, Spend, Counts
<1> QED BY <1>1, <1>2, <1>3, HandlerOrder DEF AdaptersUpdated, session

-----------------------------------------------------------------------------
(* The request error, its record, the end of the turn and the queue.       *)

LEMMA QueuedRecords ==
    ASSUME IInv
    PROVE  \A i \in 1..Len(queue) : queue[i].by \in Handlers /\ queue[i].rec \in Incident
<1> SUFFICES ASSUME NEW i \in 1..Len(queue)
             PROVE  queue[i].by \in Handlers /\ queue[i].rec \in Incident
  OBVIOUS
<1>1. queue[i] \in Operations
  BY TypeParts DEF IInv, Tasks
<1> QED BY <1>1 DEF Operations

LEMMA RequestRecordedOrder ==
    ASSUME IInv, OrderShape, Calm, NEW h \in Handlers, RequestRecorded(h)
    PROVE  OrderShape'
<1>0. /\ task \in [Handlers -> Task] /\ PendingShape
      /\ RuntimeShape /\ RequestShape /\ WaitShape /\ ChainShape /\ FailShape
  BY TypeParts DEF IInv, Tasks, OrderShape
<1>1. /\ task[h].pc = "request" /\ task[h].result = "ok" /\ pending = task[h].rec
      /\ Unqueued(h)
  <2>1. task[h].pc = "request" /\ task[h].result # "none"
    BY DEF RequestRecorded
  <2>2. task[h].result \in {"none", "ok", "failed"}
    BY <1>0 DEF Task
  <2> QED BY <1>0, <2>1, <2>2, UnqueuedWhen DEF IInv, PendingShape, Calm, RequestShape
<1>2. /\ UNCHANGED <<agent, edges, log, goal, install, store, queue, started, count>>
      /\ task' = [task EXCEPT ![h] = Idle] /\ pending' = None
  BY <1>1 DEF RequestRecorded, session
<1>3. /\ task'[h] = Idle /\ Idle.pc = "free"
      /\ \A i \in Handlers \ {h} : task'[i] = task[i] /\ task[i].pc # "request"
  BY <1>0, <1>1, <1>2, IdleTask DEF RequestShape
<1>4. \A i \in Handlers : task'[i].pc # "request"
  BY <1>3
<1>5. \A i \in 1..Len(queue) : ~OfRequest(i) /\ ~OfRequest(i)'
  BY <1>1, <1>2, <1>3, QueuedRecords DEF OfRequest, Unqueued
<1>6. RuntimeShape' /\ RequestShape'
  BY <1>0, <1>2, <1>4 DEF RuntimeShape, RequestShape
<1>7. WaitShape'
  BY <1>0, <1>2, <1>3 DEF WaitShape
<1>8. ChainShape'
  BY <1>0, <1>2, <1>5 DEF ChainShape, Writes, Known, Kin, Superseded, Resolved
<1>9. FailShape'
  BY <1>0, <1>1, <1>2, <1>3 DEF FailShape, Writes, Covered, Superseded
<1> QED BY <1>6, <1>7, <1>8, <1>9 DEF OrderShape

LEMMA EndTurnOrder ==
    ASSUME IInv, OrderShape, Calm, NEW h \in Handlers, EndTurn(h)
    PROVE  OrderShape'
<1>0. /\ Data /\ task \in [Handlers -> Task] /\ agent \in Agents /\ PendingShape
      /\ RuntimeShape /\ RequestShape /\ WaitShape /\ ChainShape /\ FailShape
  BY TypeParts DEF IInv, Tasks, OrderShape
<1>1. /\ UNCHANGED <<install, store, queue, pending, started, count>>
      /\ edges' = edges \cup {"idle"} /\ agent'.status = "idle" /\ agent'.fault = None
      /\ agent'.up = agent.up /\ goal'.asg = goal.asg
  BY <1>0 DEF EndTurn, Agents, Data
<1>2. \A i \in Handlers : task[i].pc # "request"
  BY DEF EndTurn
<1>3. pending = None
  BY <1>0, <1>2 DEF PendingShape, Calm
<1>4. /\ Len(log) \in Nat /\ Len(log') = Len(log) + 1
      /\ \A t \in 1..Len(log) : log'[t] = log[t]
      /\ log'[Len(log) + 1] = agent.fault
  <2>1. log \in Seq(Codes \cup {None}) /\ agent.fault \in Codes \cup {None}
    BY <1>0 DEF Data, Agents
  <2> QED BY <2>1 DEF EndTurn
<1>5. PICK t \in Task :
        /\ task' = [task EXCEPT ![h] = t] /\ t.pc \notin {"request", "publish"}
        /\ t.pc = "flush" =>
              /\ t.rec.phase = "awaiting" => t.arg = t.rec.turn
              /\ t.rec.phase = "recovering" => t.arg > t.rec.turn
  <2>1. CASE task' = [task EXCEPT ![h] = Idle]
    BY <2>1, IdleTask
  <2>2. CASE /\ \/ IsPhase(CurrentRecord, "recovering") /\ Len(log) + 1 > CurrentRecord.turn
                \/ IsPhase(CurrentRecord, "awaiting") /\ Len(log) + 1 = CurrentRecord.turn
             /\ task' = [task EXCEPT ![h] = At("flush", CurrentRecord, Len(log) + 1, FALSE)]
    <3> DEFINE t == At("flush", CurrentRecord, Len(log) + 1, FALSE)
    <3>1. CurrentRecord \in Incident
      BY <1>0, <2>2 DEF Data, CurrentRecord, IsPhase
    <3>2. t \in Task
      <4>1. Len(log) + 1 \in Nat
        BY <1>4
      <4> QED BY <3>1, <4>1, AtTask
    <3>3. t.pc = "flush" /\ t.rec = CurrentRecord /\ t.arg = Len(log) + 1
      BY DEF At
    <3> HIDE DEF t
    <3> QED BY <2>2, <3>2, <3>3 DEF IsPhase, t
  <2> QED BY <2>1, <2>2 DEF EndTurn, TurnEndHandler
<1>6. /\ task'[h] = t /\ \A i \in Handlers \ {h} : task'[i] = task[i]
      /\ \A i \in Handlers : task'[i].pc # "request"
  BY <1>0, <1>2, <1>5
<1>7. \A i \in 1..Len(queue) : ~OfRequest(i) /\ ~OfRequest(i)'
  BY <1>1, <1>2, <1>6, QueuedRecords DEF OfRequest
<1>8. ASSUME NEW r \in Incident, Known(r), agent.status = "failing" => Covered(r)
      PROVE  Known(r)'
  <2>1. r.turn \in Nat
    BY DEF Incident
  <2>2. ASSUME NEW n \in 1..Len(log'), r.turn < n, log'[n] # None
        PROVE  Superseded(r)'
    <3>1. CASE n \in 1..Len(log)
      BY <1>1, <1>4, <1>8, <2>2, <3>1 DEF Known, Superseded
    <3>2. CASE n = Len(log) + 1
      <4>1. agent.status = "failing"
        BY <1>0, <1>4, <2>2, <3>2 DEF RuntimeShape
      <4> QED BY <1>1, <1>4, <1>8, <2>1, <2>2, <3>2, <4>1 DEF Covered, Superseded
    <3> QED BY <1>4, <3>1, <3>2
  <2> QED BY <1>1, <1>4, <1>8, <2>1, <2>2 DEF Known, Superseded, Resolved
<1>9. RuntimeShape' /\ RequestShape' /\ FailShape'
  BY <1>0, <1>1, <1>6 DEF RuntimeShape, RequestShape, FailShape
<1>10. WaitShape'
  BY <1>0, <1>1, <1>3, <1>5, <1>6 DEF WaitShape
<1>11. ChainShape'
  <2>1. agent.status = "failing" =>
          /\ store # None => Covered(store)
          /\ \A i \in Writes : Covered(queue[i].rec)
    BY <1>0, <1>2 DEF FailShape
  <2>2. ASSUME store # None PROVE Known(store)'
    <3>1. PICK r \in Incident : r = store
      BY <1>0, <2>2 DEF Data
    <3>2. Known(r)'
      BY <1>0, <1>8, <2>1, <2>2, <3>1 DEF ChainShape
    <3> QED BY <1>1, <3>1, <3>2 DEF Known, Superseded
  <2>3. ASSUME NEW i \in Writes PROVE Known(queue[i].rec)'
    <3>1. PICK r \in Incident : r = queue[i].rec
      BY <2>3, QueuedRecords DEF Writes
    <3>2. Known(r)'
      BY <1>0, <1>8, <2>1, <3>1 DEF ChainShape
    <3> QED BY <1>1, <3>1, <3>2 DEF Known, Superseded
  <2>4. Writes' = Writes
    BY <1>1 DEF Writes
  <2>5. \A i \in Writes : ~OfRequest(i) /\ ~OfRequest(i)'
    BY <1>7 DEF Writes
  <2> QED BY <1>0, <1>1, <2>2, <2>3, <2>4, <2>5 DEF ChainShape, Kin
<1> QED BY <1>9, <1>10, <1>11 DEF OrderShape

LEMMA RequestErrorOrder ==
    ASSUME IInv, OrderShape, Calm, NEW h \in Handlers, NEW code \in Codes,
           RequestError(h, code)
    PROVE  OrderShape'
<1>0. /\ Data /\ task \in [Handlers -> Task] /\ agent \in Agents /\ PendingShape
      /\ RuntimeShape /\ RequestShape /\ WaitShape /\ ChainShape /\ FailShape
      /\ queue \in Seq(Operations) /\ count \in Counts /\ TurnFits
  BY TypeParts DEF IInv, Tasks, OrderShape, Data
<1>1. Ready(h) /\ task[h].pc = "free" /\ agent.status = "running"
  BY ReadyWhen DEF RequestError, Free
<1>2. /\ UNCHANGED <<edges, log, goal, install, store, started>>
      /\ agent'.status = "failing" /\ agent'.up = agent.up
  BY <1>0 DEF RequestError, session, Agents
<1>3. \A i \in Handlers : task[i].pc # "request"
  BY <1>0, <1>1 DEF PendingShape
<1>4. \A i \in 1..Len(queue) : ~OfRequest(i)
  BY <1>3, QueuedRecords DEF OfRequest
<1>5. RuntimeShape'
  BY <1>0, <1>2 DEF RuntimeShape
<1>6. CASE ~(started /\ Resolved)
  <2>1. UNCHANGED <<count, pending, queue, task>>
    BY <1>6 DEF RequestError
  <2>2. RequestShape' /\ WaitShape'
    BY <1>0, <1>2, <2>1 DEF RequestShape, WaitShape, Newest
  <2>3. ChainShape'
    BY <1>0, <1>2, <2>1 DEF ChainShape, Writes, OfRequest, Known, Newest, Kin,
                            Superseded, Resolved
  <2>4. \A r \in Incident : Known(r) => Superseded(r)
    <3>1. ~Resolved /\ install.asg \in Nat
      BY <1>0, <1>6 DEF RuntimeShape, Data
    <3>2. \A r \in Incident : r.ref.asg \in Nat
      BY DEF Incident
    <3> QED BY <3>1, <3>2 DEF Known, Superseded
  <2>5. /\ store # None => Superseded(store)
        /\ \A i \in Writes : Superseded(queue[i].rec)
    BY <1>0, <2>4, QueuedRecords DEF ChainShape, Writes, Data
  <2>6. FailShape'
    BY <1>2, <2>1, <2>5 DEF FailShape, Covered, Superseded, Writes
  <2> QED BY <1>5, <2>2, <2>3, <2>6 DEF OrderShape
<1>7. CASE started /\ Resolved
  <2> DEFINE a == Awaiting(Len(log) + 1, code, CarriesFallback(CurrentRecord, code),
                           count.recordings + 1)
  <2>1. /\ count' = Spend("recordings") /\ pending' = a
        /\ Put(h, "request", a)
    BY <1>7 DEF RequestError
  <2>2. count'.recordings = count.recordings + 1 /\ count.recordings \in Nat
    BY <1>0, <2>1 DEF Spend, Counts
  <2>3. a \in Incident
    <3>1. Len(log) + 1 \in 1..MaxTurns
      BY <1>0, <1>1, ApiAssumption DEF TurnFits, Data
    <3>2. CarriesFallback(CurrentRecord, code) \in BOOLEAN
      BY DEF CarriesFallback, IsPhase
    <3>3. Reference \in [asg : Nat, rev : Nat] /\ count.recordings + 1 \in Nat
      BY <1>0, <2>2 DEF Data, Reference
    <3> QED BY <3>1, <3>2, <3>3 DEF Awaiting, Incident
  <2>4. PICK r \in Incident :
          /\ r = a
          /\ r.at = count.recordings + 1 /\ r.turn = Len(log) + 1
          /\ r.ref = Reference /\ FitsSchema(r)
    BY <2>3 DEF Awaiting, FitsSchema
  <2> HIDE DEF a
  <2> DEFINE t == At("request", r, 0, task[h].busy)
  <2>5. t \in Task /\ t.pc = "request" /\ t.rec = r /\ t.result = "none"
    <3>1. task[h].busy \in BOOLEAN
      BY <1>0 DEF Task
    <3> QED BY <3>1, AtTask DEF At
  <2>6. /\ task' = [task EXCEPT ![h] = t]
        /\ queue' = Append(queue, [kind |-> "put", by |-> h, rec |-> r])
    BY <2>1, <2>4 DEF Put, Enqueue
  <2> HIDE DEF t
  <2>7. /\ task'[h] = t /\ \A i \in Handlers \ {h} : task'[i] = task[i]
    BY <1>0, <2>5, <2>6
  <2>8. PICK n \in 1..Len(queue') :
          /\ n = Len(queue) + 1 /\ Len(queue') = n /\ Len(queue) \in Nat
          /\ queue'[n] = [kind |-> "put", by |-> h, rec |-> r]
          /\ \A i \in 1..Len(queue) : queue'[i] = queue[i]
    BY <1>0, <2>6
  <2>9. /\ Writes' = Writes \cup {n} /\ \A i \in Writes : i < n /\ queue'[i] = queue[i]
        /\ queue'[n].rec = r
    BY <2>8 DEF Writes
  <2>10. OfRequest(n)' /\ \A i \in Writes : ~OfRequest(i) /\ ~OfRequest(i)'
    <3>1. \A i \in Writes : queue[i].by \in Handlers /\ queue[i].by # h
      BY <1>1, QueuedRecords DEF Ready, Unqueued, Writes
    <3>2. \A i \in Writes : ~OfRequest(i)
      BY <1>4 DEF Writes
    <3>3. queue'[n].by = h
      BY <2>8
    <3> QED BY <2>5, <2>7, <2>9, <3>1, <3>2, <3>3 DEF OfRequest
  <2>11. \A q \in Incident : Known(q) => Known(q)'
    <3>1. \A q \in Incident : q.at \in Nat
      BY DEF Incident
    <3> QED BY <1>2, <2>2, <3>1 DEF Known, Superseded, Resolved
  <2>12. Known(r)' /\ Newest(r)'
    BY <1>0, <1>2, <1>7, <2>2, <2>4
       DEF Known, Newest, Superseded, Resolved, Reference, Data
  <2>13. RequestShape'
    BY <1>3, <2>1, <2>4, <2>5, <2>7, <2>12 DEF RequestShape, Newest
  <2>14. WaitShape'
    <3>1. ASSUME NEW i \in Handlers, task[i].pc = "publish"
          PROVE  task[i].rec.at \in Nat /\ task[i].rec.at <= count.recordings
      BY <1>0, <3>1, TaskIncident DEF WaitShape, Incident
    <3> QED BY <1>0, <1>1, <2>1, <2>2, <2>4, <2>5, <2>7, <3>1 DEF WaitShape
  <2>15. ChainShape'
    <3>1. store # None => Known(store)'
      <4> SUFFICES ASSUME store # None PROVE Known(store)'
        OBVIOUS
      <4>1. PICK q \in Incident : q = store
        BY <1>0 DEF Data
      <4>2. Known(q)'
        BY <1>0, <2>11, <4>1 DEF ChainShape
      <4> QED BY <1>2, <4>1, <4>2 DEF Known, Superseded
    <3>2. ASSUME NEW i \in Writes PROVE Known(queue[i].rec)'
      <4>1. PICK q \in Incident : q = queue[i].rec
        BY QueuedRecords DEF Writes
      <4>2. Known(q)'
        BY <1>0, <2>11, <4>1 DEF ChainShape
      <4> QED BY <2>9, <4>1, <4>2 DEF Known, Superseded
    <3>3. Known(queue[n].rec)' /\ Newest(queue[n].rec)'
      BY <2>9, <2>12 DEF Known, Newest, Superseded
    <3>4. \A i \in Writes' : i <= n
      BY <2>8, <2>9 DEF Writes
    <3> QED BY <1>0, <1>2, <2>9, <2>10, <3>1, <3>2, <3>3, <3>4 DEF ChainShape, Kin
  <2>16. FailShape'
    BY <2>5, <2>7 DEF FailShape
  <2> QED BY <1>5, <2>13, <2>14, <2>15, <2>16 DEF OrderShape
<1> QED BY <1>6, <1>7

(* What the head of the queue is. *)
LEMMA HeadOfQueue ==
    ASSUME IInv, Commit
    PROVE  /\ 1 \in 1..Len(queue) /\ Head(queue) = queue[1]
           /\ queue[1].by \in Handlers /\ queue[1].rec \in Incident
           /\ queue[1].kind \in {"put", "remove"}
           /\ Len(queue) \in Nat /\ Len(queue') = Len(queue) - 1
           /\ \A i \in 1..Len(queue') : i + 1 \in 1..Len(queue) /\ queue'[i] = queue[i + 1]
<1>1. queue \in Seq(Operations) /\ queue # <<>> /\ queue' = Tail(queue)
  BY TypeParts DEF IInv, Tasks, Commit
<1>2. /\ 1 \in 1..Len(queue) /\ Head(queue) = queue[1] /\ queue[1] \in Operations
      /\ Len(queue) \in Nat /\ Len(queue') = Len(queue) - 1
      /\ \A i \in 1..Len(queue') : i + 1 \in 1..Len(queue) /\ queue'[i] = queue[i + 1]
  BY <1>1
<1> QED BY <1>2 DEF Operations

LEMMA CommitOrder ==
    ASSUME IInv, OrderShape, Calm, Commit, Calm'
    PROVE  OrderShape'
<1> DEFINE h == queue[1].by
<1>0. /\ Data /\ task \in [Handlers -> Task] /\ QueueShape
      /\ RuntimeShape /\ RequestShape /\ WaitShape /\ ChainShape /\ FailShape
  BY TypeParts DEF IInv, Tasks, OrderShape
<1>1. /\ 1 \in 1..Len(queue) /\ Head(queue) = queue[1]
      /\ h \in Handlers /\ queue[1].rec \in Incident
      /\ queue[1].kind \in {"put", "remove"}
      /\ Len(queue) \in Nat /\ Len(queue') = Len(queue) - 1
      /\ \A i \in 1..Len(queue') : i + 1 \in 1..Len(queue) /\ queue'[i] = queue[i + 1]
  BY HeadOfQueue
<1>2. /\ UNCHANGED <<agent, edges, log, goal, install, pending, started>>
  BY DEF Commit, session
<1>3. PICK v \in {"ok", "failed"} :
        /\ task' = [task EXCEPT ![h].result = v]
        /\ count' = count
        /\ \/ queue[1].kind = "put" /\ store' = queue[1].rec
           \/ queue[1].kind = "remove" /\ store' \in {store, None}
  <2>1. ASSUME Fault PROVE FALSE
    <3>1. count' = Spend("faults") /\ count \in Counts
      BY <1>0, <2>1 DEF Data, Fault
    <3>2. count'.faults > 0
      BY <3>1, SpendType
    <3> QED BY <3>2 DEF Calm
  <2> QED BY <1>1, <2>1 DEF Commit
<1>4. /\ \A i \in Handlers : task'[i].pc = task[i].pc /\ task'[i].rec = task[i].rec
                             /\ task'[i].arg = task[i].arg
      /\ \A i \in Handlers \ {h} : task'[i].result = task[i].result
  BY <1>0, <1>1, <1>3 DEF Task
<1>5. RuntimeShape' /\ RequestShape' /\ WaitShape'
  BY <1>0, <1>2, <1>3, <1>4 DEF RuntimeShape, RequestShape, WaitShape, Newest
<1>6. \A i \in 1..Len(queue) : queue[i].by \in Handlers /\ queue[i].rec \in Incident
  BY QueuedRecords
<1>7. \A i \in Writes' : /\ i \in 1..Len(queue') /\ i + 1 \in Writes /\ queue'[i] = queue[i + 1]
                         /\ OfRequest(i)' <=> OfRequest(i + 1)
  BY <1>1, <1>4, <1>6 DEF Writes, OfRequest
<1>8. \A r \in Incident : (Known(r) => Known(r)') /\ (Covered(r) => Covered(r)')
  BY <1>2, <1>3 DEF Known, Covered, Superseded, Resolved
<1>9. ASSUME NEW i \in Writes'
      PROVE  /\ Known(queue[i].rec)'
             /\ Covered(queue[i + 1].rec) => Covered(queue[i].rec)'
  <2>1. PICK r \in Incident : r = queue[i + 1].rec
    BY <1>6, <1>7 DEF Writes
  <2>2. Known(r)' /\ (Covered(r) => Covered(r)')
    BY <1>0, <1>7, <1>8, <2>1 DEF ChainShape
  <2>3. queue'[i].rec = r
    BY <1>7, <2>1
  <2> QED BY <2>1, <2>2, <2>3 DEF Known, Covered, Superseded
<1>10. ASSUME queue[1].kind = "put", store' = queue[1].rec
       PROVE  ChainShape' /\ FailShape'
  <2>1. 1 \in Writes
    BY <1>1, <1>10 DEF Writes
  <2>2. PICK r \in Incident : r = queue[1].rec
    BY <1>1
  <2>3. Known(r)' /\ Known(store)'
    <3>1. Known(r)'
      BY <1>0, <1>8, <2>1, <2>2 DEF ChainShape
    <3> QED BY <1>10, <2>2, <3>1 DEF Known, Superseded
  <2>4. CASE OfRequest(1)
    <3>1. Writes' = {}
      <4> SUFFICES ASSUME NEW i \in Writes' PROVE FALSE
        OBVIOUS
      <4>1. i + 1 \in Writes /\ i \in 1..Len(queue')
        BY <1>7
      <4>2. i + 1 <= 1
        BY <1>0, <2>1, <2>4, <4>1 DEF ChainShape
      <4> QED BY <4>1, <4>2
    <3>2. ChainShape'
      BY <2>3, <3>1 DEF ChainShape
    <3>3. Covered(store)'
      BY <1>0, <1>2, <1>10, <2>1, <2>4 DEF ChainShape, Newest, Covered
    <3> QED BY <3>1, <3>2, <3>3 DEF FailShape
  <2>5. CASE ~OfRequest(1)
    <3>1. ChainShape'
      <4>1. ASSUME NEW i \in Writes', OfRequest(i)'
            PROVE  Newest(queue[i].rec)' /\ \A j \in Writes' : j <= i
        <5>1. Newest(queue[i + 1].rec) /\ \A j \in Writes : j <= i + 1
          BY <1>0, <1>7, <4>1 DEF ChainShape
        <5>2. Newest(queue[i].rec)'
          BY <1>2, <1>3, <1>7, <5>1 DEF Newest
        <5>3. \A j \in Writes' : j <= i
          BY <1>7, <5>1
        <5> QED BY <5>2, <5>3
      <4>2. ASSUME NEW i \in Writes', ~OfRequest(i)'
            PROVE  /\ Kin(queue'[i].rec, store')
                   /\ \A j \in Writes' : ~OfRequest(j)' => Kin(queue'[i].rec, queue'[j].rec)
        <5>1. ~OfRequest(i + 1) /\ i + 1 \in Writes
          BY <1>7, <4>2
        <5>2. \A j \in Writes : ~OfRequest(j) => Kin(queue[i + 1].rec, queue[j].rec)
          BY <1>0, <5>1 DEF ChainShape
        <5> QED BY <1>7, <1>10, <2>1, <2>5, <5>2
      <4> QED BY <1>9, <2>3, <4>1, <4>2 DEF ChainShape, Kin
    <3>2. FailShape'
      <4> SUFFICES ASSUME agent'.status = "failing" PROVE FailShape'
        BY DEF FailShape
      <4>1. CASE \E i \in Handlers : task[i].pc = "request" /\ task[i].result = "none"
        <5>1. PICK i \in Handlers : task[i].pc = "request" /\ task[i].result = "none"
          BY <4>1
        <5>2. i # h
          BY <2>5, <5>1 DEF OfRequest
        <5> QED BY <1>4, <5>1, <5>2 DEF FailShape
      <4>2. CASE \A i \in Writes : Covered(queue[i].rec)
        <5>1. Covered(r)'
          BY <1>8, <2>1, <2>2, <4>2
        <5>2. Covered(store)'
          BY <1>10, <2>2, <5>1 DEF Covered, Superseded
        <5> QED BY <1>7, <1>9, <4>2, <5>2 DEF FailShape
      <4> QED BY <1>0, <1>2, <4>1, <4>2 DEF FailShape
    <3> QED BY <3>1, <3>2
  <2> QED BY <2>4, <2>5
<1>11. ASSUME queue[1].kind = "remove", store' \in {store, None}
       PROVE  ChainShape' /\ FailShape'
  <2>1. store' # None => /\ store' = store
                         /\ Known(store)' /\ (Covered(store) => Covered(store)')
    <3> SUFFICES ASSUME store' # None
                 PROVE  /\ store' = store
                        /\ Known(store)' /\ (Covered(store) => Covered(store)')
      OBVIOUS
    <3>1. store' = store
      BY <1>11
    <3>2. PICK r \in Incident : r = store
      BY <1>0, <3>1 DEF Data
    <3>3. Known(r)' /\ (Covered(r) => Covered(r)')
      BY <1>0, <1>8, <3>1, <3>2 DEF ChainShape
    <3> QED BY <3>1, <3>2, <3>3 DEF Known, Covered, Superseded
  <2>2. ChainShape'
    <3>1. ASSUME NEW i \in Writes', OfRequest(i)'
          PROVE  Newest(queue[i].rec)' /\ \A j \in Writes' : j <= i
      <4>1. Newest(queue[i + 1].rec) /\ \A j \in Writes : j <= i + 1
        BY <1>0, <1>7, <3>1 DEF ChainShape
      <4>2. Newest(queue[i].rec)'
        BY <1>2, <1>3, <1>7, <4>1 DEF Newest
      <4>3. \A j \in Writes' : j <= i
        BY <1>7, <4>1
      <4> QED BY <4>2, <4>3
    <3>2. ASSUME NEW i \in Writes', ~OfRequest(i)'
          PROVE  /\ store' # None => Kin(queue'[i].rec, store')
                 /\ \A j \in Writes' : ~OfRequest(j)' => Kin(queue'[i].rec, queue'[j].rec)
      <4>1. ~OfRequest(i + 1) /\ i + 1 \in Writes
        BY <1>7, <3>2
      <4>2. /\ store # None => Kin(queue[i + 1].rec, store)
            /\ \A j \in Writes : ~OfRequest(j) => Kin(queue[i + 1].rec, queue[j].rec)
        BY <1>0, <4>1 DEF ChainShape
      <4> QED BY <1>7, <2>1, <4>2
    <3> QED BY <1>9, <2>1, <3>1, <3>2 DEF ChainShape, Kin
  <2>3. FailShape'
    <3> SUFFICES ASSUME agent'.status = "failing" PROVE FailShape'
      BY DEF FailShape
    <3>1. CASE \E i \in Handlers : task[i].pc = "request" /\ task[i].result = "none"
      <4>1. PICK i \in Handlers : task[i].pc = "request" /\ task[i].result = "none"
        BY <3>1
      <4>2. i # h
        BY <1>0, <1>1, <1>11, <4>1 DEF QueueShape, Waits, RemoveWaits
      <4> QED BY <1>4, <4>1, <4>2 DEF FailShape
    <3>2. CASE /\ store # None => Covered(store)
               /\ \A i \in Writes : Covered(queue[i].rec)
      BY <1>7, <1>9, <2>1, <3>2 DEF FailShape
    <3> QED BY <1>0, <1>2, <3>1, <3>2 DEF FailShape
  <2> QED BY <2>2, <2>3
<1> QED BY <1>3, <1>5, <1>10, <1>11 DEF OrderShape

-----------------------------------------------------------------------------
(* The Runtime around the recovery.                                        *)

LEMMA RuntimeOrder ==
    ASSUME IInv, OrderShape, RuntimeShape',
           UNCHANGED <<task, queue, log, store, pending>>,
           count'.recordings = count.recordings,
           agent'.status = "failing" => agent.status = "failing",
           install'.asg \in Nat, install'.asg >= install.asg,
           install'.asg = install.asg /\ Resolved => Resolved'
    PROVE  OrderShape'
<1>0. /\ Data /\ RequestShape /\ WaitShape /\ ChainShape /\ FailShape
      /\ install.asg \in Nat
  BY TypeParts DEF IInv, OrderShape, Data
<1>1. RequestShape' /\ WaitShape'
  BY <1>0 DEF RequestShape, WaitShape, Newest
<1>2. \A r \in Incident : r.ref.asg \in Nat
  BY DEF Incident
<1>3. \A r \in Incident : (Known(r) => Known(r)') /\ (Covered(r) => Covered(r)')
  BY <1>0, <1>2 DEF Known, Covered, Superseded
<1>4. \A i \in 1..Len(queue) : OfRequest(i)' <=> OfRequest(i)
  BY DEF OfRequest
<1>5. store # None => /\ Known(store)'
                      /\ Covered(store) => Covered(store)'
  <2> SUFFICES ASSUME store # None
               PROVE  Known(store)' /\ (Covered(store) => Covered(store)')
    OBVIOUS
  <2>1. PICK r \in Incident : r = store
    BY <1>0 DEF Data
  <2>2. Known(r)' /\ (Covered(r) => Covered(r)')
    BY <1>0, <1>3, <2>1 DEF ChainShape
  <2> QED BY <2>1, <2>2 DEF Known, Covered, Superseded
<1>6. ASSUME NEW i \in Writes
      PROVE  Known(queue[i].rec)' /\ (Covered(queue[i].rec) => Covered(queue[i].rec)')
  <2>1. PICK r \in Incident : r = queue[i].rec
    BY QueuedRecords DEF Writes
  <2>2. Known(r)' /\ (Covered(r) => Covered(r)')
    BY <1>0, <1>3, <2>1 DEF ChainShape
  <2> QED BY <2>1, <2>2 DEF Known, Covered, Superseded
<1>7. Writes' = Writes /\ Writes \subseteq 1..Len(queue)
  BY DEF Writes
<1>8. ChainShape'
  BY <1>0, <1>4, <1>5, <1>6, <1>7 DEF ChainShape, Kin, Newest
<1>9. FailShape'
  BY <1>0, <1>5, <1>6, <1>7 DEF FailShape
<1> QED BY <1>1, <1>8, <1>9 DEF OrderShape

LEMMA OutsideOrder ==
    ASSUME IInv, OrderShape, Calm, Calm',
           \/ StartTurn \/ TrackGoal \/ WakeController \/ ArmController \/ ApplyGoal
           \/ GoalSaved \/ ClaimRetried \/ Hold \/ Release \/ Tick \/ Dispose \/ Crash
           \/ Start \/ Load
    PROVE  OrderShape'
<1>0. /\ Data /\ agent \in Agents /\ RuntimeShape /\ count \in Counts
      /\ install \in [asg : Nat, rev : Nat, applied : BOOLEAN]
      /\ goal \in [asg : Nat, rev : Nat, armed : BOOLEAN, spent : BOOLEAN]
  BY TypeParts DEF IInv, OrderShape, Data
<1>1. ~Start /\ ~Load
  BY <1>0 DEF Start, Load, RuntimeShape
<1>2. ~Dispose /\ ~Crash
  <2>1. count' = Spend("restarts") => count'.restarts > 0
    BY <1>0 DEF Spend, Counts
  <2> QED BY <2>1 DEF Dispose, Crash, Calm
<1>3. CASE StartTurn \/ ClaimRetried \/ Hold \/ Release \/ Tick
  <2>1. /\ UNCHANGED <<task, queue, log, store, pending, install, started>>
        /\ count'.recordings = count.recordings
        /\ goal'.asg = goal.asg
    BY <1>0, <1>3 DEF StartTurn, ClaimRetried, Hold, Release, Tick, session, Spend, Counts
  <2>2. /\ agent'.status = "failing" => agent.status = "failing"
        /\ agent'.fault = agent.fault /\ agent'.up = agent.up
        /\ agent'.status # "failing" => agent.status # "failing"
    BY <1>0, <1>3 DEF StartTurn, ClaimRetried, Hold, Release, Tick, Agents
  <2>3. edges' \subseteq edges \cup {"idle"}
    BY <1>3 DEF StartTurn, ClaimRetried, Hold, Release, Tick
  <2>4. RuntimeShape'
    BY <1>0, <2>1, <2>2, <2>3 DEF RuntimeShape
  <2>5. install'.asg \in Nat /\ install'.asg >= install.asg /\ (Resolved => Resolved')
    BY <1>0, <2>1 DEF Resolved
  <2> QED BY <2>1, <2>2, <2>4, <2>5, RuntimeOrder
<1>4. CASE TrackGoal \/ WakeController \/ ArmController \/ ApplyGoal \/ GoalSaved
  <2>1. /\ UNCHANGED <<task, queue, log, store, pending, agent, started>>
        /\ count'.recordings = count.recordings
    BY <1>0, <1>4 DEF TrackGoal, WakeController, ArmController, ApplyGoal, GoalSaved,
                      session, Spend, Counts
  <2>2. CASE TrackGoal
    <3>1. /\ install'.asg = install.asg /\ install'.applied = install.applied
          /\ goal' = goal /\ edges' \subseteq edges
      BY <1>0, <2>2 DEF TrackGoal
    <3>2. RuntimeShape'
      BY <1>0, <2>1, <3>1 DEF RuntimeShape
    <3>3. install'.asg \in Nat /\ install'.asg >= install.asg /\ (Resolved => Resolved')
      BY <1>0, <3>1 DEF Resolved
    <3> QED BY <2>1, <3>2, <3>3, RuntimeOrder
  <2>3. CASE WakeController
    <3>1. install' = install /\ goal'.asg = goal.asg /\ edges' = edges \cup {"saving"}
          /\ "apply" \notin edges
      BY <1>0, <2>3 DEF WakeController, LabFree
    <3>2. RuntimeShape'
      BY <1>0, <2>1, <3>1 DEF RuntimeShape
    <3>3. install'.asg \in Nat /\ install'.asg >= install.asg /\ (Resolved => Resolved')
      BY <1>0, <3>1 DEF Resolved
    <3> QED BY <2>1, <3>2, <3>3, RuntimeOrder
  <2>4. CASE ArmController
    <3>1. /\ install' = [install EXCEPT !.asg = install.asg + 1, !.applied = FALSE]
          /\ edges' = edges \cup {"apply"} /\ "saving" \notin edges
      BY <1>0, <2>4 DEF ArmController, LabFree, RuntimeShape
    <3>2. install'.asg = install.asg + 1 /\ install'.applied = FALSE
      BY <1>0, <3>1
    <3>3. RuntimeShape'
      BY <1>0, <2>1, <3>1, <3>2 DEF RuntimeShape
    <3>4. install'.asg \in Nat /\ install'.asg >= install.asg /\ install'.asg # install.asg
      BY <1>0, <3>2
    <3> QED BY <2>1, <3>3, <3>4, RuntimeOrder
  <2>5. CASE ApplyGoal
    <3>1. /\ install' = install /\ "apply" \in edges
          /\ \/ edges' = edges \ {"apply"}
             \/ edges' = (edges \ {"apply"}) \cup {"saving"}
      BY <2>5 DEF ApplyGoal
    <3>2. ~install.applied
      BY <1>0, <3>1 DEF RuntimeShape
    <3>3. RuntimeShape'
      BY <1>0, <2>1, <3>1 DEF RuntimeShape
    <3>4. install'.asg \in Nat /\ install'.asg >= install.asg /\ ~Resolved
      BY <1>0, <3>1, <3>2 DEF Resolved
    <3> QED BY <2>1, <3>3, <3>4, RuntimeOrder
  <2>6. CASE GoalSaved
    <3>1. /\ install'.asg = install.asg /\ install'.applied = TRUE
          /\ goal' = goal /\ edges' \subseteq edges /\ "saving" \in edges
      BY <1>0, <2>6 DEF GoalSaved
    <3>2. RuntimeShape'
      BY <1>0, <2>1, <3>1 DEF RuntimeShape
    <3>3. install'.asg \in Nat /\ install'.asg >= install.asg /\ (Resolved => Resolved')
      BY <1>0, <3>1 DEF Resolved
    <3> QED BY <2>1, <3>2, <3>3, RuntimeOrder
  <2> QED BY <1>4, <2>2, <2>3, <2>4, <2>5, <2>6
<1> QED BY <1>1, <1>2, <1>3, <1>4

(* Faults and restarts are counted and never forgotten. *)
LEMMA CalmBefore ==
    ASSUME IInv, [Next]_vars, Calm'
    PROVE  Calm
<1>0. count \in Counts
  BY CountType
<1> DEFINE Kinds == {"recordings", "faults", "restarts", "edits", "updates"}
           Goal == count' = count \/ \E kind \in Kinds : count' = Spend(kind)
<1>1. SUFFICES Goal
  <2>1. ASSUME NEW kind \in Kinds, count' = Spend(kind)
        PROVE  Calm
    BY <1>0, <2>1 DEF Calm, Spend, Counts
  <2>2. ASSUME count' = count PROVE Calm
    BY <2>2 DEF Calm
  <2> QED BY <1>1, <2>1, <2>2
<1>2. CASE UNCHANGED vars
  BY <1>2 DEF vars
<1>3. CASE \/ StartTurn \/ Commit \/ TrackGoal \/ WakeController
           \/ ArmController \/ ApplyGoal \/ GoalSaved
           \/ ClaimRetried \/ Hold \/ Release \/ Tick \/ Dispose \/ Crash \/ Start \/ Load
  BY <1>3 DEF StartTurn, Commit, Fault, TrackGoal, WakeController, ArmController, ApplyGoal,
     GoalSaved, ClaimRetried, Hold, Release, Tick, Dispose, Crash, Start, Load
<1>4. ASSUME NEW h \in Handlers, NEW code \in Codes, RequestError(h, code) PROVE Goal
  BY <1>4 DEF RequestError
<1>5. ASSUME NEW h \in Handlers,
             \/ EndTurn(h) \/ CheckpointFails(h) \/ TimerFires(h) \/ AdaptersUpdated(h)
             \/ IdleEdge(h) \/ AdapterPass(h) \/ Reconcile(h)
      PROVE  Goal
  BY <1>5 DEF EndTurn, CheckpointFails, Fault, TimerFires, AdaptersUpdated, IdleEdge,
     AdapterPass, Reconcile
<1>6. ASSUME NEW h \in Handlers, SettlementSaved(h) PROVE Goal
  BY <1>6 DEF SettlementSaved
<1>7. ASSUME NEW h \in Handlers,
             \/ RequestRecorded(h) \/ TerminalSaved(h) \/ Published(h) \/ WriteFailed(h)
             \/ Removed(h) \/ EnterMaintenance(h) \/ LeaveMaintenance(h)
             \/ OperatorWhenIdle(h) \/ Rescheduled(h)
      PROVE  Goal
  BY <1>7 DEF RequestRecorded, TerminalSaved, Published, Fault, WriteFailed, Removed,
     EnterMaintenance, LeaveMaintenance, OperatorWhenIdle, Rescheduled
<1> QED BY <1>2, <1>3, <1>4, <1>5, <1>6, <1>7 DEF Next, Edge, Handler

LEMMA OrderStep ==
    ASSUME IInv, [Next]_vars, NInv
    PROVE  NInv'
<1> SUFFICES ASSUME Calm' PROVE OrderShape'
  BY DEF NInv
<1>1. Calm /\ OrderShape
  BY CalmBefore DEF NInv
<1>2. CASE UNCHANGED vars
  <2>1. UNCHANGED <<task, queue, log, store, pending, install, goal, count, agent, edges,
                    started>>
    BY <1>2 DEF vars, session
  <2>2. RuntimeShape' /\ (Resolved => Resolved')
    BY <1>1, <2>1 DEF OrderShape, RuntimeShape, Resolved
  <2>3. install.asg \in Nat
    BY TypeParts DEF IInv, Data
  <2> QED BY <1>1, <2>1, <2>2, <2>3, RuntimeOrder
<1>3. CASE Commit
  BY <1>1, <1>3, CommitOrder
<1>4. CASE \/ StartTurn \/ TrackGoal \/ WakeController \/ ArmController \/ ApplyGoal
           \/ GoalSaved \/ ClaimRetried \/ Hold \/ Release \/ Tick \/ Dispose \/ Crash
           \/ Start \/ Load
  BY <1>1, <1>4, OutsideOrder
<1>5. ASSUME NEW h \in Handlers, NEW code \in Codes, RequestError(h, code)
      PROVE  OrderShape'
  BY <1>1, <1>5, RequestErrorOrder
<1>6. ASSUME NEW h \in Handlers,
             EndTurn(h) \/ TimerFires(h) \/ AdaptersUpdated(h) \/ Edge(h)
      PROVE  OrderShape'
  BY <1>1, <1>6, EndTurnOrder, TimerOrder, AdaptersUpdatedOrder, EdgeOrder
<1>7. ASSUME NEW h \in Handlers, CheckpointFails(h)
      PROVE  OrderShape'
  <2>1. count' = Spend("faults") /\ count \in Counts
    BY <1>7, CountType DEF CheckpointFails, Fault
  <2>2. count'.faults > 0
    BY <2>1, SpendType
  <2> QED BY <2>2 DEF Calm
<1>8. ASSUME NEW h \in Handlers, Handler(h)
      PROVE  OrderShape'
  BY <1>1, <1>8, RequestRecordedOrder, TerminalSavedOrder, SettlementSavedOrder,
     PublishedOrder, WriteFailedOrder, RemovedOrder, EnterMaintenanceOrder,
     LeaveMaintenanceOrder, TimerOrder DEF Handler
<1> QED BY <1>2, <1>3, <1>4, <1>5, <1>6, <1>7, <1>8 DEF Next

LEMMA InitOrder == Init => NInv
<1> SUFFICES ASSUME Init PROVE OrderShape
  BY DEF NInv
<1>1. /\ queue = <<>> /\ store = None /\ \A h \in Handlers : task[h].pc = "free"
      /\ Len(queue) = 0
  BY IdleTask DEF Init
<1>2. Writes = {}
  BY <1>1 DEF Writes
<1>3. RuntimeShape
  BY DEF Init, RuntimeShape
<1>4. RequestShape /\ WaitShape
  BY <1>1 DEF RequestShape, WaitShape
<1>5. ChainShape /\ FailShape
  BY <1>1, <1>2 DEF ChainShape, FailShape, Init
<1> QED BY <1>3, <1>4, <1>5 DEF OrderShape

LEMMA AlwaysOrder == Spec => []NInv
<1>1. IInv /\ NInv /\ [Next]_vars => NInv'
  BY OrderStep
<1> QED BY InitOrder, <1>1, AlwaysInv, PTL DEF Spec

(* Only the queue changes what is stored. *)
LEMMA OnlyCommitStores ==
    ASSUME [Next]_vars, store' # store
    PROVE  Commit
<1>1. ~UNCHANGED vars
  BY DEF vars
<1>2. CASE \/ StartTurn \/ TrackGoal \/ WakeController \/ ArmController \/ ApplyGoal
           \/ GoalSaved \/ ClaimRetried \/ Hold \/ Release \/ Tick \/ Dispose \/ Crash
           \/ Start \/ Load
  BY <1>2 DEF StartTurn, TrackGoal, WakeController, ArmController, ApplyGoal,
     GoalSaved, ClaimRetried, Hold, Release, Tick, Dispose, Crash, Start, Load
<1>3. ASSUME NEW h \in Handlers, NEW code \in Codes, RequestError(h, code) PROVE FALSE
  BY <1>3 DEF RequestError
<1>4. ASSUME NEW h \in Handlers,
             \/ EndTurn(h) \/ CheckpointFails(h) \/ TimerFires(h) \/ AdaptersUpdated(h)
             \/ IdleEdge(h) \/ AdapterPass(h) \/ Reconcile(h)
      PROVE  FALSE
  BY <1>4 DEF EndTurn, CheckpointFails, TimerFires, AdaptersUpdated, IdleEdge,
     AdapterPass, Reconcile
<1>5. ASSUME NEW h \in Handlers, SettlementSaved(h) \/ TerminalSaved(h) PROVE FALSE
  BY <1>5 DEF SettlementSaved, TerminalSaved
<1>6. ASSUME NEW h \in Handlers,
             \/ RequestRecorded(h) \/ Published(h) \/ WriteFailed(h)
             \/ Removed(h) \/ EnterMaintenance(h) \/ LeaveMaintenance(h)
             \/ OperatorWhenIdle(h) \/ Rescheduled(h)
      PROVE  FALSE
  BY <1>6 DEF RequestRecorded, Published, WriteFailed, Removed,
     EnterMaintenance, LeaveMaintenance, OperatorWhenIdle, Rescheduled
<1> QED BY <1>1, <1>2, <1>3, <1>4, <1>5, <1>6 DEF Next, Edge, Handler

(* While no write fails and the plugin runs on, what takes the place of a stored
   incident was recorded with it or after it, and is of its turn or a later one:
   the writes of handlers that waited keep their order behind a newer failure,
   for any number of handlers.                                               *)
THEOREM NewerKept == Spec => NewerIncidentKept
<1>1. ASSUME IInv, NInv, [Next]_vars, store # None, store' # None,
             count.faults + count.restarts = 0
      PROVE  store'.at >= store.at /\ store'.turn >= store.turn
  <2>1. Calm /\ OrderShape /\ store \in Incident
    <3>1. count \in Counts
      BY <1>1, CountType
    <3>2. count.faults = 0 /\ count.restarts = 0
      BY <1>1, <3>1 DEF Counts
    <3> QED BY <1>1, <3>2, TypeParts DEF IInv, Data, NInv, Calm
  <2>2. store.at \in Nat /\ store.turn \in Nat
    BY <2>1 DEF Incident
  <2>3. CASE store' = store
    BY <2>2, <2>3
  <2>4. CASE store' # store
    <3>1. Commit
      BY <1>1, <2>4, OnlyCommitStores
    <3>2. /\ 1 \in 1..Len(queue) /\ Head(queue) = queue[1] /\ queue[1].rec \in Incident
      BY <1>1, <3>1, HeadOfQueue
    <3>3. queue[1].kind = "put" /\ store' = queue[1].rec
      BY <1>1, <2>4, <3>1, <3>2 DEF Commit
    <3>4. 1 \in Writes
      BY <3>2, <3>3 DEF Writes
    <3>5. /\ Known(store)
          /\ OfRequest(1) => Newest(queue[1].rec)
          /\ ~OfRequest(1) => Kin(queue[1].rec, store)
      BY <1>1, <2>1, <3>4 DEF OrderShape, ChainShape
    <3> QED BY <2>2, <3>3, <3>5 DEF Known, Newest, Kin
  <2> QED BY <2>3, <2>4
<1>2. IInv /\ NInv /\ [Next]_vars =>
        [store # None /\ store' # None /\ count.faults + count.restarts = 0 =>
            store'.at >= store.at /\ store'.turn >= store.turn]_vars
  BY <1>1
<1> QED BY <1>2, AlwaysInv, AlwaysOrder, PTL DEF Spec, NewerIncidentKept

-----------------------------------------------------------------------------
(* The one continuation of an unknown failure.                             *)

(* What is stored, or is written next. *)
Filed == ({store} \ {None}) \cup {queue[i].rec : i \in Writes}

(* The revisions of the Goal grow, and the RuntimeState follows them. *)
RevisionShape ==
    /\ install.rev <= goal.rev
    /\ \A r \in Filed : r.ref.rev <= install.rev

(* An incident past its first phase is about a turn that ended, which disarmed
   the Goal; only a resume in a new revision arms it again. *)
EndedShape ==
    \A r \in Filed :
        /\ FitsSchema(r)
        /\ r.turn = Len(log) + 1 => agent.status = "failing"
        /\ r.phase # "awaiting" => r.turn <= Len(log)
        /\ r.turn <= Len(log) /\ r.ref.asg = install.asg /\ goal.rev = r.ref.rev =>
              ~goal.armed
        /\ r.phase = "recovering" /\ r.code \in Unknown => r.used

(* The Goal is the one that was resumed for this incident, and it runs. *)
Live(r) ==
    /\ r.ref.asg = install.asg /\ goal.asg = r.ref.asg
    /\ r.resumed = r.ref.rev + 1 /\ goal.rev = r.resumed /\ goal.armed
    /\ install.rev \in {r.ref.rev, r.resumed}

LiveShape ==
    /\ IsPhase(store, "recovering") => Live(store)
    /\ \A i \in Writes : queue[i].rec.phase = "recovering" =>
          Live(queue[i].rec) /\ IsPhase(store, "scheduled")

(* The phases of one incident that may be written behind a phase of it. *)
Behind(p) ==
    CASE p = "operator"  -> {"operator", "scheduled"}
      [] p = "scheduled" -> {"scheduled", "recovering"}
      [] OTHER           -> {}

PhaseShape ==
    \A i \in Writes :
        /\ OfRequest(i) <=> queue[i].rec.phase = "awaiting"
        /\ queue[i].rec.phase = "recovering" => task[queue[i].by].pc = "resumed"
        /\ store # None /\ ~OfRequest(i) =>
              queue[i].rec.phase \in IF store.phase = "awaiting"
                                     THEN {Disposition(store, store.code)}
                                     ELSE Behind(store.phase)
        /\ \A j \in Writes : i < j /\ ~OfRequest(j) =>
              queue[j].rec.phase \in Behind(queue[i].rec.phase)

(* A handler resumes for an incident that is due. *)
DueShape ==
    /\ timer # None => timer.phase = "scheduled"
    /\ \A h \in Handlers :
          /\ task[h].pc \in {"enter", "adopt", "retry"} => task[h].rec.phase = "scheduled"
          /\ task[h].pc = "enter" => task[h].arg = task[h].rec.ref.rev
          /\ task[h].pc = "whenIdle" => task[h].rec.phase = "operator"

(* The Goal went on without this incident, for good. *)
Gone(r) ==
    \/ Superseded(r)
    \/ goal.rev > r.ref.rev + 1
    \/ goal.rev = r.ref.rev + 1 /\ ~goal.armed

RemovalShape ==
    \A i \in 1..Len(queue) : queue[i].kind = "remove" =>
        /\ queue[i].rec.phase = "scheduled" /\ ~task[queue[i].by].busy => Gone(queue[i].rec)
        /\ queue[i].rec.phase = "recovering" => queue[i].rec.turn < Len(log)

(* After a resume for an unknown code: until the next turn fails the incident
   is stored as it was resumed, and the failure of that turn is recorded as one
   that was continued before. *)
FallbackShape ==
    /\ fallback \in [code : Unknown \cup {None}, turn : Nat]
    /\ fallback.code # None =>
          /\ fallback.turn <= Len(log)
          /\ ~IsPhase(store, "operator")
          /\ \A r \in Filed :
                /\ r.turn >= fallback.turn
                /\ r.turn = fallback.turn + 1 /\ r.code = fallback.code =>
                      r.used /\ r.phase \in {"awaiting", "operator"}
          /\ Len(log) = fallback.turn /\ agent.status # "failing" =>
                /\ IsPhase(store, "recovering")
                /\ store.turn = fallback.turn /\ store.code = fallback.code

(* A turn that fails has its failure. *)
FaultShape == agent.status = "failing" => agent.fault # None

FShape ==
    /\ RevisionShape /\ EndedShape /\ LiveShape /\ PhaseShape /\ DueShape
    /\ RemovalShape /\ FallbackShape /\ FaultShape

FInv == Calm => FShape

-----------------------------------------------------------------------------
(* The step of a handler and the fallback: its task goes to t, and what it
   queues is the removal of an incident that is over, or the next phase of the
   stored one. *)
Places(t) ==
    /\ t.pc # "request"
    /\ t.pc \in {"enter", "adopt", "retry"} => t.rec.phase = "scheduled"
    /\ t.pc = "enter" => t.arg = t.rec.ref.rev
    /\ t.pc = "whenIdle" => t.rec.phase = "operator"

Over(r, busy) ==
    /\ r \in Incident
    /\ r.phase = "scheduled" /\ ~busy => Gone(r)
    /\ r.phase = "recovering" => r.turn < Len(log)

Succeeds(q) ==
    /\ q \in Incident /\ FitsSchema(q)
    /\ store # None /\ Kin(q, store) /\ q.code = store.code /\ pending = None
    /\ \/ /\ store.phase = "awaiting" /\ q.phase = Disposition(store, store.code)
          /\ store.turn <= Len(log)
          /\ q.phase = "operator" => q.used = store.used
       \/ store.phase = "operator" /\ q.phase = "scheduled"

Goes(h) ==
    \E t \in Task :
        /\ task' = [task EXCEPT ![h] = t] /\ Places(t)
        /\ \/ queue' = queue
           \/ /\ queue' = Append(queue, [kind |-> "remove", by |-> h, rec |-> t.rec])
              /\ Over(t.rec, t.busy)
           \/ /\ queue' = Append(queue, [kind |-> "put", by |-> h, rec |-> t.rec])
              /\ Succeeds(t.rec)

(* The Session, the Goal and the store stay as they are. *)
Still ==
    /\ UNCHANGED <<log, store, install, goal, fallback>>
    /\ SameTurn

TimerStays == timer' = timer \/ timer' = None \/ timer'.phase = "scheduled"

LEMMA FiledTypes ==
    ASSUME IInv
    PROVE  Filed \subseteq Incident /\ (store # None => store \in Filed)
<1>1. store \in Incident \cup {None}
  BY TypeParts DEF IInv, Data
<1>2. \A i \in Writes : queue[i].rec \in Incident
  BY QueuedRecords DEF Writes
<1> QED BY <1>1, <1>2 DEF Filed

LEMMA Appended ==
    ASSUME IInv, NEW h \in Handlers, NEW t \in Task, Unqueued(h),
           task' = [task EXCEPT ![h] = t], NEW kind \in {"put", "remove"}, NEW r,
           queue' = Append(queue, [kind |-> kind, by |-> h, rec |-> r])
    PROVE  /\ Len(queue) \in Nat /\ Len(queue') = Len(queue) + 1 /\ task'[h] = t
           /\ \A i \in 1..Len(queue) :
                /\ queue'[i] = queue[i] /\ task'[queue[i].by] = task[queue[i].by]
                /\ OfRequest(i)' <=> OfRequest(i)
           /\ queue'[Len(queue) + 1] = [kind |-> kind, by |-> h, rec |-> r]
           /\ \A i \in 1..Len(queue') : i \in 1..Len(queue) \/ i = Len(queue) + 1
<1>1. queue \in Seq(Operations) /\ task \in [Handlers -> Task]
  BY TypeParts DEF IInv, Tasks
<1>2. /\ Len(queue) \in Nat /\ Len(queue') = Len(queue) + 1 /\ task'[h] = t
      /\ \A i \in 1..Len(queue) : queue'[i] = queue[i]
      /\ queue'[Len(queue) + 1] = [kind |-> kind, by |-> h, rec |-> r]
  BY <1>1
<1>3. \A i \in 1..Len(queue) : task'[queue[i].by] = task[queue[i].by]
  BY <1>1, OthersQueued
<1> QED BY <1>2, <1>3 DEF OfRequest

(* Place n of the queue is a new write of r, behind all others. *)
Written(n, h, r) ==
    /\ Writes' = Writes \cup {n} /\ \A i \in Writes : i < n
    /\ queue'[n].by = h /\ queue'[n].rec = r /\ queue'[n].kind = "put"
    /\ OfRequest(n)' <=> task'[h].pc = "request"
    /\ Filed' = Filed \cup {r}
    /\ \A i \in 1..Len(queue') : i \in 1..Len(queue) \/ i = n

LEMMA AppendedWrite ==
    ASSUME IInv, NEW h \in Handlers, NEW t \in Task, Unqueued(h),
           task' = [task EXCEPT ![h] = t], NEW r \in Incident, store' = store,
           queue' = Append(queue, [kind |-> "put", by |-> h, rec |-> r])
    PROVE  \E n \in 1..Len(queue') : Written(n, h, r)
<1>0. /\ Len(queue) \in Nat /\ Len(queue') = Len(queue) + 1 /\ task'[h] = t
      /\ \A i \in 1..Len(queue) : queue'[i] = queue[i]
      /\ queue'[Len(queue) + 1] = [kind |-> "put", by |-> h, rec |-> r]
      /\ \A i \in 1..Len(queue') : i \in 1..Len(queue) \/ i = Len(queue) + 1
  BY Appended
<1>1. PICK n \in 1..Len(queue') : n = Len(queue) + 1
  BY <1>0
<1>2. /\ queue'[n] = [kind |-> "put", by |-> h, rec |-> r]
      /\ \A i \in 1..Len(queue) : i < n /\ i \in 1..Len(queue') /\ queue'[i] = queue[i]
      /\ \A i \in 1..Len(queue') : i \in 1..Len(queue) \/ i = n
  BY <1>0, <1>1
<1>3. Writes' = Writes \cup {n} /\ \A i \in Writes : i < n /\ queue'[i] = queue[i]
  BY <1>2 DEF Writes
<1>4. queue'[n].by = h /\ queue'[n].rec = r /\ queue'[n].kind = "put"
  BY <1>2
<1>5. Filed' = Filed \cup {r}
  BY <1>3, <1>4 DEF Filed
<1>6. OfRequest(n)' <=> task'[h].pc = "request"
  BY <1>4 DEF OfRequest
<1>7. Written(n, h, r)
  BY <1>2, <1>3, <1>4, <1>5, <1>6 DEF Written
<1> QED BY <1>7

LEMMA AppendedRemoval ==
    ASSUME IInv, NEW h \in Handlers, NEW t \in Task, Unqueued(h),
           task' = [task EXCEPT ![h] = t], NEW r, store' = store,
           queue' = Append(queue, [kind |-> "remove", by |-> h, rec |-> r])
    PROVE  Writes' = Writes /\ Filed' = Filed
<1>1. /\ Len(queue) \in Nat /\ Len(queue') = Len(queue) + 1
      /\ \A i \in 1..Len(queue) : queue'[i] = queue[i]
      /\ queue'[Len(queue) + 1] = [kind |-> "remove", by |-> h, rec |-> r]
      /\ \A i \in 1..Len(queue') : i \in 1..Len(queue) \/ i = Len(queue) + 1
  BY Appended
<1>2. \A i \in 1..Len(queue) : i \in 1..Len(queue')
  BY <1>1
<1>3. queue'[Len(queue) + 1].kind = "remove"
  BY <1>1
<1>4. Writes' = Writes
  BY <1>1, <1>2, <1>3 DEF Writes
<1>5. \A i \in Writes : queue'[i] = queue[i]
  BY <1>1 DEF Writes
<1> QED BY <1>4, <1>5 DEF Filed

LEMMA GoesTasks ==
    ASSUME IInv, DueShape, NEW h \in Handlers, NEW t \in Task,
           task' = [task EXCEPT ![h] = t], Places(t), TimerStays
    PROVE  DueShape'
<1>1. task'[h] = t /\ \A i \in Handlers \ {h} : task'[i] = task[i]
  BY TypeParts DEF IInv, Tasks
<1>2. timer' # None => timer'.phase = "scheduled"
  BY DEF DueShape, TimerStays
<1> QED BY <1>1, <1>2 DEF DueShape, Places

LEMMA GoesFallback ==
    ASSUME IInv, OrderShape, FShape, NEW h \in Handlers, Unqueued(h), Goes(h),
           Still, TimerStays
    PROVE  FShape'
<1>0. /\ RevisionShape /\ EndedShape /\ LiveShape /\ PhaseShape /\ DueShape
      /\ RemovalShape /\ FallbackShape /\ FaultShape
  BY DEF FShape
<1>1. PICK t \in Task :
        /\ task' = [task EXCEPT ![h] = t] /\ Places(t)
        /\ \/ queue' = queue
           \/ /\ queue' = Append(queue, [kind |-> "remove", by |-> h, rec |-> t.rec])
              /\ Over(t.rec, t.busy)
           \/ /\ queue' = Append(queue, [kind |-> "put", by |-> h, rec |-> t.rec])
              /\ Succeeds(t.rec)
  BY DEF Goes
<1>2. /\ UNCHANGED <<log, store, install, goal, fallback>>
      /\ agent'.status = agent.status /\ FaultShape'
  BY DEF Still, SameTurn, FShape, FaultShape
<1>3. DueShape'
  BY <1>0, <1>1, GoesTasks
<1>4. /\ task'[h] = t /\ \A i \in Handlers \ {h} : task'[i] = task[i]
      /\ queue \in Seq(Operations)
  BY <1>1, TypeParts DEF IInv, Tasks
<1>5. \A i \in 1..Len(queue) : task'[queue[i].by] = task[queue[i].by]
  BY <1>4, OthersQueued
<1>6. ASSUME Filed' = Filed
      PROVE  RevisionShape' /\ EndedShape' /\ FallbackShape'
  BY <1>0, <1>2, <1>6 DEF RevisionShape, EndedShape, FallbackShape
<1>7. \A r \in Incident : Live(r)' <=> Live(r)
  BY <1>2 DEF Live
<1>8. \A r \in Incident : Gone(r)' <=> Gone(r)
  BY <1>2 DEF Gone, Superseded
<1>9. \A i \in 1..Len(queue) : queue[i].rec \in Incident
  BY QueuedRecords
<1>10. CASE queue' = queue
  <2>1. Writes' = Writes /\ Filed' = Filed
    BY <1>2, <1>10 DEF Writes, Filed
  <2>2. \A i \in Writes : OfRequest(i)' <=> OfRequest(i)
    BY <1>5, <1>10 DEF OfRequest, Writes
  <2>3. LiveShape'
    BY <1>0, <1>2, <1>10, <2>1 DEF LiveShape, Live
  <2>4. PhaseShape'
    BY <1>0, <1>2, <1>5, <1>10, <2>1, <2>2 DEF PhaseShape, Writes
  <2>5. RemovalShape'
    BY <1>0, <1>2, <1>5, <1>10 DEF RemovalShape, Gone, Superseded
  <2> QED BY <1>2, <1>3, <1>6, <2>1, <2>3, <2>4, <2>5 DEF FShape
<1>11. CASE /\ queue' = Append(queue, [kind |-> "remove", by |-> h, rec |-> t.rec])
            /\ Over(t.rec, t.busy)
  <2>1. Writes' = Writes /\ Filed' = Filed
    BY <1>1, <1>2, <1>11, AppendedRemoval
  <2>2. /\ \A i \in 1..Len(queue) : queue'[i] = queue[i] /\ (OfRequest(i)' <=> OfRequest(i))
        /\ queue'[Len(queue) + 1] = [kind |-> "remove", by |-> h, rec |-> t.rec]
        /\ \A i \in 1..Len(queue') : i \in 1..Len(queue) \/ i = Len(queue) + 1
    BY <1>1, <1>11, Appended
  <2>3. LiveShape'
    BY <1>0, <1>2, <2>1, <2>2 DEF LiveShape, Live, Writes
  <2>4. PhaseShape'
    BY <1>0, <1>2, <1>5, <2>1, <2>2 DEF PhaseShape, Writes
  <2>5. RemovalShape'
    <3> SUFFICES ASSUME NEW i \in 1..Len(queue'), queue'[i].kind = "remove"
                 PROVE  /\ queue'[i].rec.phase = "scheduled" /\ ~task'[queue'[i].by].busy =>
                              Gone(queue[i].rec)'
                        /\ queue'[i].rec.phase = "recovering" => queue'[i].rec.turn < Len(log')
      BY DEF RemovalShape
    <3>1. CASE i \in 1..Len(queue)
      BY <1>0, <1>2, <1>5, <2>2, <3>1 DEF RemovalShape, Gone, Superseded
    <3>2. CASE i = Len(queue) + 1
      <4>1. queue'[i].rec = t.rec /\ queue'[i].by = h
        BY <2>2, <3>2
      <4> QED BY <1>2, <1>4, <1>11, <4>1 DEF Over, Gone, Superseded
    <3> QED BY <2>2, <3>1, <3>2
  <2> QED BY <1>2, <1>3, <1>6, <2>1, <2>3, <2>4, <2>5 DEF FShape
<1>12. CASE /\ queue' = Append(queue, [kind |-> "put", by |-> h, rec |-> t.rec])
            /\ Succeeds(t.rec)
  <2>0. PICK q \in Incident :
        /\ q = t.rec /\ FitsSchema(q) /\ store # None /\ Kin(q, store)
        /\ q.code = store.code /\ pending = None
        /\ \/ /\ store.phase = "awaiting" /\ q.phase = Disposition(store, store.code)
              /\ store.turn <= Len(log)
              /\ q.phase = "operator" => q.used = store.used
           \/ store.phase = "operator" /\ q.phase = "scheduled"
    BY <1>12 DEF Succeeds
  <2>1. PICK n \in 1..Len(queue') :
          /\ Writes' = Writes \cup {n} /\ \A i \in Writes : i < n
          /\ queue'[n].by = h /\ queue'[n].rec = q /\ queue'[n].kind = "put"
          /\ OfRequest(n)' <=> t.pc = "request"
          /\ Filed' = Filed \cup {q}
          /\ \A i \in 1..Len(queue') : i \in 1..Len(queue) \/ i = n
    <3>1. task' = [task EXCEPT ![h] = t] /\ store' = store
      BY <1>1, <1>2
    <3>2. queue' = Append(queue, [kind |-> "put", by |-> h, rec |-> q])
      BY <1>12, <2>0
    <3>3. PICK n \in 1..Len(queue') : Written(n, h, q)
      BY <3>1, <3>2, AppendedWrite
    <3> QED BY <1>4, <3>3 DEF Written
  <2>2. /\ \A i \in 1..Len(queue) : queue'[i] = queue[i] /\ (OfRequest(i)' <=> OfRequest(i))
    BY <1>1, <1>12, Appended
  <2>3. \A i \in 1..Len(queue) : ~OfRequest(i)
    BY <2>0, NoRequest, QueuedRecords DEF OfRequest
  <2>4. Filed \subseteq Incident /\ store \in Filed /\ store \in Incident
    BY <2>0, FiledTypes
  <2>5. q.phase \in {"operator", "scheduled"}
    BY <2>0 DEF Disposition
  <2>6. q.turn <= Len(log) /\ q.turn \in Nat /\ Len(log) \in Nat
    <3>1. Len(log) \in Nat
      BY TypeParts DEF IInv, Data
    <3>2. store.turn \in Nat
      BY <2>4 DEF Incident
    <3> QED BY <1>0, <2>0, <2>4, <3>1, <3>2 DEF EndedShape, Kin
  <2>7. RevisionShape'
    BY <1>0, <1>2, <2>0, <2>1, <2>4 DEF RevisionShape, Kin
  <2>8. EndedShape'
    <3>1. \A r \in Filed :
            /\ FitsSchema(r)
            /\ r.turn = Len(log) + 1 => agent.status = "failing"
            /\ r.phase # "awaiting" => r.turn <= Len(log)
            /\ r.turn <= Len(log) /\ r.ref.asg = install.asg /\ goal.rev = r.ref.rev =>
                  ~goal.armed
            /\ r.phase = "recovering" /\ r.code \in Unknown => r.used
      BY <1>0 DEF EndedShape
    <3>2. /\ q.turn # Len(log) + 1 /\ q.phase # "recovering"
          /\ q.ref.asg = install.asg /\ goal.rev = q.ref.rev => ~goal.armed
      BY <2>0, <2>4, <2>5, <2>6, <3>1 DEF Kin
    <3> QED BY <1>2, <2>0, <2>1, <2>6, <3>1, <3>2 DEF EndedShape
  <2>9. LiveShape'
    BY <1>0, <1>2, <2>1, <2>2, <2>5 DEF LiveShape, Live, Writes
  <2>10. PhaseShape'
    <3>1. ASSUME NEW i \in Writes
          PROVE  /\ queue[i].rec.phase \in {"operator", "scheduled"}
                 /\ store.phase = "operator" \/ queue[i].rec.phase = q.phase
                 /\ q.phase \in Behind(queue[i].rec.phase)
      <4>1. queue[i].rec.phase \in IF store.phase = "awaiting"
                                   THEN {Disposition(store, store.code)}
                                   ELSE Behind(store.phase)
        BY <1>0, <2>0, <2>3 DEF PhaseShape, Writes
      <4> QED BY <2>0, <2>5, <4>1 DEF Behind
    <3>2. /\ q.phase # "awaiting" /\ q.phase # "recovering" /\ t.pc # "request"
          /\ q.phase \in IF store.phase = "awaiting" THEN {Disposition(store, store.code)}
                                                     ELSE Behind(store.phase)
      BY <1>1, <2>0, <2>5 DEF Behind, Places
    <3>3. \A i \in Writes : /\ i \in 1..Len(queue) /\ queue'[i] = queue[i]
                            /\ task'[queue[i].by] = task[queue[i].by]
                            /\ ~OfRequest(i) /\ ~OfRequest(i)' /\ i < n /\ ~(n < i)
      BY <1>5, <2>1, <2>2, <2>3 DEF Writes
    <3>4. \A i \in Writes :
            /\ queue[i].rec.phase # "awaiting"
            /\ queue[i].rec.phase = "recovering" => task[queue[i].by].pc = "resumed"
            /\ queue[i].rec.phase \in IF store.phase = "awaiting"
                                      THEN {Disposition(store, store.code)}
                                      ELSE Behind(store.phase)
            /\ \A j \in Writes : i < j =>
                  queue[j].rec.phase \in Behind(queue[i].rec.phase)
      BY <1>0, <2>0, <3>3 DEF PhaseShape
    <3>5. ~OfRequest(n)' /\ queue'[n].rec = q /\ ~(n < n) /\ Writes' = Writes \cup {n}
      BY <2>1, <3>2
    <3>6. ASSUME NEW i \in Writes'
          PROVE  /\ OfRequest(i)' <=> queue'[i].rec.phase = "awaiting"
                 /\ queue'[i].rec.phase = "recovering" => task'[queue'[i].by].pc = "resumed"
                 /\ queue'[i].rec.phase \in IF store.phase = "awaiting"
                                            THEN {Disposition(store, store.code)}
                                            ELSE Behind(store.phase)
      BY <3>2, <3>3, <3>4, <3>5
    <3>7. ASSUME NEW i \in Writes', NEW j \in Writes', i < j
          PROVE  queue'[j].rec.phase \in Behind(queue'[i].rec.phase)
      BY <3>1, <3>3, <3>4, <3>5, <3>7
    <3> QED BY <1>2, <3>6, <3>7 DEF PhaseShape
  <2>11. RemovalShape'
    BY <1>0, <1>2, <1>5, <2>1, <2>2 DEF RemovalShape, Gone, Superseded
  <2>12. FallbackShape'
    <3>1. ASSUME fallback.code # None
          PROVE  /\ q.turn >= fallback.turn
                 /\ q.turn = fallback.turn + 1 /\ q.code = fallback.code =>
                       q.used /\ q.phase \in {"awaiting", "operator"}
      <4>1. /\ store.phase = "awaiting" /\ fallback.code \in Unknown
            /\ store.turn >= fallback.turn
            /\ store.turn = fallback.turn + 1 /\ store.code = fallback.code => store.used
        BY <1>0, <2>0, <2>4, <3>1 DEF FallbackShape, IsPhase
      <4>2. ASSUME store.used, store.code = fallback.code
            PROVE  Disposition(store, store.code) = "operator"
        BY <4>1, <4>2, ApiAssumption DEF Disposition
      <4> QED BY <2>0, <4>1, <4>2 DEF Kin
    <3> QED BY <1>0, <1>2, <2>1, <3>1 DEF FallbackShape
  <2> QED BY <1>2, <1>3, <2>7, <2>8, <2>9, <2>10, <2>11, <2>12 DEF FShape
<1> QED BY <1>1, <1>10, <1>11, <1>12

-----------------------------------------------------------------------------
(* The pieces of handlers and the fallback.                                *)

LEMMA ReturnGoes ==
    ASSUME NEW h \in Handlers, task' = [task EXCEPT ![h] = Idle], queue' = queue
    PROVE  Goes(h)
<1>1. Idle \in Task /\ Places(Idle)
  BY IdleTask DEF Places
<1> QED BY <1>1 DEF Goes

LEMMA PutGoes ==
    ASSUME IInv, NEW h \in Handlers, NEW r \in Incident,
           NEW pc \in {"publish", "retry"}, Put(h, pc, r), FitsSchema(r) => Succeeds(r),
           pc = "retry" => r.phase = "scheduled"
    PROVE  Goes(h)
<1>1. CASE FitsSchema(r)
  <2> DEFINE t == At(pc, r, 0, task[h].busy)
  <2>1. t \in Task
    <3>1. task[h].busy \in BOOLEAN
      BY TypeParts DEF IInv, Tasks, Task
    <3> QED BY <3>1, AtTask
  <2>2. t.pc = pc /\ t.rec = r
    BY DEF At
  <2>3. task' = [task EXCEPT ![h] = t] /\ Enqueue("put", h, r)
    BY <1>1 DEF Put
  <2> HIDE DEF t
  <2>4. Places(t)
    BY <2>2 DEF Places
  <2>5. queue' = Append(queue, [kind |-> "put", by |-> h, rec |-> t.rec]) /\ Succeeds(t.rec)
    BY <1>1, <2>2, <2>3 DEF Enqueue
  <2> QED BY <2>1, <2>3, <2>4, <2>5 DEF Goes
<1>2. CASE ~FitsSchema(r)
  BY <1>2, ReturnGoes DEF Put
<1> QED BY <1>1, <1>2

LEMMA RemoveGoes ==
    ASSUME NEW h \in Handlers, NEW r \in Incident, NEW busy \in BOOLEAN,
           NEW pc \in {"clear", "remove"}, RemoveStored(h, r, pc, busy), Over(r, busy)
    PROVE  Goes(h)
<1> DEFINE t == At(pc, r, 0, busy)
<1>1. t \in Task
  BY AtTask
<1>2. t.pc = pc /\ t.rec = r /\ t.busy = busy
  BY DEF At
<1>3. task' = [task EXCEPT ![h] = t] /\ Enqueue("remove", h, r)
  BY DEF RemoveStored
<1> HIDE DEF t
<1>4. Places(t)
  BY <1>2 DEF Places
<1>5. queue' = Append(queue, [kind |-> "remove", by |-> h, rec |-> t.rec]) /\ Over(t.rec, t.busy)
  BY <1>2, <1>3 DEF Enqueue
<1> QED BY <1>1, <1>3, <1>4, <1>5 DEF Goes

(* A scheduled incident that does not match is dropped because the Goal went on
   without it. *)
LEMMA DropGone ==
    ASSUME IInv, OrderShape, FShape, NEW r \in Incident, store = r,
           r.phase = "scheduled", ~GoalApplied(r), ~Matches(r, r.ref.rev)
    PROVE  Gone(r)
<1>1. r \in Filed /\ Known(r)
  BY ApiAssumption, FiledTypes DEF OrderShape, ChainShape
<1>2. /\ install.rev <= goal.rev /\ r.ref.rev <= install.rev
      /\ r.turn <= Len(log)
      /\ r.ref.asg = install.asg /\ goal.rev = r.ref.rev => ~goal.armed
  BY <1>1 DEF FShape, RevisionShape, EndedShape
<1>3. /\ goal.rev \in Nat /\ install.rev \in Nat /\ install.asg \in Nat
      /\ goal.armed \in BOOLEAN
  BY TypeParts DEF IInv, Data
<1>4. r.ref \in [asg : Nat, rev : Nat]
  BY DEF Incident
<1>5. CASE r.ref.asg < install.asg
  BY <1>5 DEF Gone, Superseded
<1>6. CASE r.ref.asg = install.asg
  <2>1. Resolved
    BY <1>1, <1>6 DEF Known
  <2>2. goal.rev # r.ref.rev
    <3> SUFFICES ASSUME goal.rev = r.ref.rev PROVE FALSE
      OBVIOUS
    <3>1. install.rev = r.ref.rev
      BY <1>2, <1>3, <1>4
    <3> QED BY <1>2, <1>6, <2>1, <3>1 DEF Matches, Reference
  <2>3. goal.rev = r.ref.rev + 1 => ~goal.armed
    <3> SUFFICES ASSUME goal.rev = r.ref.rev + 1, goal.armed PROVE FALSE
      BY <1>3
    <3>1. install.rev \in {r.ref.rev, goal.rev}
      BY <1>2, <1>3, <1>4
    <3> QED BY <1>6, <2>1, <3>1 DEF GoalApplied, Resolved
  <2> QED BY <1>2, <1>3, <1>4, <2>2, <2>3 DEF Gone
<1> QED BY <1>1, <1>3, <1>4, <1>5, <1>6 DEF Known

LEMMA ResumeExactGoes ==
    ASSUME IInv, FShape, NEW h \in Handlers, NEW r \in Incident,
           NEW pc \in {"enter", "adopt"}, NEW rev \in Nat, store = r,
           r.phase = "scheduled", pc = "enter" => rev = r.ref.rev,
           ResumeExact(h, pc, r, rev)
    PROVE  Goes(h) /\ SameTurn
<1>0. agent \in Agents
  BY TypeParts DEF IInv
<1>1. CASE PromoteOperator(h, r) /\ UNCHANGED <<agent, inFlight>>
  <2>1. FitsSchema(r)
    BY ApiAssumption, FiledTypes DEF FShape, EndedShape
  <2>2. ~FitsSchema([r EXCEPT !.phase = "operator"])
    BY <2>1 DEF FitsSchema, Incident
  <2> QED BY <1>1, <2>2, ReturnGoes DEF PromoteOperator, Put, SameTurn
<1>2. CASE /\ agent' = [agent EXCEPT !.claim = h]
           /\ task' = [task EXCEPT ![h] = At(pc, r, rev, TRUE)]
           /\ UNCHANGED queue
  <2> DEFINE t == At(pc, r, rev, TRUE)
  <2>1. t \in Task /\ t.pc = pc /\ t.rec = r /\ t.arg = rev
    BY AtTask DEF At
  <2>2. task' = [task EXCEPT ![h] = t]
    BY <1>2
  <2> HIDE DEF t
  <2>3. Places(t)
    BY <2>1 DEF Places
  <2>4. Goes(h)
    BY <1>2, <2>1, <2>2, <2>3 DEF Goes
  <2> QED BY <1>0, <1>2, <2>4 DEF Agents, SameTurn
<1>3. CASE /\ agent' = [agent EXCEPT !.awaited = TRUE]
           /\ task' = [task EXCEPT ![h] = Idle]
           /\ UNCHANGED <<inFlight, queue>>
  BY <1>0, <1>3, ReturnGoes DEF Agents, SameTurn
<1> QED BY <1>1, <1>2, <1>3 DEF ResumeExact

LEMMA StaysGoes ==
    ASSUME NEW h \in Handlers, Return(h)
    PROVE  Goes(h) /\ SameTurn
BY ReturnGoes DEF Return, SameTurn

LEMMA ResumeScheduledGoes ==
    ASSUME IInv, OrderShape, FShape, NEW h \in Handlers, NEW r \in Incident,
           r.phase = "scheduled", ResumeScheduled(h, r)
    PROVE  Goes(h) /\ SameTurn
<1>1. goal.rev \in Nat /\ r.ref.rev \in Nat
  BY RevisionType
<1>2. CASE ~MayResume(r)
  BY <1>2, StaysGoes DEF ResumeScheduled
<1>3. CASE MayResume(r) /\ GoalApplied(r)
  <2>1. ResumeExact(h, "adopt", r, goal.rev) /\ store = r
    BY <1>3 DEF ResumeScheduled, MayResume, IsCurrent
  <2> QED BY <1>1, <2>1, ResumeExactGoes
<1>4. CASE MayResume(r) /\ ~GoalApplied(r) /\ Matches(r, r.ref.rev)
  <2>1. ResumeExact(h, "enter", r, r.ref.rev) /\ store = r
    BY <1>4 DEF ResumeScheduled, MayResume, IsCurrent
  <2> QED BY <1>1, <2>1, ResumeExactGoes
<1>5. CASE MayResume(r) /\ ~GoalApplied(r) /\ ~Matches(r, r.ref.rev)
  <2>1. Drop(h, r) /\ store = r
    BY <1>5 DEF ResumeScheduled, MayResume, IsCurrent
  <2>2. Over(r, FALSE)
    BY <1>5, <2>1, DropGone DEF Over
  <2> QED BY <2>1, <2>2, RemoveGoes DEF Drop, SameTurn
<1> QED BY <1>2, <1>3, <1>4, <1>5

(* The Goal of a recovering incident runs. *)
LEMMA ResumeRecoveringGoes ==
    ASSUME FShape, NEW h \in Handlers, NEW r \in Incident, r.phase = "recovering",
           ResumeRecovering(h, r)
    PROVE  Goes(h) /\ SameTurn
<1>1. CASE ~MayResume(r)
  BY <1>1, StaysGoes DEF ResumeRecovering
<1>2. CASE MayResume(r)
  <2>1. Live(r)
    BY <1>2, ApiAssumption DEF MayResume, IsCurrent, FShape, LiveShape, IsPhase
  <2>2. Return(h)
    BY <1>2, <2>1 DEF ResumeRecovering, Live
  <2> QED BY <2>2, StaysGoes
<1> QED BY <1>1, <1>2

LEMMA ResumeOperatorGoes ==
    ASSUME IInv, Calm, FShape, NEW h \in Handlers, NEW r \in Incident,
           r.phase = "operator", ResumeOperator(h, r)
    PROVE  Goes(h) /\ SameTurn
<1>1. now \in Nat
  BY TypeParts DEF IInv, Data
<1>2. CASE ~IsCurrent(r) \/ (Matches(r, r.ref.rev) /\ goal.spent)
  BY <1>2, StaysGoes DEF ResumeOperator
<1>3. CASE IsCurrent(r) /\ ~Matches(r, r.ref.rev)
  <2>1. Over(r, FALSE)
    BY DEF Over
  <2>2. RemoveStored(h, r, "remove", FALSE) /\ agent' = agent
    BY <1>3 DEF ResumeOperator, Drop
  <2> QED BY <2>1, <2>2, RemoveGoes DEF SameTurn
<1>4. CASE IsCurrent(r) /\ Matches(r, r.ref.rev) /\ ~goal.spent
  <2> DEFINE s == [r EXCEPT !.phase = "scheduled", !.due = now]
  <2>1. store = r /\ store # None /\ pending = None
    BY <1>4, IdleNoCandidate, ApiAssumption DEF IsCurrent
  <2>2. s \in Incident /\ Kin(s, store) /\ s.code = store.code /\ s.phase = "scheduled"
    BY <1>1, <2>1, RetriedType DEF Kin, Incident
  <2>3. Put(h, "retry", s) /\ agent' = agent
    BY <1>4 DEF ResumeOperator
  <2> HIDE DEF s
  <2>4. FitsSchema(s) => Succeeds(s)
    BY <2>1, <2>2 DEF Succeeds
  <2> QED BY <2>2, <2>3, <2>4, PutGoes DEF SameTurn
<1> QED BY <1>2, <1>3, <1>4

LEMMA TurnEndGoes ==
    ASSUME IInv, NEW h \in Handlers, NEW n \in Nat, TurnEndHandler(h, n), queue' = queue
    PROVE  Goes(h)
<1>1. CASE task' = [task EXCEPT ![h] = Idle]
  BY <1>1, ReturnGoes
<1>2. CASE /\ CurrentRecord # None
           /\ task' = [task EXCEPT ![h] = At("flush", CurrentRecord, n, FALSE)]
  <2> DEFINE t == At("flush", CurrentRecord, n, FALSE)
  <2>1. CurrentRecord \in Incident
    BY <1>2, TypeParts DEF IInv, Data, CurrentRecord
  <2>2. t \in Task /\ t.pc = "flush"
    BY <2>1, AtTask DEF At
  <2>3. task' = [task EXCEPT ![h] = t]
    BY <1>2
  <2> HIDE DEF t
  <2>4. Places(t)
    BY <2>2 DEF Places
  <2> QED BY <2>2, <2>3, <2>4 DEF Goes
<1> QED BY <1>1, <1>2 DEF TurnEndHandler, IsPhase

LEMMA ReconcileTurnGoes ==
    ASSUME IInv, NEW h \in Handlers, NEW n, ReconcileTurn(h, n)
    PROVE  Goes(h) /\ SameTurn
<1>1. CASE n \in 1..Len(log)
  <2>1. n \in Nat
    BY <1>1, TypeParts DEF IInv, Data
  <2> QED BY <1>1, <2>1, TurnEndGoes DEF ReconcileTurn, SameTurn
<1>2. CASE n \notin 1..Len(log)
  BY <1>2, ReturnGoes DEF ReconcileTurn, SameTurn
<1> QED BY <1>1, <1>2

LEMMA ArmStays ==
    ASSUME NEW r \in Incident, r.phase = "scheduled", timer' = Arm(r)
    PROVE  TimerStays
BY DEF Arm, TimerStays

LEMMA AgentReadyGoes ==
    ASSUME IInv, OrderShape, FShape, NEW h \in Handlers, AgentReady(h)
    PROVE  Goes(h) /\ SameTurn /\ TimerStays
<1> DEFINE r == CurrentRecord
           early == IsPhase(r, "scheduled") /\ r.due > now
           skips == ~started \/ ~agent.up \/ r = None \/ early
<1>1. r = None \/ r \in Incident
  BY TypeParts DEF IInv, Data, CurrentRecord
<1>2. TimerStays
  <2>1. CASE timer' = timer
    BY <2>1 DEF TimerStays
  <2>2. CASE early /\ timer' = Arm(r)
    BY <1>1, <2>2, ArmStays DEF IsPhase
  <2> QED BY <2>1, <2>2 DEF AgentReady
<1>3. CASE skips
  BY <1>2, <1>3, StaysGoes DEF AgentReady
<1>4. CASE ~skips
  <2>1. r \in Incident
    BY <1>1, <1>4
  <2>2. r.phase \in {"awaiting", "scheduled", "operator", "recovering"}
    BY <2>1 DEF Incident
  <2>3. CASE r.phase = "awaiting"
    BY <1>2, <1>4, <2>3, ReconcileTurnGoes DEF AgentReady
  <2>4. CASE r.phase = "scheduled"
    BY <1>2, <1>4, <2>1, <2>4, ResumeScheduledGoes DEF AgentReady
  <2>5. CASE r.phase = "operator"
    BY <1>2, <1>4, <2>5, StaysGoes DEF AgentReady
  <2>6. CASE r.phase = "recovering"
    BY <1>2, <1>4, <2>1, <2>6, ReconcileTurnGoes, ResumeRecoveringGoes
       DEF AgentReady
  <2> QED BY <2>2, <2>3, <2>4, <2>5, <2>6
<1> QED BY <1>3, <1>4

-----------------------------------------------------------------------------
(* The actions of handlers and the fallback.                               *)

LEMMA HandlerGoes ==
    ASSUME IInv, OrderShape, FShape, NEW h \in Handlers, Unqueued(h), Goes(h),
           SameTurn, TimerStays,
           UNCHANGED <<log, store, install, goal, fallback>>
    PROVE  FShape'
BY GoesFallback DEF Still

LEMMA RemoveCurrentGoes ==
    ASSUME NEW h \in Handlers, NEW r \in Incident, RemoveCurrent(h, r), pending # r,
           Over(r, FALSE)
    PROVE  Goes(h) /\ TimerStays
BY RemoveGoes DEF RemoveCurrent, TimerStays

LEMMA TerminalSavedFallback ==
    ASSUME IInv, OrderShape, Calm, FShape, NEW h \in Handlers, TerminalSaved(h)
    PROVE  FShape'
<1> DEFINE r == task[h].rec
           phase == Disposition(r, r.code)
<1>1. task[h].pc = "flush" /\ Unqueued(h) /\ r \in Incident /\ task[h] \in Task
  BY ReadyWhen, TaskIncident DEF TerminalSaved, Ready
<1>2. UNCHANGED <<agent, log, goal, install, store, fallback>> /\ r.phase = "awaiting"
  BY DEF TerminalSaved, history
<1>3. pending # r
  BY <1>1, <1>2, FlushIsStored
<1>4. Goes(h) /\ TimerStays
  <2>1. CASE ~StillWaits(r)
    BY <2>1, ReturnGoes DEF TerminalSaved, GiveUp, TimerStays
  <2>2. CASE StillWaits(r) /\ log[task[h].arg] # r.code
    <3>1. Over(r, FALSE)
      BY <1>1, <1>2 DEF Over
    <3> QED BY <1>1, <1>3, <2>2, <3>1, RemoveCurrentGoes DEF TerminalSaved
  <2>3. CASE StillWaits(r) /\ log[task[h].arg] = r.code
    <3> DEFINE used == r.used /\ phase = "operator"
               s == [r EXCEPT !.phase = phase, !.used = used,
                         !.due = IF phase = "scheduled" THEN now + 1 ELSE None]
    <3>1. phase \in {"scheduled", "operator"} /\ used \in BOOLEAN
      BY DEF Disposition
    <3>2. now \in Nat
      BY TypeParts DEF IInv, Data
    <3>3. Put(h, "publish", s) /\ TimerStays
      BY <2>3 DEF TerminalSaved, TimerStays
    <3>4. /\ s.at = r.at /\ s.turn = r.turn /\ s.ref = r.ref /\ s.code = r.code
          /\ s.phase = phase /\ (phase = "operator" => s.used = r.used)
      BY <1>1 DEF Incident
    <3>5. pending = None /\ store = r /\ store # None
      BY <1>1, <1>3, <2>3, ApiAssumption DEF StillWaits, CurrentRecord
    <3>6. store.turn <= Len(log)
      <4>1. task[h].arg \in 1..Len(log) /\ task[h].arg = r.turn
        BY <1>1, <1>2, TypeParts DEF IInv, Tasks, OrderShape, WaitShape
      <4> QED BY <3>5, <4>1
    <3>7. phase = Disposition(store, store.code) /\ store.phase = "awaiting"
      BY <1>2, <3>5
    <3> HIDE DEF phase, used
    <3>8. s \in Incident
      BY <1>1, <3>1, <3>2, TerminalType
    <3> HIDE DEF s
    <3>9. FitsSchema(s) => Succeeds(s)
      BY <3>4, <3>5, <3>6, <3>7, <3>8 DEF Succeeds, Kin
    <3> QED BY <3>3, <3>8, <3>9, PutGoes
  <2> QED BY <2>1, <2>2, <2>3
<1> QED BY <1>1, <1>2, <1>4, HandlerGoes DEF SameTurn

LEMMA SettlementSavedFallback ==
    ASSUME IInv, OrderShape, Calm, FShape, NEW h \in Handlers, SettlementSaved(h)
    PROVE  FShape'
<1> DEFINE r == task[h].rec
           n == task[h].arg
           ends == log[n] = None \/ ~Resolved \/ install.asg # r.ref.asg
<1>1. task[h].pc = "flush" /\ Unqueued(h) /\ r \in Incident /\ task[h] \in Task
  BY ReadyWhen, TaskIncident DEF SettlementSaved, Ready
<1>2. /\ UNCHANGED <<agent, log, goal, install, store, fallback>>
      /\ r.phase = "recovering"
  BY DEF SettlementSaved, history
<1>3. pending # r
  BY <1>1, <1>2, FlushIsStored
<1>4. Goes(h) /\ TimerStays
  <2>1. CASE ~started \/ store # r
    BY <2>1, ReturnGoes DEF SettlementSaved, GiveUp, TimerStays
  <2>2. CASE started /\ store = r
    <3>1. n \in 1..Len(log) /\ n > r.turn
      BY <1>1, <1>2, TypeParts DEF IInv, Tasks, OrderShape, WaitShape
    <3>2. Known(r)
      BY <1>1, <2>2, ApiAssumption DEF OrderShape, ChainShape
    <3>3. install.asg \in Nat /\ r.ref.asg \in Nat /\ r.turn \in Nat /\ Len(log) \in Nat
      <4>1. install.asg \in Nat /\ Len(log) \in Nat
        BY TypeParts DEF IInv, Data
      <4>2. r.ref.asg \in Nat /\ r.turn \in Nat
        BY <1>1 DEF Incident
      <4> QED BY <4>1, <4>2
    <3>4. ends
      BY <3>1, <3>2, <3>3 DEF Known, Superseded
    <3>5. RemoveCurrent(h, r)
      BY <2>2, <3>4 DEF SettlementSaved
    <3>6. Over(r, FALSE)
      BY <1>1, <1>2, <3>1, <3>3 DEF Over
    <3> QED BY <1>1, <1>3, <3>5, <3>6, RemoveCurrentGoes
  <2> QED BY <2>1, <2>2
<1> QED BY <1>1, <1>2, <1>4, HandlerGoes DEF SameTurn

(* The handlers that return without a write. *)
LEMMA ReturningFallback ==
    ASSUME IInv, OrderShape, FShape, NEW h \in Handlers,
           \/ Published(h) \/ WriteFailed(h) \/ Removed(h) \/ LeaveMaintenance(h)
           \/ RequestRecorded(h)
    PROVE  FShape'
<1>1. Unqueued(h)
  <2>1. \/ task[h].pc \notin PutWaits \cup RemoveWaits
        \/ task[h].result # "none"
    BY DEF Published, WriteFailed, Removed, LeaveMaintenance, RequestRecorded
  <2> QED BY <2>1, UnqueuedWhen DEF IInv
<1>2. Goes(h)
  <2>1. task' = [task EXCEPT ![h] = Idle] /\ queue' = queue
    BY DEF Published, WriteFailed, Removed, LeaveMaintenance, RequestRecorded, GiveUp
  <2> QED BY <2>1, ReturnGoes
<1>3. TimerStays
  <2>1. CASE Published(h)
    <3>1. task[h].rec \in Incident
      BY <2>1, TaskIncident DEF Published
    <3> QED BY <2>1, <3>1, ArmStays DEF Published, TimerStays
  <2>2. CASE \/ WriteFailed(h) \/ Removed(h) \/ LeaveMaintenance(h)
             \/ RequestRecorded(h)
    BY <2>2 DEF WriteFailed, Removed, LeaveMaintenance, RequestRecorded, GiveUp, TimerStays
  <2> QED BY <2>1, <2>2
<1>4. UNCHANGED <<log, store, install, goal, fallback>> /\ SameTurn
  <2>1. agent \in Agents
    BY TypeParts DEF IInv
  <2> QED BY <2>1 DEF Published, WriteFailed, Removed, LeaveMaintenance, RequestRecorded,
             session, history, Agents, SameTurn
<1> QED BY <1>1, <1>2, <1>3, <1>4, HandlerGoes

LEMMA TimerFallback ==
    ASSUME IInv, OrderShape, Calm, FShape, NEW h \in Handlers,
           TimerFires(h) \/ Rescheduled(h) \/ OperatorWhenIdle(h)
    PROVE  FShape'
<1>1. Unqueued(h)
  BY ReadyWhen DEF TimerFires, Rescheduled, OperatorWhenIdle, Free, Ready
<1>2. Goes(h) /\ SameTurn /\ TimerStays
  <2>1. CASE TimerFires(h)
    <3>1. timer \in Incident /\ timer.phase = "scheduled"
      BY <2>1, TypeParts DEF IInv, Data, TimerFires, FShape, DueShape
    <3> QED BY <2>1, <3>1, ResumeScheduledGoes DEF TimerFires, TimerStays
  <2>2. CASE Rescheduled(h)
    <3>1. task[h].rec \in Incident /\ task[h].rec.phase = "scheduled"
      BY <2>2, TaskIncident DEF Rescheduled, FShape, DueShape
    <3> QED BY <2>2, <3>1, ResumeScheduledGoes DEF Rescheduled, TimerStays
  <2>3. CASE OperatorWhenIdle(h)
    <3>1. task[h].rec \in Incident /\ task[h].rec.phase = "operator"
      BY <2>3, TaskIncident DEF OperatorWhenIdle, FShape, DueShape
    <3> QED BY <2>3, <3>1, ResumeOperatorGoes DEF OperatorWhenIdle, TimerStays
  <2> QED BY <2>1, <2>2, <2>3
<1>3. UNCHANGED <<log, store, install, goal, fallback>>
  BY DEF TimerFires, Rescheduled, OperatorWhenIdle, session, history
<1> QED BY <1>1, <1>2, <1>3, HandlerGoes

LEMMA EdgeFallback ==
    ASSUME IInv, OrderShape, Calm, FShape, NEW h \in Handlers, Edge(h)
    PROVE  FShape'
<1>1. Unqueued(h) /\ task[h].pc = "free"
  BY ReadyWhen DEF Edge, IdleEdge, AdapterPass, Reconcile, Free, Ready
<1>2. Goes(h) /\ SameTurn /\ TimerStays
  <2>0. store = None \/ store \in Incident
    BY TypeParts DEF IInv, Data
  <2>1. CASE IdleEdge(h)
    BY <2>1, AgentReadyGoes DEF IdleEdge
  <2>2. CASE Reconcile(h)
    <3>1. CASE IsPhase(store, "scheduled") /\ timer' = Arm(store) /\ Return(h)
      BY <2>0, <3>1, ArmStays, StaysGoes DEF IsPhase
    <3>2. CASE AgentReady(h)
      BY <3>2, AgentReadyGoes
    <3> QED BY <2>2, <3>1, <3>2 DEF Reconcile
  <2>3. CASE AdapterPass(h)
    <3> DEFINE none == pending # None \/ store = None \/ ~agent.up
    <3>0. agent \in Agents /\ task \in [Handlers -> Task]
      BY TypeParts DEF IInv, Tasks
    <3>1. CASE none
      BY <2>3, <3>1, StaysGoes DEF AdapterPass, TimerStays
    <3>2. CASE ~none /\ agent.status # "idle" /\ store.phase = "operator"
      <4> DEFINE t == At("whenIdle", store, 0, FALSE)
      <4>1. /\ task' = [task EXCEPT ![h] = t]
            /\ UNCHANGED <<agent, queue, timer>>
        BY <2>3, <3>2 DEF AdapterPass
      <4>2. t \in Task /\ t.pc = "whenIdle" /\ t.rec = store
        BY <2>0, <3>2, AtTask DEF At
      <4> HIDE DEF t
      <4>3. Places(t)
        BY <3>2, <4>2 DEF Places
      <4> QED BY <4>1, <4>2, <4>3 DEF Goes, TimerStays, SameTurn
    <3>3. CASE ~none /\ agent.status # "idle" /\ store.phase # "operator"
      <4>1. /\ agent' = [agent EXCEPT !.awaited = TRUE]
            /\ UNCHANGED <<task, queue, timer>>
        BY <2>3, <3>3 DEF AdapterPass
      <4>2. task' = [task EXCEPT ![h] = task[h]] /\ task[h] \in Task
        BY <3>0, <4>1
      <4>3. Places(task[h])
        BY <1>1 DEF Places
      <4>4. Goes(h)
        BY <4>1, <4>2, <4>3 DEF Goes
      <4> QED BY <3>0, <4>1, <4>4 DEF Agents, TimerStays, SameTurn
    <3>4. CASE ~none /\ agent.status = "idle" /\ store.phase = "operator"
      <4>1. ResumeOperator(h, store) /\ TimerStays
        BY <2>3, <3>4 DEF AdapterPass, TimerStays
      <4> QED BY <2>0, <3>4, <4>1, ResumeOperatorGoes
    <3>5. CASE ~none /\ agent.status = "idle" /\ store.phase # "operator"
      BY <2>3, <3>5, AgentReadyGoes DEF AdapterPass
    <3> QED BY <3>1, <3>2, <3>3, <3>4, <3>5
  <2> QED BY <2>1, <2>2, <2>3 DEF Edge
<1>3. UNCHANGED <<log, store, install, goal, fallback>>
  BY DEF Edge, IdleEdge, AdapterPass, Reconcile, session, history
<1> QED BY <1>1, <1>2, <1>3, HandlerGoes

LEMMA AdaptersUpdatedFallback ==
    ASSUME IInv, OrderShape, FShape, NEW h \in Handlers, AdaptersUpdated(h)
    PROVE  FShape'
<1>1. Unqueued(h)
  BY ReadyWhen DEF AdaptersUpdated, Free, Ready
<1>2. Goes(h) /\ SameTurn /\ TimerStays
  BY ReconcileTurnGoes, StaysGoes DEF AdaptersUpdated, TimerStays
<1> QED BY <1>1, <1>2, HandlerGoes DEF AdaptersUpdated, session, history

-----------------------------------------------------------------------------
(* The resume of the Goal, the end of a turn and a new failure.            *)

(* While no candidate is in memory every incident on file is the stored one. *)
LEMMA OneIncident ==
    ASSUME IInv, OrderShape, pending = None, store # None
    PROVE  /\ \A i \in Writes : ~OfRequest(i)
           /\ \A r \in Filed : Kin(r, store)
<1>1. \A i \in Writes : ~OfRequest(i)
  BY NoRequest, QueuedRecords DEF OfRequest, Writes
<1>2. \A i \in Writes : Kin(queue[i].rec, store)
  BY <1>1 DEF OrderShape, ChainShape
<1> QED BY <1>1, <1>2 DEF Filed, Kin

LEMMA ResumedFallback ==
    ASSUME IInv, OrderShape, Calm, FShape, NEW h \in Handlers, EnterMaintenance(h),
           started, StillExact(h, task[h].rec)
    PROVE  FShape'
<1> DEFINE revision == IF task[h].pc = "adopt" THEN goal.rev ELSE goal.rev + 1
<1>0. /\ RevisionShape /\ EndedShape /\ LiveShape /\ PhaseShape /\ DueShape
      /\ RemovalShape /\ FallbackShape /\ FaultShape
      /\ task \in [Handlers -> Task] /\ Len(log) \in Nat
      /\ goal \in [asg : Nat, rev : Nat, armed : BOOLEAN, spent : BOOLEAN]
  BY TypeParts DEF FShape, IInv, Tasks, Data
<1>1. PICK r \in Incident : r = task[h].rec
  BY TaskIncident DEF EnterMaintenance
<1>2. /\ task[h].pc \in {"enter", "adopt"} /\ Unqueued(h) /\ task[h].busy
      /\ task[h] \in Task /\ pending = None /\ agent.status = "idle"
  <2>1. task[h].pc \in {"enter", "adopt"}
    BY DEF EnterMaintenance
  <2>2. Unqueued(h)
    BY <2>1, UnqueuedWhen DEF IInv, PutWaits, RemoveWaits
  <2>3. task[h].busy /\ agent.claim = h
    BY <2>1 DEF IInv, ClaimShape, Claiming
  <2>4. agent.status = "idle"
    BY <2>3, ApiAssumption DEF IInv, ClaimShape
  <2> QED BY <1>0, <2>1, <2>2, <2>3, <2>4, IdleNoCandidate
<1>3. /\ store = r /\ r \in Filed /\ store # None /\ r.phase = "scheduled"
      /\ r.turn <= Len(log) /\ r.turn \in Nat /\ r.ref \in [asg : Nat, rev : Nat]
  <2>1. store = r /\ store # None
    BY <1>1, ApiAssumption DEF StillExact
  <2>2. r \in Filed /\ r.phase = "scheduled"
    BY <1>0, <1>1, <1>2, <2>1, FiledTypes DEF DueShape
  <2> QED BY <1>0, <2>1, <2>2 DEF EndedShape, Incident
<1>4. /\ install.asg = r.ref.asg /\ goal.asg = r.ref.asg
      /\ revision = r.ref.rev + 1 /\ install.rev \in {r.ref.rev, revision}
      /\ task[h].pc = "adopt" => goal.rev = revision /\ goal.armed
      /\ task[h].pc # "adopt" => revision = goal.rev + 1
  <2>1. CASE task[h].pc = "adopt"
    BY <1>1, <2>1 DEF StillExact, GoalApplied, Resolved
  <2>2. CASE task[h].pc = "enter"
    <3>1. Matches(r, r.ref.rev)
      BY <1>0, <1>1, <2>2 DEF StillExact, DueShape
    <3>2. install.asg = r.ref.asg /\ install.rev = r.ref.rev
      BY <1>3, <3>1 DEF Matches, Reference
    <3> QED BY <2>2, <3>1, <3>2 DEF Matches, Resolved
  <2> QED BY <1>2, <2>1, <2>2
<1>5. PICK q \in Incident :
        /\ queue' = Append(queue, [kind |-> "put", by |-> h, rec |-> q])
        /\ task' = [task EXCEPT ![h] = At("resumed", q, 0, task[h].busy)]
        /\ q.turn = r.turn /\ q.ref = r.ref /\ q.code = r.code
        /\ q.phase = "recovering" /\ q.resumed = revision /\ FitsSchema(q)
        /\ q.code \in Unknown => q.used
  <2> DEFINE used == r.used \/ r.code \in Unknown
             s == [r EXCEPT !.phase = "recovering", !.due = None,
                            !.resumed = revision, !.used = used]
  <2>1. Put(h, "resumed", s)
    BY <1>1 DEF EnterMaintenance
  <2>2. used \in BOOLEAN /\ revision \in Nat /\ revision # None
    BY <1>0, ApiAssumption DEF Incident
  <2>3. /\ s.turn = r.turn /\ s.ref = r.ref /\ s.code = r.code
        /\ s.phase = "recovering" /\ s.resumed = revision /\ s.due = None
        /\ s.code \in Unknown => s.used
    BY DEF Incident
  <2> HIDE DEF revision, used
  <2>4. s \in Incident
    BY <2>2, ResumedType
  <2> HIDE DEF s
  <2>5. FitsSchema(s)
    BY <2>2, <2>3 DEF FitsSchema
  <2> QED BY <2>1, <2>3, <2>4, <2>5 DEF Put, Enqueue
<1>6. PICK t \in Task :
        /\ task' = [task EXCEPT ![h] = t] /\ t.pc = "resumed" /\ Places(t)
  <2>1. At("resumed", q, 0, task[h].busy) \in Task
    <3>1. task[h].busy \in BOOLEAN
      BY <1>0 DEF Task
    <3> QED BY <3>1, AtTask
  <2> QED BY <1>5, <2>1 DEF At, Places
<1>7. /\ UNCHANGED <<log, store, install, timer, fallback>>
      /\ goal'.asg = goal.asg /\ goal'.rev = revision /\ goal'.armed
      /\ SameTurn /\ agent' = agent
  <2>1. goal' = [goal EXCEPT !.rev = revision, !.armed = TRUE] /\ agent' = agent
    BY <1>1 DEF EnterMaintenance
  <2> QED BY <1>0, <2>1 DEF EnterMaintenance, session, history, SameTurn
<1> HIDE DEF revision
<1>8. PICK n \in 1..Len(queue') : Written(n, h, q)
  <2>1. task' = [task EXCEPT ![h] = t] /\ store' = store /\ Unqueued(h)
    BY <1>2, <1>6, <1>7
  <2>2. queue' = Append(queue, [kind |-> "put", by |-> h, rec |-> q])
    BY <1>5
  <2> QED BY <2>1, <2>2, AppendedWrite
<1>9. /\ Writes' = Writes \cup {n} /\ \A i \in Writes : i < n
      /\ queue'[n].by = h /\ queue'[n].rec = q /\ queue'[n].kind = "put"
      /\ ~OfRequest(n)' /\ Filed' = Filed \cup {q}
      /\ \A i \in 1..Len(queue') : i \in 1..Len(queue) \/ i = n
      /\ task'[h] = t
  BY <1>0, <1>6, <1>8 DEF Written
<1>10. /\ \A i \in 1..Len(queue) :
            /\ queue'[i] = queue[i] /\ (OfRequest(i)' <=> OfRequest(i))
            /\ task'[queue[i].by] = task[queue[i].by]
       /\ \A i \in Writes : i \in 1..Len(queue)
  BY <1>2, <1>5, <1>6, Appended DEF Writes
<1>11. /\ \A i \in Writes : ~OfRequest(i) /\ queue[i].rec.phase = "scheduled"
       /\ \A x \in Filed : x.ref = r.ref /\ x.turn = r.turn
  <2>1. \A i \in Writes : ~OfRequest(i)
    BY <1>2, <1>3, OneIncident
  <2>2. \A x \in Filed : Kin(x, r)
    BY <1>2, <1>3, OneIncident
  <2>3. ASSUME NEW i \in Writes, queue[i].rec.phase = "recovering" PROVE FALSE
    <3>1. task[queue[i].by].pc = "resumed" /\ queue[i].by \in Handlers
      BY <1>0, <2>3, QueuedRecords DEF PhaseShape, Writes
    <3>2. task[queue[i].by].busy
      BY <3>1 DEF IInv, ClaimShape, Claiming
    <3>3. queue[i].by = h
      BY <1>2, <3>1, <3>2 DEF IInv, OneInFlight
    <3> QED BY <1>2, <3>3 DEF Unqueued, Writes
  <2>4. \A i \in Writes : queue[i].rec.phase \in {"scheduled", "recovering"}
    BY <1>0, <1>3, <2>1 DEF PhaseShape, Behind
  <2> QED BY <2>1, <2>2, <2>3, <2>4 DEF Kin
<1>12. RevisionShape'
  BY <1>0, <1>3, <1>4, <1>5, <1>7, <1>9, <1>11 DEF RevisionShape
<1>13. EndedShape'
  <2>1. \A x \in Filed : goal'.rev # x.ref.rev
    BY <1>3, <1>4, <1>7, <1>11
  <2> QED BY <1>0, <1>3, <1>4, <1>5, <1>7, <1>9, <2>1 DEF EndedShape
<1>14. LiveShape'
  <2>1. Live(q)'
    BY <1>3, <1>4, <1>5, <1>7 DEF Live
  <2>2. IsPhase(store', "scheduled")
    BY <1>3, <1>7 DEF IsPhase
  <2> QED BY <1>7, <1>9, <1>10, <1>11, <2>1, <2>2 DEF LiveShape, IsPhase, Live
<1>15. PhaseShape'
  <2>1. ASSUME NEW i \in Writes'
        PROVE  /\ ~OfRequest(i)'
               /\ queue'[i].rec.phase \in {"scheduled", "recovering"}
               /\ i # n => queue'[i].rec.phase = "scheduled"
               /\ queue'[i].rec.phase = "recovering" => task'[queue'[i].by].pc = "resumed"
    BY <1>5, <1>6, <1>9, <1>10, <1>11
  <2>2. ASSUME NEW i \in Writes', NEW j \in Writes', i < j
        PROVE  queue'[i].rec.phase = "scheduled"
    BY <1>9, <1>10, <2>1, <2>2
  <2>3. store'.phase = "scheduled"
    BY <1>3, <1>7
  <2> QED BY <2>1, <2>2, <2>3 DEF PhaseShape, Behind
<1>16. DueShape'
  BY <1>0, <1>6, <1>7, GoesTasks DEF TimerStays
<1>17. RemovalShape'
  <2>1. \A x \in Incident : Gone(x) => Gone(x)'
    <3>1. \A x \in Incident : x.ref.rev \in Nat
      BY DEF Incident
    <3> QED BY <1>0, <1>3, <1>4, <1>7, <3>1 DEF Gone, Superseded
  <2> SUFFICES ASSUME NEW i \in 1..Len(queue'), queue'[i].kind = "remove"
               PROVE  /\ queue'[i].rec.phase = "scheduled" /\ ~task'[queue'[i].by].busy =>
                            Gone(queue[i].rec)'
                      /\ queue'[i].rec.phase = "recovering" => queue'[i].rec.turn < Len(log')
    BY DEF RemovalShape
  <2>2. i \in 1..Len(queue)
    BY <1>9
  <2>3. PICK x \in Incident : x = queue[i].rec
    BY <2>2, QueuedRecords
  <2>4. /\ queue'[i] = queue[i] /\ task'[queue'[i].by] = task[queue[i].by]
    BY <1>10, <2>2
  <2>5. Gone(x)' => Gone(queue[i].rec)'
    BY <2>3, <2>4 DEF Gone, Superseded
  <2>6. /\ x.phase = "scheduled" /\ ~task[queue[i].by].busy => Gone(x)
        /\ x.phase = "recovering" => x.turn < Len(log)
    BY <1>0, <2>2, <2>3, <2>4 DEF RemovalShape
  <2> QED BY <1>7, <2>1, <2>3, <2>4, <2>5, <2>6
<1>18. FallbackShape'
  <2>1. fallback.code # None =>
          /\ q.turn >= fallback.turn
          /\ ~(q.turn = fallback.turn + 1 /\ q.code = fallback.code)
    BY <1>0, <1>3, <1>5 DEF FallbackShape
  <2> QED BY <1>0, <1>7, <1>9, <2>1 DEF FallbackShape
<1>19. FaultShape'
  BY <1>0, <1>7 DEF FaultShape
<1> QED BY <1>12, <1>13, <1>14, <1>15, <1>16, <1>17, <1>18, <1>19 DEF FShape

LEMMA EnterMaintenanceFallback ==
    ASSUME IInv, OrderShape, Calm, FShape, NEW h \in Handlers, EnterMaintenance(h)
    PROVE  FShape'
<1>1. task[h].pc \in {"enter", "adopt"} /\ task[h].rec \in Incident
  BY TaskIncident DEF EnterMaintenance
<1>2. Unqueued(h)
  BY <1>1, UnqueuedWhen DEF IInv, PutWaits, RemoveWaits
<1>3. started
  BY DEF OrderShape, RuntimeShape
<1>4. CASE StillExact(h, task[h].rec)
  BY <1>3, <1>4, ResumedFallback
<1>5. CASE ~StillExact(h, task[h].rec)
  <2>1. /\ RemoveStored(h, task[h].rec, "remove", TRUE)
        /\ UNCHANGED <<log, store, install, goal, fallback, timer>>
        /\ agent' = [agent EXCEPT !.claim = None]
    BY <1>3, <1>5 DEF EnterMaintenance, session, history
  <2>2. Over(task[h].rec, TRUE)
    BY <1>1 DEF Over, FShape, DueShape
  <2>3. Goes(h)
    BY <1>1, <2>1, <2>2, RemoveGoes
  <2>4. agent \in Agents
    BY TypeParts DEF IInv
  <2>5. SameTurn /\ TimerStays
    BY <2>1, <2>4 DEF SameTurn, TimerStays, Agents
  <2> QED BY <1>2, <2>1, <2>3, <2>5, HandlerGoes
<1> QED BY <1>4, <1>5

LEMMA EndTurnFallback ==
    ASSUME IInv, OrderShape, Calm, FShape, NEW h \in Handlers, EndTurn(h)
    PROVE  FShape'
<1>0. /\ RevisionShape /\ EndedShape /\ LiveShape /\ PhaseShape /\ DueShape
      /\ RemovalShape /\ FallbackShape /\ FaultShape /\ queue \in Seq(Operations)
      /\ task \in [Handlers -> Task] /\ Len(log) \in Nat /\ agent \in Agents
      /\ goal \in [asg : Nat, rev : Nat, armed : BOOLEAN, spent : BOOLEAN]
  BY TypeParts DEF FShape, IInv, Tasks, Data
<1>1. /\ UNCHANGED <<install, store, queue, timer, fallback>>
      /\ agent'.status = "idle" /\ Len(log') = Len(log) + 1
      /\ goal'.asg = goal.asg /\ goal'.rev = goal.rev
      /\ goal'.armed = (goal.armed /\ agent.fault = None)
  <2>1. log \in Seq(Codes \cup {None}) /\ agent.fault \in Codes \cup {None}
    BY <1>0, TypeParts DEF IInv, Data, Agents
  <2> QED BY <1>0, <2>1 DEF EndTurn, Agents, history
<1>2. Unqueued(h) /\ \A i \in Handlers : task[i].pc # "request"
  BY ReadyWhen DEF EndTurn, Free, Ready
<1>3. PICK t \in Task : task' = [task EXCEPT ![h] = t] /\ Places(t)
  <2>1. CASE task' = [task EXCEPT ![h] = Idle]
    BY <2>1, IdleTask DEF Places
  <2>2. CASE /\ CurrentRecord # None
             /\ task' = [task EXCEPT ![h] = At("flush", CurrentRecord, Len(log) + 1, FALSE)]
    <3>1. CurrentRecord \in Incident
      BY <2>2, TypeParts DEF IInv, Data, CurrentRecord
    <3> DEFINE t == At("flush", CurrentRecord, Len(log) + 1, FALSE)
    <3>2. t \in Task
      <4>1. Len(log) + 1 \in Nat
        BY <1>0
      <4> QED BY <3>1, <4>1, AtTask
    <3>3. t.pc = "flush"
      BY DEF At
    <3> HIDE DEF t
    <3> QED BY <2>2, <3>2, <3>3 DEF Places, t
  <2> QED BY <2>1, <2>2 DEF EndTurn, TurnEndHandler, IsPhase
<1>4. /\ \A i \in 1..Len(queue) : task'[queue[i].by] = task[queue[i].by]
      /\ Writes' = Writes /\ Filed' = Filed /\ Writes \subseteq 1..Len(queue)
  <2>1. \A i \in Handlers \ {h} : task'[i] = task[i]
    BY <1>0, <1>3
  <2> QED BY <1>0, <1>1, <1>2, <2>1, OthersQueued DEF Writes, Filed
<1>5. \A r \in Incident : r.turn \in Nat /\ r.ref \in [asg : Nat, rev : Nat]
  BY DEF Incident
<1>6. Filed \subseteq Incident /\ \A r \in Filed : Known(r)
  BY FiledTypes DEF Filed, OrderShape, ChainShape
<1>7. agent.status = "failing" => ~goal'.armed
  BY <1>0, <1>1 DEF FaultShape
<1>8. agent.status # "failing" => goal'.armed = goal.armed
  BY <1>0, <1>1 DEF OrderShape, RuntimeShape
<1>9. ASSUME NEW r \in Filed, r.phase = "recovering", Live(r)
      PROVE  Live(r)'
  <2>1. agent.status # "failing"
    <3> SUFFICES ASSUME agent.status = "failing" PROVE FALSE
      OBVIOUS
    <3>1. Covered(r)
      <4>1. /\ store # None => Covered(store)
            /\ \A i \in Writes : Covered(queue[i].rec)
        BY <1>2 DEF OrderShape, FailShape
      <4> QED BY <4>1 DEF Filed
    <3>2. r.turn <= Len(log)
      BY <1>0, <1>9 DEF EndedShape
    <3> QED BY <1>0, <1>5, <1>6, <1>9, <3>1, <3>2 DEF Covered, Superseded, Live
  <2> QED BY <1>1, <1>8, <1>9, <2>1 DEF Live
<1>10. RevisionShape'
  BY <1>0, <1>1, <1>4 DEF RevisionShape
<1>11. EndedShape'
  <2> SUFFICES ASSUME NEW r \in Filed
               PROVE  /\ FitsSchema(r)
                      /\ r.turn # Len(log') + 1
                      /\ r.phase # "awaiting" => r.turn <= Len(log')
                      /\ r.ref.asg = install'.asg /\ goal'.rev = r.ref.rev => ~goal'.armed
                      /\ r.phase = "recovering" /\ r.code \in Unknown => r.used
    BY <1>4 DEF EndedShape
  <2>1. /\ FitsSchema(r) /\ r.turn \in Nat /\ r.turn <= Len(log) + 1
        /\ r.turn = Len(log) + 1 => agent.status = "failing"
        /\ r.phase # "awaiting" => r.turn <= Len(log)
        /\ r.turn <= Len(log) /\ r.ref.asg = install.asg /\ goal.rev = r.ref.rev =>
              ~goal.armed
        /\ r.phase = "recovering" /\ r.code \in Unknown => r.used
    BY <1>0, <1>5, <1>6 DEF EndedShape, Known
  <2> QED BY <1>0, <1>1, <1>7, <1>8, <2>1
<1>12. LiveShape'
  <2>1. ASSUME IsPhase(store, "recovering") PROVE Live(store)'
    <3>1. PICK r \in Filed : r = store
      BY <2>1, FiledTypes DEF IsPhase
    <3>2. Live(r)'
      BY <1>0, <1>9, <2>1, <3>1 DEF LiveShape, IsPhase
    <3> QED BY <1>1, <3>1, <3>2 DEF Live
  <2>2. ASSUME NEW i \in Writes, queue[i].rec.phase = "recovering"
        PROVE  Live(queue[i].rec)'
    <3>1. PICK r \in Filed : r = queue[i].rec
      BY DEF Filed
    <3>2. Live(r)'
      BY <1>0, <1>9, <2>2, <3>1 DEF LiveShape
    <3> QED BY <1>1, <3>1, <3>2 DEF Live
  <2> QED BY <1>0, <1>1, <1>4, <2>1, <2>2 DEF LiveShape, IsPhase, Live
<1>13. PhaseShape'
  <2>1. \A i \in Writes : OfRequest(i)' <=> OfRequest(i)
    BY <1>1, <1>4 DEF OfRequest
  <2>2. \A i \in Writes : task'[queue[i].by] = task[queue[i].by]
    BY <1>4
  <2> SUFFICES ASSUME NEW i \in Writes
               PROVE  /\ OfRequest(i)' <=> queue[i].rec.phase = "awaiting"
                      /\ queue[i].rec.phase = "recovering" =>
                            task'[queue[i].by].pc = "resumed"
                      /\ store # None /\ ~OfRequest(i)' =>
                            queue[i].rec.phase \in IF store.phase = "awaiting"
                                                   THEN {Disposition(store, store.code)}
                                                   ELSE Behind(store.phase)
                      /\ \A j \in Writes : i < j /\ ~OfRequest(j)' =>
                            queue[j].rec.phase \in Behind(queue[i].rec.phase)
    BY <1>1, <1>4 DEF PhaseShape
  <2> QED BY <1>0, <2>1, <2>2 DEF PhaseShape
<1>14. DueShape'
  BY <1>0, <1>1, <1>3, GoesTasks DEF TimerStays
<1>15. RemovalShape'
  <2> SUFFICES ASSUME NEW i \in 1..Len(queue), queue[i].kind = "remove"
               PROVE  /\ queue[i].rec.phase = "scheduled" /\ ~task'[queue[i].by].busy =>
                            Gone(queue[i].rec)'
                      /\ queue[i].rec.phase = "recovering" => queue[i].rec.turn < Len(log')
    BY <1>1 DEF RemovalShape
  <2>1. queue[i].rec.turn \in Nat
    BY <1>5, QueuedRecords
  <2>2. Gone(queue[i].rec) => Gone(queue[i].rec)'
    BY <1>1 DEF Gone, Superseded
  <2> QED BY <1>0, <1>1, <1>4, <2>1, <2>2 DEF RemovalShape
<1>16. FallbackShape'
  BY <1>0, <1>1, <1>4 DEF FallbackShape
<1>17. FaultShape'
  BY <1>1 DEF FaultShape
<1> QED BY <1>10, <1>11, <1>12, <1>13, <1>14, <1>15, <1>16, <1>17 DEF FShape

(* A failure recorded for the turn that followed the resume carries the
   continuation that is spent. *)
LEMMA CarriedFallback ==
    ASSUME IInv, OrderShape, Calm, FShape, agent.status = "running",
           NEW code \in Codes, fallback.code = code, Len(log) = fallback.turn
    PROVE  CarriesFallback(CurrentRecord, code)
<1>1. fallback.code # None /\ code \in Unknown
  BY ApiAssumption DEF FShape, FallbackShape
<1>2. /\ IsPhase(store, "recovering")
      /\ store.turn = fallback.turn /\ store.code = code
  BY <1>1 DEF FShape, FallbackShape
<1>3. store \in Filed
  BY <1>2, FiledTypes DEF IsPhase
<1>4. store.used
  BY <1>1, <1>2, <1>3 DEF FShape, EndedShape, IsPhase
<1>5. Live(store)
  BY <1>2 DEF FShape, LiveShape
<1>6. pending = None
  BY DEF IInv, PendingShape, Calm
<1> QED BY <1>1, <1>2, <1>4, <1>5, <1>6 DEF CarriesFallback, CurrentRecord, Live

LEMMA RequestErrorFallback ==
    ASSUME IInv, OrderShape, Calm, FShape, NEW h \in Handlers, NEW code \in Codes,
           RequestError(h, code)
    PROVE  FShape'
<1>0. /\ RevisionShape /\ EndedShape /\ LiveShape /\ PhaseShape /\ DueShape
      /\ RemovalShape /\ FallbackShape /\ FaultShape /\ queue \in Seq(Operations)
      /\ task \in [Handlers -> Task] /\ Len(log) \in Nat /\ agent \in Agents
      /\ TurnFits /\ count \in Counts /\ Data
  BY TypeParts DEF FShape, IInv, Tasks, Data
<1>1. /\ UNCHANGED <<log, goal, install, store, fallback>>
      /\ agent'.status = "failing" /\ agent'.fault = code
      /\ agent.status = "running" /\ Unqueued(h) /\ task[h].pc = "free"
  BY <1>0, ReadyWhen DEF RequestError, session, history, Agents, Free, Ready
<1>2. FaultShape'
  BY <1>1, ApiAssumption DEF FaultShape
<1>3. CASE ~(started /\ Resolved)
  <2>1. UNCHANGED <<timer, queue, task>>
    BY <1>3 DEF RequestError
  <2>2. Writes' = Writes /\ Filed' = Filed
    BY <1>1, <2>1 DEF Writes, Filed
  <2>3. RevisionShape' /\ EndedShape' /\ FallbackShape'
    BY <1>0, <1>1, <2>2 DEF RevisionShape, EndedShape, FallbackShape
  <2>4. LiveShape' /\ PhaseShape' /\ DueShape' /\ RemovalShape'
    BY <1>0, <1>1, <2>1, <2>2 DEF LiveShape, Live, PhaseShape, OfRequest, DueShape,
       RemovalShape, Gone, Superseded
  <2> QED BY <1>2, <2>3, <2>4 DEF FShape
<1>4. CASE started /\ Resolved
  <2> DEFINE carried == CarriesFallback(CurrentRecord, code)
             a == Awaiting(Len(log) + 1, code, carried, count.recordings + 1)
  <2>1. Put(h, "request", a) /\ timer' = None
    BY <1>4 DEF RequestError
  <2>2. a \in Incident
    <3>1. Len(log) + 1 \in 1..MaxTurns
      BY <1>0, <1>1, ApiAssumption DEF TurnFits, Data
    <3>2. carried \in BOOLEAN
      BY DEF CarriesFallback, IsPhase
    <3>3. Reference \in [asg : Nat, rev : Nat] /\ count.recordings + 1 \in Nat
      BY <1>0 DEF Data, Reference, Counts
    <3> QED BY <3>1, <3>2, <3>3 DEF Awaiting, Incident
  <2>3. PICK q \in Incident :
          /\ q = a /\ FitsSchema(q) /\ q.phase = "awaiting"
          /\ q.turn = Len(log) + 1 /\ q.ref.rev = install.rev /\ q.code = code
          /\ q.used = carried
    BY <2>2 DEF Awaiting, FitsSchema, Reference
  <2> HIDE DEF a
  <2>4. PICK t \in Task : task' = [task EXCEPT ![h] = t] /\ t.pc = "request"
    <3>1. task[h].busy \in BOOLEAN
      BY <1>0 DEF Task
    <3>2. At("request", q, 0, task[h].busy) \in Task
      BY <3>1, AtTask
    <3> QED BY <2>1, <2>3, <3>2 DEF Put, At
  <2>5. queue' = Append(queue, [kind |-> "put", by |-> h, rec |-> q])
    BY <2>1, <2>3 DEF Put, Enqueue
  <2>6. PICK n \in 1..Len(queue') : Written(n, h, q)
    <3>1. task' = [task EXCEPT ![h] = t] /\ store' = store /\ Unqueued(h)
      BY <1>1, <2>4
    <3> QED BY <2>5, <3>1, AppendedWrite
  <2>7. /\ Writes' = Writes \cup {n} /\ \A i \in Writes : i < n
        /\ queue'[n].by = h /\ queue'[n].rec = q /\ queue'[n].kind = "put"
        /\ OfRequest(n)' /\ Filed' = Filed \cup {q}
        /\ \A i \in 1..Len(queue') : i \in 1..Len(queue) \/ i = n
    BY <1>0, <2>4, <2>6 DEF Written
  <2>8. /\ \A i \in 1..Len(queue) :
              /\ queue'[i] = queue[i] /\ (OfRequest(i)' <=> OfRequest(i))
              /\ task'[queue[i].by] = task[queue[i].by]
        /\ \A i \in Writes : i \in 1..Len(queue)
    BY <1>1, <2>4, <2>5, Appended DEF Writes
  <2>9. RevisionShape'
    BY <1>0, <1>1, <2>3, <2>7, TypeParts DEF RevisionShape, IInv, Data
  <2>10. EndedShape'
    BY <1>0, <1>1, <2>3, <2>7 DEF EndedShape
  <2>11. LiveShape'
    BY <1>0, <1>1, <2>3, <2>7, <2>8 DEF LiveShape, IsPhase, Live
  <2>12. PhaseShape'
    <3>1. ASSUME NEW i \in Writes' PROVE ~OfRequest(i)' => i \in Writes
      BY <2>7
    <3>2. \A i \in Writes : ~(n < i) /\ i \in 1..Len(queue)
      BY <2>7, <2>8
    <3>3. ASSUME NEW i \in Writes'
          PROVE  /\ OfRequest(i)' <=> queue'[i].rec.phase = "awaiting"
                 /\ queue'[i].rec.phase = "recovering" => task'[queue'[i].by].pc = "resumed"
                 /\ store' # None /\ ~OfRequest(i)' =>
                      queue'[i].rec.phase \in IF store'.phase = "awaiting"
                                              THEN {Disposition(store', store'.code)}
                                              ELSE Behind(store'.phase)
      <4>1. CASE i = n
        BY <2>3, <2>7, <4>1
      <4>2. CASE i \in Writes
        BY <1>0, <1>1, <2>8, <3>2, <4>2 DEF PhaseShape
      <4> QED BY <2>7, <4>1, <4>2
    <3>4. ASSUME NEW i \in Writes', NEW j \in Writes', i < j, ~OfRequest(j)'
          PROVE  queue'[j].rec.phase \in Behind(queue'[i].rec.phase)
      <4>1. j \in Writes /\ i \in Writes
        BY <2>7, <3>1, <3>2, <3>4
      <4> QED BY <1>0, <2>8, <3>4, <4>1 DEF PhaseShape
    <3> QED BY <3>3, <3>4 DEF PhaseShape
  <2>13. DueShape'
    BY <1>0, <2>1, <2>4 DEF DueShape
  <2>14. RemovalShape'
    BY <1>0, <1>1, <2>7, <2>8 DEF RemovalShape, Gone, Superseded
  <2>15. FallbackShape'
    <3>1. ASSUME fallback.code # None
          PROVE  /\ q.turn >= fallback.turn
                 /\ q.turn = fallback.turn + 1 /\ q.code = fallback.code =>
                       q.used /\ q.phase = "awaiting"
      <4>1. fallback.turn \in Nat /\ fallback.turn <= Len(log)
        BY <1>0, <3>1 DEF FallbackShape
      <4>2. q.turn >= fallback.turn
        BY <1>0, <2>3, <4>1
      <4>3. ASSUME q.turn = fallback.turn + 1, q.code = fallback.code PROVE q.used
        <5>1. Len(log) = fallback.turn /\ fallback.code = code
          BY <1>0, <2>3, <4>1, <4>3
        <5> QED BY <1>1, <2>3, <5>1, CarriedFallback
      <4> QED BY <2>3, <4>2, <4>3
    <3> QED BY <1>0, <1>1, <2>7, <3>1 DEF FallbackShape
  <2> QED BY <1>2, <2>9, <2>10, <2>11, <2>12, <2>13, <2>14, <2>15 DEF FShape
<1> QED BY <1>3, <1>4

-----------------------------------------------------------------------------
(* The queue.                                                              *)

(* The write of a recovering incident waits for an idle Agent, so that every
   incident on file is this one, and it is the only such write. *)
LEMMA RecoveringWrite ==
    ASSUME IInv, OrderShape, Calm, FShape, NEW i \in Writes,
           queue[i].rec.phase = "recovering"
    PROVE  /\ ~OfRequest(i) /\ store # None
           /\ Kin(queue[i].rec, store) /\ \A j \in Writes : Kin(queue[j].rec, queue[i].rec)
           /\ \A j \in 1..Len(queue) : task[queue[j].by].busy => j = i
<1>1. i \in 1..Len(queue) /\ queue[i].by \in Handlers
  BY QueuedRecords DEF Writes
<1>2. /\ task[queue[i].by].pc = "resumed" /\ IsPhase(store, "scheduled")
  BY DEF FShape, PhaseShape, LiveShape
<1>3. /\ task[queue[i].by].busy /\ agent.claim = queue[i].by
  BY <1>1, <1>2 DEF IInv, ClaimShape, Claiming
<1>4. pending = None /\ store # None
  BY <1>1, <1>2, <1>3, IdleNoCandidate, ApiAssumption DEF IInv, ClaimShape, IsPhase
<1>5. /\ \A j \in Writes : ~OfRequest(j)
      /\ \A r \in Filed : Kin(r, store)
  BY <1>4, OneIncident
<1>6. \A j \in Writes : Kin(queue[j].rec, store)
  BY <1>5 DEF Filed
<1>7. ASSUME NEW j \in 1..Len(queue), task[queue[j].by].busy PROVE j = i
  <2>1. queue[j].by = queue[i].by
    BY <1>1, <1>3, <1>7, QueuedRecords DEF IInv, OneInFlight
  <2> QED BY <1>1, <2>1 DEF IInv, QueueShape
<1> QED BY <1>4, <1>5, <1>6, <1>7 DEF Kin

LEMMA CommitFallback ==
    ASSUME IInv, OrderShape, Calm, FShape, Commit, Calm'
    PROVE  FShape'
<1> DEFINE h == queue[1].by
<1>0. /\ RevisionShape /\ EndedShape /\ LiveShape /\ PhaseShape /\ DueShape
      /\ RemovalShape /\ FallbackShape /\ FaultShape
      /\ task \in [Handlers -> Task] /\ Len(log) \in Nat /\ Data
  BY TypeParts DEF FShape, IInv, Tasks, Data
<1>1. /\ 1 \in 1..Len(queue) /\ Head(queue) = queue[1]
      /\ h \in Handlers /\ queue[1].rec \in Incident
      /\ queue[1].kind \in {"put", "remove"}
      /\ Len(queue) \in Nat /\ Len(queue') = Len(queue) - 1
      /\ \A i \in 1..Len(queue') : i + 1 \in 1..Len(queue) /\ queue'[i] = queue[i + 1]
  BY HeadOfQueue
<1>2. UNCHANGED <<agent, log, goal, install, timer>>
  BY DEF Commit, session
<1>3. PICK v \in {"ok", "failed"} :
        /\ task' = [task EXCEPT ![h].result = v]
        /\ \/ queue[1].kind = "put" /\ store' = queue[1].rec
           \/ /\ queue[1].kind = "remove"
              /\ store' = IF store = queue[1].rec THEN None ELSE store
  <2>1. ASSUME Fault PROVE FALSE
    <3>1. count' = Spend("faults") /\ count \in Counts
      BY <1>0, <2>1 DEF Data, Fault
    <3>2. count'.faults > 0
      BY <3>1, SpendType
    <3> QED BY <3>2 DEF Calm
  <2> QED BY <1>1, <2>1 DEF Commit
<1>4. fallback' = IF store' = store THEN fallback ELSE After(store')
  BY DEF Commit
<1>5. \A i \in Handlers : /\ task'[i].pc = task[i].pc /\ task'[i].rec = task[i].rec
                          /\ task'[i].arg = task[i].arg /\ task'[i].busy = task[i].busy
  BY <1>0, <1>1, <1>3 DEF Task
<1>6. \A i \in Writes' : /\ i \in 1..Len(queue') /\ i + 1 \in Writes /\ 1 < i + 1
                         /\ queue'[i] = queue[i + 1]
                         /\ OfRequest(i)' <=> OfRequest(i + 1)
                         /\ task'[queue'[i].by].pc = task[queue[i + 1].by].pc
  BY <1>1, <1>5, QueuedRecords DEF Writes, OfRequest
<1>7. Filed' \subseteq Filed
  <2>1. store' = None \/ store' \in Filed
    BY <1>1, <1>3 DEF Filed, Writes
  <2> QED BY <1>6, <2>1 DEF Filed
<1>8. RevisionShape' /\ EndedShape' /\ FaultShape' /\ DueShape'
  BY <1>0, <1>2, <1>5, <1>7 DEF RevisionShape, EndedShape, FaultShape, DueShape
<1>9. RemovalShape'
  <2> SUFFICES ASSUME NEW i \in 1..Len(queue'), queue'[i].kind = "remove"
               PROVE  /\ queue'[i].rec.phase = "scheduled" /\ ~task'[queue'[i].by].busy =>
                            Gone(queue[i].rec)'
                      /\ queue'[i].rec.phase = "recovering" => queue'[i].rec.turn < Len(log')
    BY DEF RemovalShape
  <2>1. /\ i + 1 \in 1..Len(queue) /\ queue'[i] = queue[i + 1]
        /\ task'[queue'[i].by].busy = task[queue[i + 1].by].busy
    BY <1>1, <1>5, QueuedRecords
  <2>2. Gone(queue[i + 1].rec) => Gone(queue[i].rec)'
    BY <1>2, <2>1 DEF Gone, Superseded
  <2> QED BY <1>0, <1>2, <2>1, <2>2 DEF RemovalShape
<1>10. ASSUME NEW i \in Writes', queue'[i].rec.phase = "recovering"
       PROVE  Live(queue[i].rec)' /\ IsPhase(store, "scheduled")
  <2>1. Live(queue[i + 1].rec) /\ IsPhase(store, "scheduled")
    BY <1>0, <1>6, <1>10 DEF LiveShape
  <2> QED BY <1>2, <1>6, <2>1 DEF Live
<1>11. ASSUME NEW i \in Writes', NEW j \in Writes', i < j, ~OfRequest(j)'
       PROVE  queue'[j].rec.phase \in Behind(queue'[i].rec.phase)
  <2>1. i + 1 < j + 1
    BY <1>6, <1>11
  <2> QED BY <1>0, <1>6, <1>11, <2>1 DEF PhaseShape
<1>12. CASE queue[1].kind = "put" /\ store' = queue[1].rec
  <2>1. 1 \in Writes
    BY <1>1, <1>12 DEF Writes
  <2>2. PICK r \in Incident : r = queue[1].rec /\ store' = r /\ r # None
    BY <1>1, <1>12, ApiAssumption
  <2>3. r \in Filed
    BY <2>1, <2>2 DEF Filed
  <2>4. \A i \in Writes' : ~OfRequest(i)' => queue'[i].rec.phase \in Behind(r.phase)
    BY <1>0, <1>6, <2>1, <2>2 DEF PhaseShape
  <2>5. OfRequest(1) <=> r.phase = "awaiting"
    BY <1>0, <2>1, <2>2 DEF PhaseShape
  <2>6. OfRequest(1) => Writes' = {}
    <3> SUFFICES ASSUME OfRequest(1), NEW i \in Writes' PROVE FALSE
      OBVIOUS
    <3>1. i + 1 \in Writes /\ 1 < i + 1 /\ i \in Nat
      BY <1>6
    <3>2. i + 1 <= 1
      BY <2>1, <3>1 DEF OrderShape, ChainShape
    <3> QED BY <3>1, <3>2
  <2>7. LiveShape'
    <3>1. IsPhase(store', "recovering") => Live(store)'
      <4>1. r.phase = "recovering" => Live(r)
        BY <1>0, <2>1, <2>2 DEF LiveShape
      <4> QED BY <1>2, <2>2, <4>1 DEF IsPhase, Live
    <3>2. ASSUME NEW i \in Writes', queue'[i].rec.phase = "recovering"
          PROVE  IsPhase(store', "scheduled")
      <4>1. ~OfRequest(i)'
        BY <1>0, <1>6, <3>2 DEF PhaseShape
      <4> QED BY <2>2, <2>4, <3>2, <4>1 DEF Behind, IsPhase
    <3> QED BY <1>10, <3>1, <3>2 DEF LiveShape, IsPhase, Live
  <2>8. PhaseShape'
    <3>1. ASSUME NEW i \in Writes'
          PROVE  /\ OfRequest(i)' <=> queue'[i].rec.phase = "awaiting"
                 /\ queue'[i].rec.phase = "recovering" => task'[queue'[i].by].pc = "resumed"
                 /\ store' # None /\ ~OfRequest(i)' =>
                      queue'[i].rec.phase \in IF store'.phase = "awaiting"
                                              THEN {Disposition(store', store'.code)}
                                              ELSE Behind(store'.phase)
      BY <1>0, <1>6, <2>2, <2>4, <2>5, <2>6 DEF PhaseShape
    <3> QED BY <1>11, <3>1 DEF PhaseShape
  <2>9. FallbackShape'
    <3>0. /\ r.turn \in Nat /\ r.code \in Codes
          /\ r.phase \in {"awaiting", "scheduled", "recovering", "operator"}
          /\ NoFallback.code = None /\ NoFallback.turn = 0
          /\ NoFallback \in [code : Unknown \cup {None}, turn : Nat]
      BY DEF Incident, NoFallback
    <3>1. CASE fallback' = NoFallback
      BY <3>0, <3>1 DEF FallbackShape
    <3>2. CASE store' = store
      <4>1. fallback' = fallback
        BY <1>4, <3>2
      <4> QED BY <1>0, <1>2, <1>7, <3>2, <4>1 DEF FallbackShape
    <3>3. CASE r.phase = "recovering" /\ r.code \in Unknown /\ store' # store
      <4>1. fallback' = [code |-> r.code, turn |-> r.turn]
        BY <1>4, <2>2, <3>3 DEF After, IsPhase
      <4>2. \A x \in Filed' : x.turn = r.turn
        <5>1. \A j \in Writes : queue[j].rec.turn = r.turn
          BY <2>1, <2>2, <3>3, RecoveringWrite DEF Kin
        <5> QED BY <1>6, <2>2, <5>1 DEF Filed
      <4>3. r.turn <= Len(log)
        BY <1>0, <2>3, <3>3 DEF EndedShape
      <4> QED BY <1>2, <2>2, <3>0, <3>3, <4>1, <4>2, <4>3 DEF FallbackShape, IsPhase
    <3>4. CASE /\ r.phase \in {"awaiting", "scheduled"} /\ store' # store
               /\ r.code = fallback.code
      <4>1. fallback' = fallback /\ fallback.code # None
        BY <1>4, <2>2, <3>0, <3>4, ApiAssumption DEF After, IsPhase
      <4>2. ~(Len(log) = fallback.turn /\ agent.status # "failing")
        <5> SUFFICES ASSUME Len(log) = fallback.turn, agent.status # "failing" PROVE FALSE
          OBVIOUS
        <5>1. IsPhase(store, "recovering")
          BY <1>0, <4>1 DEF FallbackShape
        <5>2. ~OfRequest(1)
          BY <1>1 DEF IInv, PendingShape, OfRequest
        <5>3. r.phase \in Behind("recovering")
          BY <1>0, <2>1, <2>2, <5>1, <5>2 DEF PhaseShape, IsPhase
        <5> QED BY <5>3 DEF Behind
      <4>3. ~IsPhase(store', "operator")
        BY <2>2, <3>4 DEF IsPhase
      <4> QED BY <1>0, <1>2, <1>7, <4>1, <4>2, <4>3 DEF FallbackShape
    <3>5. \/ fallback' = NoFallback \/ store' = store
          \/ r.phase = "recovering" /\ r.code \in Unknown
          \/ r.phase \in {"awaiting", "scheduled"} /\ r.code = fallback.code
      <4>1. ASSUME r.phase = "recovering", r.code \notin Unknown
            PROVE  r.code # fallback.code
        BY <1>0, <3>0, <4>1, ApiAssumption DEF FallbackShape
      <4> QED BY <1>4, <2>2, <3>0, <4>1 DEF After, IsPhase
    <3> QED BY <3>1, <3>2, <3>3, <3>4, <3>5
  <2> QED BY <1>8, <1>9, <2>7, <2>8, <2>9 DEF FShape
<1>13. CASE /\ queue[1].kind = "remove"
            /\ store' = IF store = queue[1].rec THEN None ELSE store
  <2>1. 1 \notin Writes /\ (store' = None \/ store' = store)
    BY <1>13 DEF Writes
  <2>2. fallback' = fallback
    BY <1>4, <1>13 DEF After, IsPhase
  <2>3. ASSUME NEW i \in Writes', queue'[i].rec.phase = "recovering"
        PROVE  store' = store
    <3> SUFFICES ASSUME store = queue[1].rec PROVE FALSE
      BY <1>13
    <3>1. i + 1 \in Writes /\ queue[i + 1].rec.phase = "recovering" /\ i + 1 # 1
      BY <1>6, <2>3
    <3>2. /\ Kin(queue[i + 1].rec, store)
          /\ \A j \in 1..Len(queue) : task[queue[j].by].busy => j = i + 1
      BY <3>1, RecoveringWrite
    <3>3. ~task[queue[1].by].busy
      BY <1>1, <3>1, <3>2
    <3>4. IsPhase(store, "scheduled")
      BY <1>10, <2>3
    <3>5. Gone(store)
      BY <1>0, <1>1, <1>13, <3>3, <3>4 DEF RemovalShape, IsPhase
    <3>6. Live(queue[i + 1].rec)
      BY <1>0, <3>1 DEF LiveShape
    <3>7. store.ref \in [asg : Nat, rev : Nat]
      BY <1>1 DEF Incident
    <3> QED BY <3>2, <3>5, <3>6, <3>7 DEF Gone, Superseded, Live, Kin
  <2>4. LiveShape'
    <3>1. IsPhase(store', "recovering") => Live(store)'
      BY <1>0, <1>2, <2>1 DEF LiveShape, IsPhase, Live
    <3> QED BY <1>10, <2>3, <3>1 DEF LiveShape
  <2>5. PhaseShape'
    <3>1. ASSUME NEW i \in Writes'
          PROVE  /\ OfRequest(i)' <=> queue'[i].rec.phase = "awaiting"
                 /\ queue'[i].rec.phase = "recovering" => task'[queue'[i].by].pc = "resumed"
                 /\ store' # None /\ ~OfRequest(i)' =>
                      queue'[i].rec.phase \in IF store'.phase = "awaiting"
                                              THEN {Disposition(store', store'.code)}
                                              ELSE Behind(store'.phase)
      BY <1>0, <1>6, <2>1 DEF PhaseShape
    <3> QED BY <1>11, <3>1 DEF PhaseShape
  <2>6. FallbackShape'
    <3>1. ASSUME fallback.code # None, Len(log) = fallback.turn, agent.status # "failing"
          PROVE  store' = store
      <4>1. IsPhase(store, "recovering") /\ store.turn = fallback.turn
        BY <1>0, <3>1 DEF FallbackShape
      <4>2. store # queue[1].rec
        BY <1>0, <1>1, <1>13, <3>1, <4>1 DEF RemovalShape, IsPhase
      <4> QED BY <1>13, <4>2
    <3>2. ~IsPhase(store, "operator") => ~IsPhase(store', "operator")
      BY <2>1 DEF IsPhase
    <3> QED BY <1>0, <1>2, <1>7, <2>2, <3>1, <3>2 DEF FallbackShape
  <2> QED BY <1>8, <1>9, <2>4, <2>5, <2>6 DEF FShape
<1> QED BY <1>3, <1>12, <1>13

-----------------------------------------------------------------------------
(* The Runtime around the recovery.                                        *)

LEMMA RuntimeFallback ==
    ASSUME IInv, FShape, UNCHANGED <<task, queue, log, store, timer>>,
           install'.rev \in Nat, install.rev <= install'.rev, install'.rev <= goal'.rev,
           \A r \in Filed : r.phase = "recovering" /\ Live(r) => Live(r)',
           \A r \in Filed : r.turn <= Len(log) /\ r.ref.asg = install'.asg
                               /\ goal'.rev = r.ref.rev => ~goal'.armed,
           \A r \in Incident : Gone(r) => Gone(r)',
           agent'.status = agent.status \/ {agent.status, agent'.status} = {"idle", "running"},
           agent'.fault = agent.fault, fallback' \in {fallback, NoFallback}
    PROVE  FShape'
<1>0. /\ RevisionShape /\ EndedShape /\ LiveShape /\ PhaseShape /\ DueShape
      /\ RemovalShape /\ FallbackShape /\ FaultShape /\ install.rev \in Nat
  BY TypeParts DEF FShape, IInv, Data
<1>1. Writes' = Writes /\ Filed' = Filed
  BY DEF Writes, Filed
<1>2. \A r \in Filed : r.ref.rev \in Nat
  BY FiledTypes DEF Incident
<1>3. agent'.status = "failing" <=> agent.status = "failing"
  OBVIOUS
<1>4. RevisionShape'
  BY <1>0, <1>1, <1>2 DEF RevisionShape
<1>5. EndedShape'
  BY <1>0, <1>1, <1>3 DEF EndedShape
<1>6. LiveShape'
  <2>1. IsPhase(store, "recovering") => Live(store)'
    <3> SUFFICES ASSUME IsPhase(store, "recovering") PROVE Live(store)'
      OBVIOUS
    <3>1. PICK r \in Filed : r = store
      BY FiledTypes DEF IsPhase
    <3>2. Live(r)'
      BY <1>0, <3>1 DEF LiveShape, IsPhase
    <3> QED BY <3>1, <3>2 DEF Live
  <2>2. ASSUME NEW i \in Writes, queue[i].rec.phase = "recovering"
        PROVE  Live(queue[i].rec)'
    <3>1. PICK r \in Filed : r = queue[i].rec
      BY DEF Filed
    <3>2. Live(r)'
      BY <1>0, <2>2, <3>1 DEF LiveShape
    <3> QED BY <3>1, <3>2 DEF Live
  <2> QED BY <1>0, <1>1, <2>1, <2>2 DEF LiveShape
<1>7. PhaseShape' /\ DueShape'
  BY <1>0, <1>1 DEF PhaseShape, DueShape, OfRequest
<1>8. RemovalShape'
  <2> SUFFICES ASSUME NEW i \in 1..Len(queue), Gone(queue[i].rec)
               PROVE  Gone(queue[i].rec)'
    BY <1>0 DEF RemovalShape
  <2>1. PICK r \in Incident : r = queue[i].rec
    BY QueuedRecords
  <2>2. Gone(r)'
    BY <2>1
  <2> QED BY <2>1, <2>2 DEF Gone, Superseded
<1>9. FallbackShape'
  <2>1. CASE fallback' = NoFallback
    BY <2>1 DEF NoFallback, FallbackShape
  <2>2. CASE fallback' = fallback
    BY <1>0, <1>1, <1>3, <2>2 DEF FallbackShape
  <2> QED BY <2>1, <2>2
<1>10. FaultShape'
  BY <1>0, <1>3 DEF FaultShape
<1> QED BY <1>4, <1>5, <1>6, <1>7, <1>8, <1>9, <1>10 DEF FShape

(* The stored incident whose Goal runs keeps the Goal for itself. *)
LEMMA RecoveringOwns ==
    ASSUME IInv, OrderShape, Calm, FShape, NEW r \in Filed, r.phase = "recovering"
    PROVE  RecoveryOwnsGoal /\ goal.armed
<1>1. Live(r)
  BY DEF FShape, LiveShape, Filed, IsPhase
<1>2. store # None /\ store.phase # "operator" /\ store.ref.asg = r.ref.asg
  <2>1. CASE r = store
    BY <2>1, FiledTypes, ApiAssumption
  <2>2. CASE r # store
    <3>1. PICK i \in Writes : r = queue[i].rec
      BY <2>2 DEF Filed
    <3>2. store # None /\ Kin(r, store) /\ IsPhase(store, "scheduled")
      BY <3>1, RecoveringWrite DEF FShape, LiveShape
    <3> QED BY <3>2 DEF Kin, IsPhase
  <2> QED BY <2>1, <2>2
<1> QED BY <1>1, <1>2 DEF RecoveryOwnsGoal, Live

LEMMA OutsideFallback ==
    ASSUME IInv, OrderShape, Calm, FShape, Calm',
           \/ StartTurn \/ TrackGoal \/ WakeController \/ ArmController \/ ApplyGoal
           \/ GoalSaved \/ ClaimRetried \/ Hold \/ Release \/ Tick \/ Dispose \/ Crash
           \/ Start \/ Load
    PROVE  FShape'
<1>0. /\ agent \in Agents /\ RuntimeShape /\ count \in Counts
      /\ install \in [asg : Nat, rev : Nat, applied : BOOLEAN]
      /\ goal \in [asg : Nat, rev : Nat, armed : BOOLEAN, spent : BOOLEAN]
      /\ install.rev <= goal.rev /\ Filed \subseteq Incident
  BY TypeParts, FiledTypes DEF IInv, OrderShape, Data, FShape, RevisionShape
<1>1. ~Start /\ ~Load
  BY <1>0 DEF Start, Load, RuntimeShape
<1>2. ~Dispose /\ ~Crash
  <2>1. count' = Spend("restarts") => count'.restarts > 0
    BY <1>0 DEF Spend, Counts
  <2> QED BY <2>1 DEF Dispose, Crash, Calm
<1>3. \A r \in Filed :
        /\ r.ref.asg \in Nat /\ r.ref.rev \in Nat /\ r.ref.rev <= install.rev
        /\ r.turn <= Len(log) /\ r.ref.asg = install.asg /\ goal.rev = r.ref.rev =>
              ~goal.armed
        /\ r.ref.asg <= install.asg
        /\ r.ref.asg = install.asg => Resolved
  <2>1. \A r \in Filed : Known(r)
    BY DEF Filed, OrderShape, ChainShape
  <2>2. \A r \in Filed : r.ref.asg \in Nat /\ r.ref.rev \in Nat
    BY <1>0 DEF Incident
  <2> QED BY <2>1, <2>2 DEF Known, FShape, RevisionShape, EndedShape
<1>4. \A r \in Incident : r.ref.asg \in Nat /\ r.ref.rev \in Nat
  BY DEF Incident
<1>5. CASE StartTurn \/ ClaimRetried \/ Hold \/ Release \/ Tick
  <2>1. /\ UNCHANGED <<task, queue, log, store, timer, install, fallback>>
        /\ goal'.asg = goal.asg /\ goal'.rev = goal.rev /\ goal'.armed = goal.armed
    BY <1>0, <1>5 DEF StartTurn, ClaimRetried, Hold, Release, Tick, session, history
  <2>2. /\ agent'.status = agent.status
           \/ {agent.status, agent'.status} = {"idle", "running"}
        /\ agent'.fault = agent.fault
    BY <1>0, <1>5 DEF StartTurn, ClaimRetried, Hold, Release, Tick, Agents
  <2>3. /\ install'.rev \in Nat /\ install.rev <= install'.rev /\ install'.rev <= goal'.rev
        /\ \A r \in Filed : r.phase = "recovering" /\ Live(r) => Live(r)'
        /\ \A r \in Filed : r.turn <= Len(log) /\ r.ref.asg = install'.asg
                               /\ goal'.rev = r.ref.rev => ~goal'.armed
        /\ \A r \in Incident : Gone(r) => Gone(r)'
    BY <1>0, <1>3, <2>1 DEF Live, Gone, Superseded
  <2> QED BY <2>1, <2>2, <2>3, RuntimeFallback
<1>6. CASE TrackGoal \/ GoalSaved
  <2>1. /\ UNCHANGED <<task, queue, log, store, timer, agent, goal, fallback>>
        /\ install'.asg = install.asg /\ install'.rev \in {install.rev, goal.rev}
    BY <1>0, <1>6 DEF TrackGoal, GoalSaved, session, history
  <2>2. /\ install'.rev \in Nat /\ install.rev <= install'.rev /\ install'.rev <= goal'.rev
        /\ \A r \in Filed : r.phase = "recovering" /\ Live(r) => Live(r)'
        /\ \A r \in Filed : r.turn <= Len(log) /\ r.ref.asg = install'.asg
                               /\ goal'.rev = r.ref.rev => ~goal'.armed
        /\ \A r \in Incident : Gone(r) => Gone(r)'
    BY <1>0, <1>3, <2>1 DEF Live, Gone, Superseded
  <2> QED BY <2>1, <2>2, RuntimeFallback
<1>7. CASE WakeController
  <2>1. /\ UNCHANGED <<task, queue, log, store, timer, agent, install>>
        /\ goal'.rev = goal.rev + 1 /\ ~goal.armed /\ fallback' = NoFallback
    BY <1>0, <1>7 DEF WakeController, session
  <2>2. \A r \in Filed : r.phase # "recovering"
    BY <2>1, RecoveringOwns
  <2>3. /\ install'.rev \in Nat /\ install.rev <= install'.rev /\ install'.rev <= goal'.rev
        /\ \A r \in Filed : goal'.rev # r.ref.rev
        /\ \A r \in Incident : Gone(r) => Gone(r)'
    BY <1>0, <1>3, <1>4, <2>1 DEF Gone, Superseded
  <2> QED BY <2>1, <2>2, <2>3, RuntimeFallback
<1>8. CASE ArmController
  <2>1. /\ UNCHANGED <<task, queue, log, store, timer, agent, goal, fallback>>
        /\ install'.asg = install.asg + 1 /\ install'.rev = install.rev
        /\ ~RecoveryOwnsGoal
    BY <1>0, <1>8 DEF ArmController, RuntimeShape, session, history
  <2>2. \A r \in Filed : r.phase # "recovering"
    BY <2>1, RecoveringOwns
  <2>3. /\ install'.rev \in Nat /\ install.rev <= install'.rev /\ install'.rev <= goal'.rev
        /\ \A r \in Filed : r.ref.asg # install'.asg
        /\ \A r \in Incident : Gone(r) => Gone(r)'
    BY <1>0, <1>3, <1>4, <2>1 DEF Gone, Superseded
  <2> QED BY <2>1, <2>2, <2>3, RuntimeFallback
<1>9. CASE ApplyGoal
  <2>1. /\ UNCHANGED <<task, queue, log, store, timer, agent, install>>
        /\ fallback' \in {fallback, NoFallback} /\ "apply" \in edges
    BY <1>9 DEF ApplyGoal, session
  <2>2. ~Resolved
    BY <1>0, <2>1 DEF RuntimeShape, Resolved
  <2>3. \A r \in Filed : r.ref.asg # install.asg
    BY <1>3, <2>2
  <2>4. /\ goal'.rev \in Nat /\ goal'.rev >= goal.rev
        /\ goal'.armed # goal.armed => goal'.rev > goal.rev
    <3> DEFINE edited == IF goal.asg = install.asg THEN goal
                         ELSE [goal EXCEPT !.asg = install.asg, !.rev = goal.rev + 1]
    <3>1. /\ edited \in [asg : Nat, rev : Nat, armed : BOOLEAN, spent : BOOLEAN]
          /\ edited.rev \in {goal.rev, goal.rev + 1} /\ edited.armed = goal.armed
      <4>1. install.asg \in Nat /\ goal.rev \in Nat
        BY <1>0
      <4>2. CASE goal.asg = install.asg
        BY <1>0, <4>1, <4>2
      <4>3. CASE goal.asg # install.asg
        <5>1. edited = [goal EXCEPT !.asg = install.asg, !.rev = goal.rev + 1]
          BY <4>3
        <5>2. PICK n \in Nat, m \in Nat : n = install.asg /\ m = goal.rev + 1
          BY <4>1
        <5>3. edited = [goal EXCEPT !.asg = n, !.rev = m]
          BY <5>1, <5>2
        <5> HIDE DEF edited
        <5> QED BY <1>0, <5>2, <5>3
      <4> QED BY <4>2, <4>3
    <3>2. \/ goal' = edited
          \/ goal' = [edited EXCEPT !.rev = edited.rev + 1, !.armed = TRUE]
      BY <1>9 DEF ApplyGoal
    <3> HIDE DEF edited
    <3>3. CASE goal' = edited
      BY <1>0, <3>1, <3>3
    <3>4. CASE goal' = [edited EXCEPT !.rev = edited.rev + 1, !.armed = TRUE]
      <4>1. goal'.rev = edited.rev + 1
        BY <3>1, <3>4
      <4> QED BY <1>0, <3>1, <4>1
    <3> QED BY <3>2, <3>3, <3>4
  <2>5. /\ install'.rev \in Nat /\ install.rev <= install'.rev /\ install'.rev <= goal'.rev
        /\ \A r \in Incident : Gone(r) => Gone(r)'
    BY <1>0, <1>4, <2>1, <2>4 DEF Gone, Superseded
  <2>6. \A r \in Filed : ~Live(r)
    BY <2>3 DEF Live
  <2> QED BY <2>1, <2>3, <2>5, <2>6, RuntimeFallback
<1> QED BY <1>1, <1>2, <1>5, <1>6, <1>7, <1>8, <1>9

LEMMA FallbackStep ==
    ASSUME IInv, [Next]_vars, NInv, FInv
    PROVE  FInv'
<1> SUFFICES ASSUME Calm' PROVE FShape'
  BY DEF FInv
<1>1. Calm /\ OrderShape /\ FShape
  BY CalmBefore DEF NInv, FInv
<1>2. CASE UNCHANGED vars
  <2>1. UNCHANGED <<task, queue, log, store, timer, install, goal, agent, fallback>>
    BY <1>2 DEF vars, session, history
  <2>2. /\ install'.rev \in Nat /\ install.rev <= install'.rev /\ install'.rev <= goal'.rev
        /\ \A r \in Filed : r.phase = "recovering" /\ Live(r) => Live(r)'
        /\ \A r \in Filed : r.turn <= Len(log) /\ r.ref.asg = install'.asg
                               /\ goal'.rev = r.ref.rev => ~goal'.armed
        /\ \A r \in Incident : Gone(r) => Gone(r)'
    BY <1>1, <2>1, TypeParts DEF IInv, Data, FShape, RevisionShape, EndedShape, Live, Gone,
       Superseded
  <2> QED BY <1>1, <2>1, <2>2, RuntimeFallback
<1>3. CASE Commit
  BY <1>1, <1>3, CommitFallback
<1>4. CASE \/ StartTurn \/ TrackGoal \/ WakeController \/ ArmController \/ ApplyGoal
           \/ GoalSaved \/ ClaimRetried \/ Hold \/ Release \/ Tick \/ Dispose \/ Crash
           \/ Start \/ Load
  BY <1>1, <1>4, OutsideFallback
<1>5. ASSUME NEW h \in Handlers, NEW code \in Codes, RequestError(h, code)
      PROVE  FShape'
  BY <1>1, <1>5, RequestErrorFallback
<1>6. ASSUME NEW h \in Handlers,
             EndTurn(h) \/ TimerFires(h) \/ AdaptersUpdated(h) \/ Edge(h)
      PROVE  FShape'
  BY <1>1, <1>6, EndTurnFallback, TimerFallback, AdaptersUpdatedFallback, EdgeFallback
<1>7. ASSUME NEW h \in Handlers, CheckpointFails(h)
      PROVE  FShape'
  <2>1. count' = Spend("faults") /\ count \in Counts
    BY <1>7, CountType DEF CheckpointFails, Fault
  <2>2. count'.faults > 0
    BY <2>1, SpendType
  <2> QED BY <2>2 DEF Calm
<1>8. ASSUME NEW h \in Handlers, Handler(h)
      PROVE  FShape'
  BY <1>1, <1>8, TerminalSavedFallback, SettlementSavedFallback, ReturningFallback,
     EnterMaintenanceFallback, TimerFallback DEF Handler
<1> QED BY <1>2, <1>3, <1>4, <1>5, <1>6, <1>7, <1>8 DEF Next

LEMMA InitFallback == Init => FInv
<1> SUFFICES ASSUME Init PROVE FShape
  BY DEF FInv
<1>1. /\ queue = <<>> /\ Len(queue) = 0 /\ store = None /\ timer = None
      /\ \A h \in Handlers : task[h].pc = "free"
      /\ agent.status = "idle" /\ fallback = NoFallback
      /\ goal.rev = 1 /\ install.rev = 1
  BY IdleTask DEF Init
<1>2. Writes = {}
  BY <1>1 DEF Writes
<1>3. Filed = {}
  BY <1>1, <1>2 DEF Filed
<1>4. RevisionShape /\ EndedShape /\ FaultShape
  BY <1>1, <1>3 DEF RevisionShape, EndedShape, FaultShape
<1>5. LiveShape /\ PhaseShape /\ DueShape /\ RemovalShape
  BY <1>1, <1>2 DEF LiveShape, IsPhase, PhaseShape, DueShape, RemovalShape
<1>6. FallbackShape
  BY <1>1 DEF FallbackShape, NoFallback
<1> QED BY <1>4, <1>5, <1>6 DEF FShape

LEMMA AlwaysFallback == Spec => []FInv
<1>1. IInv /\ NInv /\ FInv /\ [Next]_vars => FInv'
  BY FallbackStep
<1> QED BY InitFallback, <1>1, AlwaysInv, AlwaysOrder, PTL DEF Spec

(* Only the queue sets the fallback to a code. *)
LEMMA OnlyCommitFalls ==
    ASSUME [Next]_vars, fallback' # fallback, fallback'.code # None
    PROVE  Commit
<1>1. fallback' # NoFallback
  BY DEF NoFallback
<1>2. CASE UNCHANGED vars
  BY <1>2 DEF vars, history
<1>3. CASE \/ StartTurn \/ TrackGoal \/ WakeController \/ ArmController \/ ApplyGoal
           \/ GoalSaved \/ ClaimRetried \/ Hold \/ Release \/ Tick \/ Dispose \/ Crash
           \/ Start \/ Load
  BY <1>1, <1>3 DEF StartTurn, TrackGoal, WakeController, ArmController, ApplyGoal,
     GoalSaved, ClaimRetried, Hold, Release, Tick, Dispose, Crash, Start, Load, history
<1>4. ASSUME NEW h \in Handlers, NEW code \in Codes, RequestError(h, code) PROVE FALSE
  BY <1>4 DEF RequestError, history
<1>5. ASSUME NEW h \in Handlers,
             \/ EndTurn(h) \/ CheckpointFails(h) \/ TimerFires(h) \/ AdaptersUpdated(h)
             \/ IdleEdge(h) \/ AdapterPass(h) \/ Reconcile(h)
      PROVE  FALSE
  BY <1>5 DEF EndTurn, CheckpointFails, TimerFires, AdaptersUpdated, IdleEdge,
     AdapterPass, Reconcile, history
<1>6. ASSUME NEW h \in Handlers, SettlementSaved(h) \/ TerminalSaved(h) PROVE FALSE
  BY <1>6 DEF SettlementSaved, TerminalSaved, history
<1>7. ASSUME NEW h \in Handlers,
             \/ RequestRecorded(h) \/ Published(h) \/ WriteFailed(h)
             \/ Removed(h) \/ EnterMaintenance(h) \/ LeaveMaintenance(h)
             \/ OperatorWhenIdle(h) \/ Rescheduled(h)
      PROVE  FALSE
  BY <1>7 DEF RequestRecorded, Published, WriteFailed, Removed,
     EnterMaintenance, LeaveMaintenance, OperatorWhenIdle, Rescheduled, history
<1> QED BY <1>2, <1>3, <1>4, <1>5, <1>6, <1>7 DEF Next, Edge, Handler

(* While no write fails and the plugin runs on, the Goal is not resumed for the
   failure of the very turn that followed its resume for the same unknown code:
   the stored incident of the resume stands until that turn fails, so that the
   new failure is recorded as continued before and goes to a person, for any
   number of handlers, turns and codes.                                      *)
THEOREM ContinuesOnce == Spec => OneFallback
<1>1. ASSUME IInv, NInv, FInv, [Next]_vars,
             fallback'.code # None, fallback'.code = fallback.code,
             fallback'.turn # fallback.turn, count.faults + count.restarts = 0
      PROVE  fallback'.turn > fallback.turn + 1
  <2>1. Calm /\ OrderShape /\ FShape
    <3>1. count \in Counts
      BY <1>1, CountType
    <3>2. count.faults = 0 /\ count.restarts = 0
      BY <1>1, <3>1 DEF Counts
    <3> QED BY <1>1, <3>2 DEF NInv, FInv, Calm
  <2>2. Commit
    BY <1>1, OnlyCommitFalls
  <2>3. /\ 1 \in 1..Len(queue) /\ Head(queue) = queue[1] /\ queue[1].rec \in Incident
    BY <1>1, <2>2, HeadOfQueue
  <2>4. /\ store' # store /\ IsPhase(store', "recovering")
        /\ fallback'.code = store'.code /\ fallback'.turn = store'.turn
    BY <1>1, <2>2 DEF Commit, After, NoFallback
  <2>5. queue[1].kind = "put" /\ store' = queue[1].rec
    BY <2>2, <2>3, <2>4 DEF Commit, IsPhase
  <2>6. PICK r \in Incident :
          /\ r = queue[1].rec /\ r.phase = "recovering" /\ r.turn \in Nat
          /\ fallback.code = r.code /\ fallback'.turn = r.turn
    BY <1>1, <2>3, <2>4, <2>5 DEF IsPhase, Incident
  <2>7. r \in Filed
    BY <2>3, <2>5, <2>6 DEF Filed, Writes
  <2>8. /\ fallback.turn \in Nat /\ r.turn >= fallback.turn
        /\ ~(r.turn = fallback.turn + 1 /\ r.code = fallback.code)
    BY <1>1, <2>1, <2>6, <2>7 DEF FShape, FallbackShape
  <2> QED BY <1>1, <2>6, <2>8
<1>2. IInv /\ NInv /\ FInv /\ [Next]_vars =>
        [fallback'.code # None /\ fallback'.code = fallback.code
            /\ fallback'.turn # fallback.turn
            /\ count.faults + count.restarts = 0 =>
         fallback'.turn > fallback.turn + 1]_vars
  BY <1>1
<1> QED BY <1>2, AlwaysInv, AlwaysOrder, AlwaysFallback, PTL DEF Spec, OneFallback
=============================================================================
