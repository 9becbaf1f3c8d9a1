--------------------------- MODULE RelayDelivery ---------------------------
(***************************************************************************)
(* The provider of dsh-local-session-messaging (src/local.ts) serving the  *)
(* text messages of one Session: the mailbox pump, which leases a message, *)
(* inserts it into the DSH Inbox, awaits the flush of the Session log and  *)
(* acknowledges; the reconciliation of mailbox and log that starts every   *)
(* pump; the checkpoints that follow the agent's Inbox events; heartbeats; *)
(* and processes that crash and are replaced.                              *)
(*                                                                         *)
(* Two stores have to agree, the SQLite mailbox (module Mailbox, whose     *)
(* actions are the transactions) and the Session log, and nothing commits  *)
(* to both.  JavaScript runs to the next await without interruption: a     *)
(* phase of the pump is a place where other callbacks, or at least other   *)
(* processes, may run.                                                     *)
(***************************************************************************)
EXTENDS Mailbox

CONSTANTS
    Home,           \* the Session whose messages the provider serves
    Revocable,      \* principals whose receive switch somebody flips
    MaxFailures     \* bound: how many flushes of the Session log fail

ASSUME RelayAssumption ==
    /\ Home \in Sessions
    /\ Texts = Messages
    /\ Revocable \subseteq Principals
    /\ MaxFailures \in Nat

VARIABLES
    host,       \* the process that has the Session loaded, or NoInstance
    dead,       \* the processes that crashed; a restart is a new instance
    fence,      \* the fence of the provider's binding to the Session
    healthy,    \* ~binding.conflicted
    mem,        \* mem[m]: what the Session events in memory say of m
    log,        \* log[m]: what the Session log on disk says of m
    phase,      \* where the pump is
    todo,       \* reconciliation candidates left, as read when it began
    job,        \* the delivery in progress, if any
    marks,      \* checkpoints that wait for their flush
    failures    \* flushes that failed so far

binding == <<host, dead, fence, healthy>>
pump == <<phase, todo, job>>
relayVars == <<vars, binding, mem, log, pump, marks, failures>>

(* The DSH Inbox inserts a stable MessageId at most once; the agent takes it
   out to act on it, or it is canceled. *)
Facts == {"none", "pending", "claimed", "canceled"}

Phases == {"idle", "reconciling", "repairing", "discarding", "claiming", "leased", "flushing"}

Serving == host # NoInstance /\ healthy

(* binding.claim *)
Me == [session |-> Home, instance |-> host, fence |-> fence]

-----------------------------------------------------------------------------
(* The DSH Session: the agent's Inbox, its events, their log                 *)

(* The pump holds the event loop in the phases without an await. *)
LoopFree == host # NoInstance /\ phase \notin {"reconciling", "leased"}

(* deliverToAgent: the insertion is idempotent. *)
Inserted(m) == [mem EXCEPT ![m] = IF @ = "none" THEN "pending" ELSE @]

(* agent/inbox/claimed and agent/inbox/discarded start a checkpoint each. *)
Take(m, fact) ==
    /\ LoopFree
    /\ mem[m] = "pending"
    /\ mem' = [mem EXCEPT ![m] = fact]
    /\ marks' = marks \cup {[msg |-> m, fact |-> fact]}
    /\ UNCHANGED <<vars, binding, log, pump, failures>>

(* The session store writes out the events it has. *)
Persist ==
    /\ host # NoInstance
    /\ log # mem
    /\ log' = mem
    /\ UNCHANGED <<vars, binding, mem, pump, marks, failures>>

FlushFails ==
    /\ failures < MaxFailures
    /\ failures' = failures + 1

-----------------------------------------------------------------------------
(* Checkpoints                                                               *)

StatusFor(fact) == IF fact = "claimed" THEN "claimed" ELSE "failed"

(* Mutant: the checkpoint does not check who owns the Session now. *)
MarkUnfenced(m, fact, t) ==
    /\ row[m].status \in {"queued", "accepted"}
    /\ ChangeRow(m, IF fact = "claimed" THEN Claim(row[m], Me) ELSE Settle(row[m], "failed"))
    /\ UNCHANGED outcome

(* markClaimed or markDiscarded succeeds; a repeated call changes nothing. *)
Mark(m, fact, t) ==
    \/ /\ fact = "claimed"
       /\ MarkClaimed(Me, m, t)
    \/ /\ fact = "canceled"
       /\ MarkDiscarded(Me, m, t)
    \/ /\ Addressed(Me, m, t)
       /\ row[m].status = StatusFor(fact)
       /\ UNCHANGED vars

(* ... or throws: FENCE_LOST or INVALID_TRANSITION. *)
MarkRefused(m, fact, t) ==
    /\ ~ /\ Addressed(Me, m, t)
         /\ row[m].status \in {"queued", "accepted", StatusFor(fact)}
    /\ UNCHANGED vars

(* flushAndMarkClaimed, flushAndMarkDiscarded: errors are only logged. *)
Checkpoint(x, t) ==
    /\ LoopFree
    /\ log[x.msg] = x.fact
    /\ Mark(x.msg, x.fact, t) \/ MarkRefused(x.msg, x.fact, t)
    /\ marks' = marks \ {x}
    /\ UNCHANGED <<binding, mem, log, pump, failures>>

CheckpointFails(x) ==
    /\ LoopFree
    /\ FlushFails
    /\ marks' = marks \ {x}
    /\ UNCHANGED <<vars, binding, mem, log, pump>>

-----------------------------------------------------------------------------
(* The pump: reconcileDurableInbox                                           *)

Goto(p, left, work) == phase' = p /\ todo' = left /\ job' = work

Stop == Goto("idle", {}, {})

Snapshot(S) == {[msg |-> m, status |-> row[m].status, fact |-> mem[m]] : m \in S}

(* Mutants: only accepted rows are candidates; only leased ones. *)
AcceptedCandidates == Snapshot({m \in Messages : row[m].status = "accepted"})

LeasedCandidates == Snapshot({m \in Messages : Leased(m)})

(* Accepted rows, and queued rows under a lease, with their DSH facts. *)
Candidates ==
    Snapshot({m \in Texts : /\ Recipient[m] = Home
                            /\ \/ row[m].status = "accepted"
                               \/ row[m].status = "queued" /\ Leased(m)})

StartPump ==
    /\ Serving
    /\ phase = "idle"
    /\ Goto("reconciling", Candidates, {})
    /\ UNCHANGED <<vars, binding, mem, log, marks, failures>>

EndReconcile ==
    /\ phase = "reconciling"
    /\ todo = {}
    /\ Goto("claiming", {}, {})
    /\ UNCHANGED <<vars, binding, mem, log, marks, failures>>

(* The candidate the loop is at: they come in enqueue order. *)
At(p, x) ==
    /\ phase = p
    /\ x \in todo
    /\ \A y \in todo : row[x.msg].seq <= row[y.msg].seq

Done(x) == Goto("reconciling", todo \ {x}, {})

(* The log says that the message was claimed or canceled. *)
RecordFact(x, t) ==
    /\ At("reconciling", x)
    /\ x.fact \in {"claimed", "canceled"}
    /\ \/ Mark(x.msg, x.fact, t) /\ Done(x)
       \/ MarkRefused(x.msg, x.fact, t) /\ Stop
    /\ UNCHANGED <<binding, mem, log, marks, failures>>

(* A leased row whose message is pending in the Inbox was admitted. *)
RecordAdmission(x, t) ==
    /\ At("reconciling", x)
    /\ x.fact = "pending"
    /\ x.status = "queued"
    /\ \/ /\ RecoverAccepted(Me, x.msg, t)
          /\ Goto("reconciling", (todo \ {x}) \cup {[x EXCEPT !.status = "accepted"]}, {})
       \/ /\ ~Addressed(Me, x.msg, t)
          /\ Stop
          /\ UNCHANGED vars
    /\ UNCHANGED <<binding, mem, log, marks, failures>>

Unsettled(x) ==
    /\ At("reconciling", x)
    /\ \/ x.fact = "none"
       \/ x.fact = "pending" /\ x.status = "accepted"

(* Nothing to do, unless an accepted message is in no list of the log: then
   it is inserted again and flushed.  AcknowledgedIsLogged says that a Session
   store that keeps what it flushed never calls for this repair. *)
Keep(x) ==
    /\ Unsettled(x)
    /\ IF x.fact = "none" /\ x.status = "accepted"
       THEN /\ mem' = Inserted(x.msg)
            /\ Goto("repairing", todo, {})
       ELSE /\ Done(x)
            /\ UNCHANGED mem
    /\ UNCHANGED <<vars, binding, log, marks, failures>>

KeepCandidate(x) == EnvelopeAllowed(x.msg) /\ Keep(x)

(* Revoked while pending: inbox.remove takes it out, which also raises
   agent/inbox/discarded, and the removal is flushed before it is recorded. *)
RemoveRevoked(x) ==
    /\ Unsettled(x)
    /\ ~EnvelopeAllowed(x.msg)
    /\ x.fact = "pending"
    /\ mem[x.msg] = "pending"
    /\ mem' = [mem EXCEPT ![x.msg] = "canceled"]
    /\ marks' = marks \cup {[msg |-> x.msg, fact |-> "canceled"]}
    /\ Goto("discarding", todo, {})
    /\ UNCHANGED <<vars, binding, log, failures>>

(* Revoked, but it is not pending (any more): the facts are read again. *)
DropRevoked(x, t) ==
    /\ Unsettled(x)
    /\ ~EnvelopeAllowed(x.msg)
    /\ ~(x.fact = "pending" /\ mem[x.msg] = "pending")
    /\ LET fact == IF x.fact = "pending" /\ mem[x.msg] = "claimed"
                   THEN "claimed" ELSE "canceled" IN
          \/ Mark(x.msg, fact, t) /\ Done(x)
          \/ MarkRefused(x.msg, fact, t) /\ Stop
    /\ UNCHANGED <<binding, mem, log, marks, failures>>

(* The awaited flush of a repair or of a removal is over. *)
Repaired(x) ==
    /\ At("repairing", x)
    /\ log[x.msg] # "none"
    /\ Done(x)
    /\ UNCHANGED <<vars, binding, mem, log, marks, failures>>

Discarded(x, t) ==
    /\ At("discarding", x)
    /\ log[x.msg] = "canceled"
    /\ \/ Mark(x.msg, "canceled", t) /\ Done(x)
       \/ MarkRefused(x.msg, "canceled", t) /\ Stop
    /\ UNCHANGED <<binding, mem, log, marks, failures>>

ReconcileFlushFails ==
    /\ phase \in {"repairing", "discarding"}
    /\ FlushFails
    /\ Stop
    /\ UNCHANGED <<vars, binding, mem, log, marks>>

-----------------------------------------------------------------------------
(* The pump: claimNextDelivery, deliverLeased, retryLeased                   *)

(* handlePresenceError: the binding is given up for good. *)
LoseFence ==
    /\ healthy' = FALSE
    /\ Stop
    /\ UNCHANGED <<vars, host, dead, fence>>

(* The attempt of the row that this transaction granted, if any. *)
Granted == {[msg |-> m, token |-> row'[m].attempts] :
               m \in {n \in Messages : row'[n].attempts > row[n].attempts}}

ClaimNext(t) ==
    /\ phase = "claiming"
    /\ healthy
    /\ \/ /\ ClaimNextDelivery(Me, t)
          /\ job' = Granted
          /\ phase' = IF job' = {} THEN "idle" ELSE "leased"
          /\ UNCHANGED <<todo, binding>>
       \/ /\ QueuedFor(Home) = {}
          /\ Stop
          /\ UNCHANGED <<vars, binding>>
       \/ /\ QueuedFor(Home) # {}
          /\ ~Current(Me, t)
          /\ LoseFence
    /\ UNCHANGED <<mem, log, marks, failures>>

(* A conflict noticed elsewhere ends the loop before its next turn. *)
GiveUp ==
    /\ phase = "claiming"
    /\ ~healthy
    /\ Stop
    /\ UNCHANGED <<vars, binding, mem, log, marks, failures>>

(* The access policy is checked again after the lease was granted. *)
Refuse(j, t) ==
    /\ phase = "leased"
    /\ ~EnvelopeAllowed(j.msg)
    /\ \/ /\ FailDelivery(Me, j.msg, j.token, t)
          /\ Goto("claiming", {}, {})
          /\ UNCHANGED binding
       \/ ~Current(Me, t) /\ LoseFence
    /\ UNCHANGED <<mem, log, marks, failures>>

Admit(j) ==
    /\ phase = "leased"
    /\ EnvelopeAllowed(j.msg)
    /\ mem' = Inserted(j.msg)
    /\ phase' = "flushing"
    /\ UNCHANGED <<vars, binding, log, todo, job, marks, failures>>

(* Mutant: acknowledge without waiting for the flush. *)
AcknowledgeUnflushed(j, t) ==
    /\ phase = "flushing"
    /\ AcceptDelivery(Me, j.msg, j.token, t)
    /\ Goto("claiming", {}, {})
    /\ UNCHANGED <<binding, mem, log, marks, failures>>

(* The flush is over: acknowledge.  A checkpoint may have been faster, then
   an accepted or claimed row is fine, a failed one ends the pump. *)
Acknowledge(j, t) ==
    /\ phase = "flushing"
    /\ log[j.msg] # "none"
    /\ \/ /\ AcceptDelivery(Me, j.msg, j.token, t)
          /\ Goto("claiming", {}, {})
          /\ UNCHANGED binding
       \/ /\ Current(Me, t)
          /\ row[j.msg].status # "queued"
          /\ Goto(IF row[j.msg].status = "failed" THEN "idle" ELSE "claiming", {}, {})
          /\ UNCHANGED <<vars, binding>>
       \/ ~Current(Me, t) /\ LoseFence
    /\ UNCHANGED <<mem, log, marks, failures>>

(* The flush failed: give the lease back, or fail the exhausted row. *)
Retry(j, t) ==
    /\ phase = "flushing"
    /\ FlushFails
    /\ \/ RetryDelivery(Me, j.msg, j.token, t)
       \/ /\ ~Current(Me, t) \/ row[j.msg].status # "queued"
          /\ UNCHANGED vars
    /\ Stop
    /\ UNCHANGED <<binding, mem, log, marks>>

-----------------------------------------------------------------------------
(* Processes                                                                 *)

Heartbeat(t) ==
    /\ Serving
    /\ LoopFree
    /\ \/ HeartbeatPresence(Me, t) /\ UNCHANGED healthy
       \/ ~Current(Me, t) /\ healthy' = FALSE /\ UNCHANGED vars
    /\ UNCHANGED <<host, dead, fence, mem, log, pump, marks, failures>>

(* A process loads the Session and attaches its root agent. *)
Attach(i, t) ==
    /\ host = NoInstance
    /\ i \notin dead
    /\ TakePresence(Home, i, t)
    /\ host' = i
    /\ fence' = presence[Home].fence + 1
    /\ healthy' = TRUE
    /\ mem' = log
    /\ UNCHANGED <<dead, log, pump, marks, failures>>

(* The agent is disposed.  Presence is released at once, so whatever the
   binding's callbacks still try is refused; the session log is flushed. *)
Detach(t) ==
    /\ LoopFree
    /\ \/ healthy /\ ReleasePresence(Me, t)
       \/ ~(healthy /\ Current(Me, t)) /\ UNCHANGED vars
    /\ \/ log' = mem /\ UNCHANGED failures
       \/ log # mem /\ FlushFails /\ UNCHANGED log
    /\ host' = NoInstance
    /\ healthy' = FALSE
    /\ marks' = {}
    /\ Stop
    /\ UNCHANGED <<dead, fence, mem>>

Crash ==
    /\ host # NoInstance
    /\ dead' = dead \cup {host}
    /\ host' = NoInstance
    /\ healthy' = FALSE
    /\ marks' = {}
    /\ Stop
    /\ UNCHANGED <<vars, fence, mem, log, failures>>

(* What the senders, the owner and the other providers do meanwhile. *)
Elsewhere ==
    /\ \/ Tick
       \/ \E p \in Revocable, receive \in BOOLEAN :
             SetSessionPolicy(p, policy[p].send, receive)
       \/ \E t \in Readings :
             \/ ExpirePresence(t)
             \/ \E m \in Messages : t + MessageTtl <= MaxTime /\ Enqueue(m, t)
    /\ UNCHANGED <<binding, mem, log, pump, marks, failures>>

-----------------------------------------------------------------------------
(* Specification                                                             *)

RelayInit ==
    /\ Init
    /\ host = NoInstance
    /\ dead = {}
    /\ fence = 0
    /\ healthy = FALSE
    /\ mem = [m \in Messages |-> "none"]
    /\ log = [m \in Messages |-> "none"]
    /\ phase = "idle"
    /\ todo = {}
    /\ job = {}
    /\ marks = {}
    /\ failures = 0

Reconcile(t) ==
    \/ StartPump
    \/ EndReconcile
    \/ ReconcileFlushFails
    \/ \E x \in todo :
          \/ RecordFact(x, t) \/ RecordAdmission(x, t)
          \/ KeepCandidate(x) \/ RemoveRevoked(x) \/ DropRevoked(x, t)
          \/ Repaired(x) \/ Discarded(x, t)

Deliver(t) ==
    \/ ClaimNext(t)
    \/ GiveUp
    \/ \E j \in job : Refuse(j, t) \/ Admit(j) \/ Acknowledge(j, t) \/ Retry(j, t)

Pump == \E t \in Readings : Reconcile(t) \/ Deliver(t)

AgentStep == \E m \in Messages : Take(m, "claimed") \/ Take(m, "canceled")

CheckpointStep == \E x \in marks : CheckpointFails(x) \/ \E t \in Readings : Checkpoint(x, t)

ProcessStep ==
    \/ Crash
    \/ \E t \in Readings : Heartbeat(t) \/ Detach(t) \/ \E i \in Instances : Attach(i, t)

RelayNext ==
    \/ Elsewhere
    \/ Pump
    \/ AgentStep
    \/ Persist
    \/ CheckpointStep
    \/ ProcessStep

RelaySpec == RelayInit /\ [][RelayNext]_relayVars

(* The poll interval restarts the pump for ever and awaited flushes end; a
   callback whose turn has come runs at one of the next awaits of the pump,
   hence SF.  Nothing obliges an agent to claim, an owner to restart a process
   or a heartbeat to come in time. *)
FairRelaySpec ==
    /\ RelaySpec
    /\ WF_relayVars(Pump)
    /\ WF_relayVars(Persist)
    /\ SF_relayVars(CheckpointStep)
    /\ SF_relayVars(\E t \in Readings : Heartbeat(t))
    /\ WF_relayVars(Elsewhere /\ Tick)

-----------------------------------------------------------------------------
(* Properties                                                                *)

RelayTypeOK ==
    /\ host \in Instances \cup {NoInstance}
    /\ dead \subseteq Instances
    /\ fence \in 0..MaxFence
    /\ healthy \in BOOLEAN
    /\ mem \in [Messages -> Facts]
    /\ log \in [Messages -> Facts]
    /\ phase \in Phases
    /\ todo \subseteq [msg : Messages, status : {"queued", "accepted"}, fact : Facts]
    /\ job \subseteq [msg : Messages, token : 1..MaxAttempts]
    /\ marks \subseteq [msg : Messages, fact : {"claimed", "canceled"}]
    /\ failures \in 0..MaxFailures

(* README: "accepted" says that the message is in the Inbox and the Session
   log is flushed.  Whatever crashes, an acknowledged message is in the log. *)
AcknowledgedIsLogged ==
    \A m \in Messages :
        row[m].status \in {"accepted", "claimed"} => log[m] # "none"

(* Messages enter the Inbox in the order in which they were sent, in memory
   and in the log: none enters while an earlier one waits in the mailbox,
   whether that backs off, lost its lease or survived a crash. *)
AdmittedInOrder ==
    \A m, n \in Messages :
        /\ Recipient[m] = Recipient[n]
        /\ row[m].status = "queued"
        /\ mem[m] = "none"
        /\ row[m].seq < row[n].seq
        => mem[n] = "none" /\ log[n] = "none"

(* While the live owner of the Session delivers a message, nobody takes the
   row from under it, neither a sweep nor a revocation: the lease stands, or
   the agent has claimed or canceled the message already. *)
DeliveryKeepsLease ==
    \A j \in job :
        Current(Me, now) =>
            \/ HoldsLease(Me, j.msg, j.token)
            \/ /\ mem[j.msg] \in {"claimed", "canceled"}
               /\ row[j.msg].status = StatusFor(mem[j.msg])

(* README: expired says that the message was not accepted within its TTL; the
   agent may never see an expired message. *)
ExpiredWasNeverAdmitted ==
    \A m \in Messages : row[m].status = "expired" => log[m] = "none"

(* The code keeps that promise across crashes and takeovers, wherever they
   fall between the insertion and the acknowledgement, as long as no flush of
   the Session log fails. *)
ExpiryNeedsFailedFlush == failures = 0 => ExpiredWasNeverAdmitted

(* As long as its provider serves the Session, a message does not wait in the
   mailbox for ever. *)
QueueSettles ==
    \A m \in Messages :
        row[m].status = "queued" /\ Serving ~> row[m].status # "queued" \/ ~Serving

(* As long as the provider serves the Session, a claim by the agent is at
   last recorded, even if the flush of its own checkpoint failed. *)
ClaimIsRecorded ==
    \A m \in Messages :
        mem[m] = "claimed" /\ row[m].status = "accepted" ~> row[m].status # "accepted" \/ ~Serving

(* An accepted message that is revoked before the agent claims it does not
   stay in the Inbox of a serving provider. *)
RevokedLeavesInbox ==
    \A m \in Messages :
        mem[m] = "pending" /\ row[m].status = "accepted" /\ ~EnvelopeAllowed(m)
            ~> mem[m] # "pending" \/ EnvelopeAllowed(m) \/ ~Serving

(* The provider uses the mailbox only in ways Mailbox allows, so that what is
   proved of the mailbox holds for it. *)
UsesMailbox == Spec

=============================================================================
