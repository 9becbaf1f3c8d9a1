--------------------------- MODULE SessionWriter ---------------------------
(***************************************************************************)
(* The writer fence of one Session: the session_writers row in SQLite      *)
(* (src/database.ts) and the bindings by which each provider process holds *)
(* it (src/local.ts).  A row has no TTL.  It changes hands when its exact  *)
(* owner releases it or when another process has proof from the operating  *)
(* system that the owner is dead, and the proof, the read of the row and   *)
(* the write of the row are three steps.                                   *)
(*                                                                         *)
(* Rows of different Sessions never touch; one Session is modelled.  Every *)
(* acquisition makes a fresh ownerToken and a fresh fence, so the fence    *)
(* stands for the token.                                                   *)
(***************************************************************************)
EXTENDS Integers, FiniteSets

CONSTANTS
    Processes,      \* provider processes, each with its own instance id
    NoProcess,      \* owner of the row before it is inserted
    Hosts,          \* machine names
    Host,           \* Host[p]: the hostname process p reports
    Pid,            \* Pid[p]: its process id
    Start,          \* Start[p]: its start time, as the system tells it
    Agents,         \* Agent objects that represent the Session
    Tickets,        \* reservations
    MaxBoot,        \* bound on reboots
    MaxFence        \* bound on acquisitions

ASSUME ProcessAssumption ==
    /\ NoProcess \notin Processes
    /\ Host \in [Processes -> Hosts]
    /\ MaxBoot \in Nat
    /\ MaxFence \in Nat

VARIABLES
    boot,       \* boot[h]: the boot id of machine h
    life,       \* life[p]: whether p runs, and how far its provider is closed
    bootOf,     \* bootOf[p]: the boot in which p was started
    row,        \* the session_writers row (fence 0: absent)
    bind,       \* bind[p]: the SessionWriterBinding of p
    plan,       \* plan[p]: an acquisition of p in progress
    live        \* live[p]: the Agent of p that is not disposed, if any

vars == <<boot, life, bootOf, row, bind, plan, live>>

Running == {"open", "closing", "closed"}

Alive(p) == life[p] \in Running

(* owed: a releaseWriterReservation waits to look whether it was the last. *)
Unbound == [held |-> FALSE, fence |-> 0, reservations |-> {}, agents |-> {},
            draining |-> {}, owed |-> FALSE]

Bindings == [held : BOOLEAN, fence : 0..MaxFence, reservations : SUBSET Tickets,
             agents : SUBSET Agents, draining : SUBSET Agents, owed : BOOLEAN]

NoPlan == [step |-> "none", fence |-> 0, owner |-> NoProcess]

Plans == [step : {"none", "read", "free", "dead"}, fence : 0..MaxFence,
          owner : Processes \cup {NoProcess}]

-----------------------------------------------------------------------------
(* Processes                                                                 *)

(* The operating system gives one pid to one process at a time, and in one
   boot never the same pid and start time twice. *)
Launch(p) ==
    /\ life[p] = "new"
    /\ \A q \in Processes \ {p} :
          Host[q] = Host[p] /\ Pid[q] = Pid[p] =>
             /\ ~Alive(q)
             /\ life[q] = "dead" /\ bootOf[q] = boot[Host[q]] => Start[q] # Start[p]
    /\ life' = [life EXCEPT ![p] = "open"]
    /\ bootOf' = [bootOf EXCEPT ![p] = boot[Host[p]]]
    /\ UNCHANGED <<boot, row, bind, plan, live>>

(* The processes of S are gone, with everything they had in memory. *)
Lose(S) ==
    /\ life' = [p \in Processes |-> IF p \in S THEN "dead" ELSE life[p]]
    /\ bind' = [p \in Processes |-> IF p \in S THEN Unbound ELSE bind[p]]
    /\ plan' = [p \in Processes |-> IF p \in S THEN NoPlan ELSE plan[p]]
    /\ live' = [p \in Processes |-> IF p \in S THEN {} ELSE live[p]]

Die(p) ==
    /\ Alive(p)
    /\ Lose({p})
    /\ UNCHANGED <<boot, bootOf, row>>

Reboot(h) ==
    /\ boot[h] < MaxBoot
    /\ boot' = [boot EXCEPT ![h] = @ + 1]
    /\ Lose({p \in Processes : Host[p] = h /\ Alive(p)})
    /\ UNCHANGED <<bootOf, row>>

-----------------------------------------------------------------------------
(* acquireSessionWriterBinding                                               *)

(* A process is in its event loop, not in the middle of an acquisition. *)
Loop(p) == Alive(p) /\ plan[p] = NoPlan

(* Mutant: whatever runs under the pid is taken for the writer. *)
DeadByPid(p, q) ==
    /\ Host[q] = Host[p]
    /\ \A r \in Processes : Alive(r) /\ Host[r] = Host[p] => Pid[r] # Pid[q]

(* isMechanicallyDeadWriter, as p sees the owner q: after a reboot it is dead;
   otherwise the pid must be free or belong to a younger process.  Nothing is
   ever proved of another host.  (lookupProcess may also answer "unknown";
   the acquisition then fails, as it does for a live owner.) *)
MechanicallyDead(p, q) ==
    /\ Host[q] = Host[p]
    /\ \/ bootOf[q] # bootOf[p]
       \/ \A r \in Processes :
             Alive(r) /\ Host[r] = Host[p] /\ Pid[r] = Pid[q] => Start[r] # Start[q]

(* getSessionWriter *)
ReadRow(p) ==
    /\ Loop(p)
    /\ life[p] = "open"
    /\ ~bind[p].held
    /\ plan' = [plan EXCEPT ![p] =
           [step |-> IF row.active THEN "read" ELSE "free",
            fence |-> row.fence, owner |-> row.owner]]
    /\ UNCHANGED <<boot, life, bootOf, row, bind, live>>

(* The owner is dead, and its exact row may be taken over; or SESSION_CONFLICT. *)
Judge(p) ==
    /\ plan[p].step = "read"
    /\ plan' = [plan EXCEPT ![p] =
           IF MechanicallyDead(p, @.owner) THEN [@ EXCEPT !.step = "dead"] ELSE NoPlan]
    /\ UNCHANGED <<boot, life, bootOf, row, bind, live>>

(* Mutant: a proof of death is good for whoever owns the row by now. *)
MayTakeAny(p) == ~row.active \/ plan[p].step = "dead"

(* sameSessionWriterTakeover *)
MayTake(p) ==
    \/ ~row.active
    \/ /\ plan[p].step = "dead"
       /\ row.fence = plan[p].fence
       /\ row.owner = plan[p].owner

(* acquireSessionWriter, and the reservation k it was made for. *)
Acquire(p, k) ==
    /\ plan[p].step \in {"free", "dead"}
    /\ MayTake(p)
    /\ row.fence < MaxFence
    /\ row' = [fence |-> row.fence + 1, owner |-> p, active |-> TRUE]
    /\ bind' = [bind EXCEPT ![p] =
           [held |-> TRUE, fence |-> row.fence + 1, reservations |-> {k},
            agents |-> live[p], draining |-> {}, owed |-> FALSE]]
    /\ plan' = [plan EXCEPT ![p] = NoPlan]
    /\ UNCHANGED <<boot, life, bootOf, live>>

AcquireRefused(p) ==
    /\ plan[p].step \in {"free", "dead"}
    /\ ~MayTake(p)
    /\ plan' = [plan EXCEPT ![p] = NoPlan]
    /\ UNCHANGED <<boot, life, bootOf, row, bind, live>>

(* A further reservation shares the binding. *)
Share(p, k) ==
    /\ Loop(p)
    /\ life[p] = "open"
    /\ bind[p].held
    /\ k \notin bind[p].reservations
    /\ bind' = [bind EXCEPT ![p].reservations = @ \cup {k}, ![p].agents = @ \cup live[p]]
    /\ UNCHANGED <<boot, life, bootOf, row, plan, live>>

-----------------------------------------------------------------------------
(* Agents and releases                                                       *)

(* attachSessionWriter on agent/created, unless the provider is closed. *)
Attach(p, a) ==
    /\ Loop(p)
    /\ live[p] = {}
    /\ a \notin bind[p].agents
    /\ live' = [live EXCEPT ![p] = {a}]
    /\ bind' = IF life[p] = "open" /\ bind[p].held
               THEN [bind EXCEPT ![p].agents = @ \cup {a}] ELSE bind
    /\ UNCHANGED <<boot, life, bootOf, row, plan>>

(* detachSessionWriter on agent/disposed: the flush of its log begins. *)
Dispose(p, a) ==
    /\ Loop(p)
    /\ a \in live[p]
    /\ live' = [live EXCEPT ![p] = {}]
    /\ bind' = IF life[p] # "closed" /\ a \in bind[p].agents
               THEN [bind EXCEPT ![p].draining = @ \cup {a}] ELSE bind
    /\ UNCHANGED <<boot, life, bootOf, row, plan>>

Release(p) ==
    /\ row' = [row EXCEPT !.active = FALSE]
    /\ bind' = [bind EXCEPT ![p] = Unbound]

(* Mutants: agents do not count; the release deletes the row. *)
ReleaseIfUnreserved(p, b) ==
    IF b.reservations = {} THEN Release(p)
    ELSE bind' = [bind EXCEPT ![p] = b] /\ UNCHANGED row

DeleteIfUnused(p, b) ==
    IF b.reservations = {} /\ b.agents = {}
    THEN /\ row' = [fence |-> 0, owner |-> NoProcess, active |-> FALSE]
         /\ bind' = [bind EXCEPT ![p] = Unbound]
    ELSE bind' = [bind EXCEPT ![p] = b] /\ UNCHANGED row

(* releaseSessionWriterIfUnused for a binding that is b by now: the row is
   released by its exact fence once nothing in the process needs it. *)
ReleaseIfUnused(p, b) ==
    IF b.reservations = {} /\ b.agents = {} THEN Release(p)
    ELSE bind' = [bind EXCEPT ![p] = b] /\ UNCHANGED row

(* flushAndDetachSessionWriter: the last event of a is on disk ... *)
Drained(p, a) ==
    /\ Loop(p)
    /\ a \in bind[p].draining
    /\ ReleaseIfUnused(p, [bind[p] EXCEPT !.agents = @ \ {a}, !.draining = @ \ {a}])
    /\ UNCHANGED <<boot, life, bootOf, plan, live>>

(* ... or the flush failed: the writer is kept until the process ends. *)
DrainFails(p, a) ==
    /\ Loop(p)
    /\ a \in bind[p].draining
    /\ bind' = [bind EXCEPT ![p].draining = @ \ {a}]
    /\ UNCHANGED <<boot, life, bootOf, row, plan, live>>

(* Mutant: the first reservation given back releases the row. *)
GiveBackAtOnce(p, k) ==
    /\ Loop(p)
    /\ k \in bind[p].reservations
    /\ bind' = [bind EXCEPT ![p].reservations = @ \ {k}]
    /\ row' = [row EXCEPT !.active = FALSE]
    /\ UNCHANGED <<boot, life, bootOf, plan, live>>

(* releaseWriterReservation: awaits the drains, then looks whether to release. *)
GiveBack(p, k) ==
    /\ Loop(p)
    /\ k \in bind[p].reservations
    /\ bind' = [bind EXCEPT ![p].reservations = @ \ {k},
                            ![p].owed = life[p] # "closed"]
    /\ UNCHANGED <<boot, life, bootOf, row, plan, live>>

Owed(p) ==
    /\ Loop(p)
    /\ bind[p].owed
    /\ bind[p].draining = {}
    /\ ReleaseIfUnused(p, [bind[p] EXCEPT !.owed = FALSE])
    /\ UNCHANGED <<boot, life, bootOf, plan, live>>

(* closeNow: no new reservations; work in progress ends; a row that is still
   referenced is left to the proof of death. *)
Close(p) ==
    /\ Loop(p)
    /\ life[p] = "open"
    /\ life' = [life EXCEPT ![p] = "closing"]
    /\ UNCHANGED <<boot, bootOf, row, bind, plan, live>>

Teardown(p) ==
    /\ Loop(p)
    /\ life[p] = "closing"
    /\ bind[p].draining = {}
    /\ life' = [life EXCEPT ![p] = "closed"]
    /\ IF bind[p].held
       THEN ReleaseIfUnused(p, [bind[p] EXCEPT !.owed = FALSE])
       ELSE UNCHANGED <<row, bind>>
    /\ UNCHANGED <<boot, bootOf, plan, live>>

-----------------------------------------------------------------------------
(* Specification                                                             *)

Init ==
    /\ boot = [h \in Hosts |-> 0]
    /\ life = [p \in Processes |-> "new"]
    /\ bootOf = [p \in Processes |-> 0]
    /\ row = [fence |-> 0, owner |-> NoProcess, active |-> FALSE]
    /\ bind = [p \in Processes |-> Unbound]
    /\ plan = [p \in Processes |-> NoPlan]
    /\ live = [p \in Processes |-> {}]

AcquireStep(p) ==
    \/ ReadRow(p) \/ Judge(p) \/ AcquireRefused(p)
    \/ \E k \in Tickets : Acquire(p, k)

UseStep(p) ==
    \/ Owed(p) \/ Close(p) \/ Teardown(p)
    \/ \E k \in Tickets : Share(p, k) \/ GiveBack(p, k)
    \/ \E a \in Agents : Attach(p, a) \/ Dispose(p, a) \/ Drained(p, a) \/ DrainFails(p, a)

Next ==
    \/ \E p \in Processes : Launch(p) \/ Die(p) \/ AcquireStep(p) \/ UseStep(p)
    \/ \E h \in Hosts : Reboot(h)

Spec == Init /\ [][Next]_vars

(* A process that wants the Session keeps trying. *)
FairSpec == Spec /\ \A p \in Processes : WF_vars(AcquireStep(p))

-----------------------------------------------------------------------------
(* Properties                                                                *)

TypeOK ==
    /\ boot \in [Hosts -> 0..MaxBoot]
    /\ life \in [Processes -> Running \cup {"new", "dead"}]
    /\ bootOf \in [Processes -> 0..MaxBoot]
    /\ row \in [fence : 0..MaxFence, owner : Processes \cup {NoProcess}, active : BOOLEAN]
    /\ bind \in [Processes -> Bindings]
    /\ plan \in [Processes -> Plans]
    /\ live \in [Processes -> SUBSET Agents]
    /\ \A p \in Processes : /\ bind[p].draining \subseteq bind[p].agents
                            /\ bind[p].held \/ bind[p] = Unbound

(* A process that holds a binding owns the row, under the fence it was given:
   no two processes ever write the Session, whatever dies, is restarted under
   the same pid, or decides on a row that has changed hands since. *)
HolderOwnsRow ==
    \A p \in Processes : bind[p].held =>
        /\ Alive(p)
        /\ row.active
        /\ row.owner = p
        /\ row.fence = bind[p].fence

(* The owner releases the row only when nobody in its process has reserved
   the Session and no Agent counted for it lives or has an unflushed log. *)
KeptWhileInUse ==
    [][\A p \in Processes :
          bind[p].held /\ ~row'.active /\ life'[p] # "dead" =>
              /\ bind[p].reservations = {}
              /\ bind[p].agents \cap live[p] = {}
              /\ bind[p].agents = bind[p].draining
              /\ \A a, b \in bind[p].draining : a = b]_vars

(* An active row is taken only from a dead process. *)
TakeoverNeedsDeath ==
    [][row.active /\ row'.active /\ row' # row => life[row.owner] = "dead"]_vars

(* A fence is never issued twice: it grows whenever the row gets an owner. *)
FenceGrows ==
    [][/\ row'.fence >= row.fence
       /\ row'.fence = row.fence => row'.owner = row.owner
       /\ ~row.active /\ row'.active => row'.fence > row.fence]_vars

(* The open processes of the machine of q. *)
Rivals(q) == {p \in Processes : life[p] = "open" /\ Host[p] = Host[q]}

(* A dead writer does not keep the Session from the processes of its machine:
   one of them takes the row over, unless all of them close or die. *)
DeadWriterGivesWay ==
    \A q \in Processes :
        /\ row.active /\ row.owner = q /\ life[q] = "dead"
        /\ row.fence < MaxFence
        /\ Rivals(q) # {}
        ~> ~(row.active /\ row.owner = q) \/ Rivals(q) = {}

=============================================================================
