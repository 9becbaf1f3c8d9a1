---------------------------- MODULE WriterProofs ----------------------------
(***************************************************************************)
(* Theorems about module SessionWriter, for every number of processes,     *)
(* machines, agents and reservations, every assignment of pids and start   *)
(* times, and every bound.                                                 *)
(***************************************************************************)
EXTENDS SessionWriter, TLAPS

USE ProcessAssumption

-----------------------------------------------------------------------------
(* The inductive invariant                                                   *)

(* A process that does not run has nothing in memory. *)
DownIsEmpty == \A p \in Processes : ~Alive(p) => bind[p] = Unbound /\ plan[p] = NoPlan

(* A process that runs was started in the present boot of its machine. *)
BootIsKnown == \A p \in Processes : Alive(p) => bootOf[p] = boot[Host[p]]

(* Whoever owns the row, or is named by a plan, was started once. *)
OwnerWasStarted == row.active => row.owner \in Processes /\ life[row.owner] # "new"

PlanNamesOwner ==
    \A p \in Processes : plan[p].step \in {"read", "dead"} =>
        plan[p].owner \in Processes /\ life[plan[p].owner] # "new"

(* A proof of death proves it: the owner is dead, and stays dead. *)
ProofIsSound ==
    \A p \in Processes : plan[p].step = "dead" => life[plan[p].owner] = "dead"

(* An agent whose log is being flushed lives no more. *)
DrainingIsDisposed == \A p \in Processes : bind[p].draining \cap live[p] = {}

WInv ==
    /\ TypeOK
    /\ HolderOwnsRow
    /\ DownIsEmpty
    /\ BootIsKnown
    /\ OwnerWasStarted
    /\ PlanNamesOwner
    /\ ProofIsSound
    /\ DrainingIsDisposed

LEMMA UnboundType ==
    /\ Unbound \in Bindings
    /\ Unbound.held = FALSE
    /\ Unbound.draining = {}
    /\ Unbound.agents = {}
    /\ Unbound.reservations = {}
    /\ Unbound.owed = FALSE
BY DEF Unbound, Bindings

LEMMA NoPlanType == NoPlan \in Plans /\ NoPlan.step = "none"
BY DEF NoPlan, Plans

(* Two processes never hold the Session. *)
LEMMA OneHolder ==
    ASSUME WInv, NEW p \in Processes, NEW q \in Processes, bind[p].held, bind[q].held
    PROVE  p = q
BY DEF WInv, HolderOwnsRow

-----------------------------------------------------------------------------
(* What the steps do to the invariant                                        *)

LEMMA InitInv == Init => WInv
<1> SUFFICES ASSUME Init PROVE WInv
  OBVIOUS
<1> USE DEF Init
<1>1. \A p \in Processes : bind[p] = Unbound /\ plan[p] = NoPlan /\ life[p] = "new"
  OBVIOUS
<1>2. TypeOK
  <2>1. bind \in [Processes -> Bindings]
    BY UnboundType
  <2>2. plan \in [Processes -> Plans]
    BY NoPlanType
  <2> QED
    BY <1>1, <2>1, <2>2, UnboundType DEF TypeOK, Running
<1>3. HolderOwnsRow
  BY <1>1, UnboundType DEF HolderOwnsRow
<1>4. DownIsEmpty
  BY <1>1 DEF DownIsEmpty
<1>5. BootIsKnown
  BY <1>1 DEF BootIsKnown, Alive, Running
<1>6. OwnerWasStarted
  BY DEF OwnerWasStarted
<1>7. PlanNamesOwner /\ ProofIsSound
  BY <1>1, NoPlanType DEF PlanNamesOwner, ProofIsSound
<1>8. DrainingIsDisposed
  BY <1>1 DEF DrainingIsDisposed
<1> QED
  BY <1>2, <1>3, <1>4, <1>5, <1>6, <1>7, <1>8 DEF WInv

(* Processes that die take their bindings and their plans with them. *)
LEMMA LoseInv ==
    ASSUME WInv, NEW S \in SUBSET Processes, Lose(S), \A p \in S : Alive(p),
           UNCHANGED <<bootOf, row>>,
           boot' \in [Hosts -> 0..MaxBoot],
           \A p \in Processes \ S : Alive(p) => boot'[Host[p]] = boot[Host[p]]
    PROVE  WInv'
<1> USE DEF Lose
<1>1. \A p \in S : /\ life'[p] = "dead" /\ bind'[p] = Unbound
                   /\ plan'[p] = NoPlan /\ live'[p] = {}
  OBVIOUS
<1>2. \A p \in Processes \ S : /\ life'[p] = life[p] /\ bind'[p] = bind[p]
                               /\ plan'[p] = plan[p] /\ live'[p] = live[p]
  OBVIOUS
<1>3. TypeOK'
  <2>1. bind' \in [Processes -> Bindings]
    BY UnboundType DEF WInv, TypeOK
  <2>2. plan' \in [Processes -> Plans]
    BY NoPlanType DEF WInv, TypeOK
  <2>3. life' \in [Processes -> Running \cup {"new", "dead"}]
    BY DEF WInv, TypeOK
  <2>4. live' \in [Processes -> SUBSET Agents]
    BY DEF WInv, TypeOK
  <2>5. \A p \in Processes : /\ bind'[p].draining \subseteq bind'[p].agents
                             /\ bind'[p].held \/ bind'[p] = Unbound
    BY <1>1, <1>2, UnboundType DEF WInv, TypeOK
  <2> QED
    BY <2>1, <2>2, <2>3, <2>4, <2>5 DEF WInv, TypeOK
<1>4. HolderOwnsRow'
  BY <1>1, <1>2, UnboundType DEF WInv, HolderOwnsRow, Alive
<1>5. DownIsEmpty'
  BY <1>1, <1>2 DEF WInv, DownIsEmpty, Alive
<1>6. BootIsKnown'
  BY <1>1, <1>2 DEF WInv, BootIsKnown, Alive, Running
<1>7. \A p \in Processes : life[p] # "new" => life'[p] # "new"
  BY <1>1, <1>2
<1>8. \A p \in Processes : life[p] = "dead" => life'[p] = "dead"
  BY <1>1, <1>2
<1>9. OwnerWasStarted'
  BY <1>7 DEF WInv, OwnerWasStarted
<1>10. PlanNamesOwner'
  BY <1>1, <1>2, <1>7, NoPlanType DEF WInv, PlanNamesOwner
<1>11. ProofIsSound'
  BY <1>1, <1>2, <1>8, NoPlanType DEF WInv, ProofIsSound, PlanNamesOwner
<1>12. DrainingIsDisposed'
  BY <1>1, <1>2 DEF WInv, DrainingIsDisposed
<1> QED
  BY <1>3, <1>4, <1>5, <1>6, <1>9, <1>10, <1>11, <1>12 DEF WInv

(* What a process that runs does to its state of life, as long as it runs. *)
LEMMA RunsOn ==
    ASSUME WInv, NEW p \in Processes, Alive(p), NEW l \in Running,
           life' = [life EXCEPT ![p] = l]
    PROVE  /\ life' \in [Processes -> Running \cup {"new", "dead"}]
           /\ \A q \in Processes : Alive(q) <=> Alive(q)'
           /\ \A q \in Processes : life[q] # "new" => life'[q] # "new"
           /\ \A q \in Processes : life[q] = "dead" => life'[q] = "dead"
BY DEF WInv, TypeOK, Alive, Running

(* A running process changes what its binding holds, not whose the row is. *)
LEMMA RebindInv ==
    ASSUME WInv, NEW p \in Processes, Alive(p), NEW l \in Running,
           life' = [life EXCEPT ![p] = l],
           NEW b \in Bindings,
           bind' = [bind EXCEPT ![p] = b],
           b.held = bind[p].held, b.fence = bind[p].fence,
           b.held \/ b = Unbound, b.draining \subseteq b.agents,
           live' \in [Processes -> SUBSET Agents],
           \A q \in Processes \ {p} : live'[q] = live[q],
           b.draining \cap live'[p] = {},
           UNCHANGED <<boot, bootOf, row, plan>>
    PROVE  WInv'
<1>1. bind'[p] = b /\ \A q \in Processes \ {p} : bind'[q] = bind[q]
  BY DEF WInv, TypeOK
<1>2. TypeOK'
  <2>1. bind' \in [Processes -> Bindings]
    BY DEF WInv, TypeOK
  <2>2. \A q \in Processes : /\ bind'[q].draining \subseteq bind'[q].agents
                             /\ bind'[q].held \/ bind'[q] = Unbound
    BY <1>1 DEF WInv, TypeOK
  <2> QED
    BY <2>1, <2>2, RunsOn DEF WInv, TypeOK
<1>3. HolderOwnsRow'
  <2> SUFFICES ASSUME NEW q \in Processes, bind'[q].held
               PROVE  Alive(q)' /\ row.active /\ row.owner = q /\ row.fence = bind'[q].fence
    BY DEF HolderOwnsRow
  <2>1. bind[q].held /\ bind'[q].fence = bind[q].fence
    BY <1>1
  <2> QED
    BY <2>1, RunsOn DEF WInv, HolderOwnsRow
<1>4. DownIsEmpty'
  BY <1>1, RunsOn DEF WInv, DownIsEmpty
<1>5. BootIsKnown'
  BY RunsOn DEF WInv, BootIsKnown
<1>6. OwnerWasStarted' /\ PlanNamesOwner'
  BY RunsOn DEF WInv, OwnerWasStarted, PlanNamesOwner
<1>7. ProofIsSound'
  BY RunsOn DEF WInv, ProofIsSound, PlanNamesOwner
<1>8. DrainingIsDisposed'
  BY <1>1 DEF WInv, DrainingIsDisposed
<1> QED
  BY <1>2, <1>3, <1>4, <1>5, <1>6, <1>7, <1>8 DEF WInv

(* The owner gives its row up. *)
LEMMA ReleaseInv ==
    ASSUME WInv, NEW p \in Processes, Alive(p), NEW l \in Running,
           life' = [life EXCEPT ![p] = l],
           bind[p].held, Release(p),
           UNCHANGED <<boot, bootOf, plan, live>>
    PROVE  WInv'
<1>1. bind'[p] = Unbound /\ \A q \in Processes \ {p} : bind'[q] = bind[q]
  BY DEF WInv, TypeOK, Release
<1>2. \A q \in Processes : ~bind'[q].held
  BY <1>1, OneHolder, UnboundType DEF WInv, TypeOK, Bindings
<1>3. TypeOK'
  <2>1. bind' \in [Processes -> Bindings]
    BY UnboundType DEF WInv, TypeOK, Release
  <2>2. \A q \in Processes : /\ bind'[q].draining \subseteq bind'[q].agents
                             /\ bind'[q].held \/ bind'[q] = Unbound
    BY <1>1, UnboundType DEF WInv, TypeOK
  <2>3. row' \in [fence : 0..MaxFence, owner : Processes \cup {NoProcess}, active : BOOLEAN]
    BY DEF WInv, TypeOK, Release
  <2> QED
    BY <2>1, <2>2, <2>3, RunsOn DEF WInv, TypeOK
<1>4. HolderOwnsRow'
  BY <1>2 DEF HolderOwnsRow
<1>5. DownIsEmpty'
  BY <1>1, RunsOn DEF WInv, DownIsEmpty
<1>6. BootIsKnown'
  BY RunsOn DEF WInv, BootIsKnown
<1>7. OwnerWasStarted'
  BY DEF OwnerWasStarted, Release, WInv, TypeOK
<1>8. PlanNamesOwner'
  BY RunsOn DEF WInv, PlanNamesOwner
<1>9. ProofIsSound'
  BY RunsOn DEF WInv, ProofIsSound, PlanNamesOwner
<1>10. DrainingIsDisposed'
  BY <1>1, UnboundType DEF WInv, DrainingIsDisposed
<1> QED
  BY <1>3, <1>4, <1>5, <1>6, <1>7, <1>8, <1>9, <1>10 DEF WInv

(* A step of an acquisition that leaves everything but the plan alone. *)
LEMMA PlanInv ==
    ASSUME WInv, NEW p \in Processes, Alive(p), NEW x \in Plans,
           plan' = [plan EXCEPT ![p] = x],
           x.step \in {"read", "dead"} => x.owner \in Processes /\ life[x.owner] # "new",
           x.step = "dead" => life[x.owner] = "dead",
           UNCHANGED <<boot, life, bootOf, row, bind, live>>
    PROVE  WInv'
<1>1. plan'[p] = x /\ \A q \in Processes \ {p} : plan'[q] = plan[q]
  BY DEF WInv, TypeOK
<1>2. TypeOK'
  BY DEF WInv, TypeOK
<1>3. HolderOwnsRow' /\ OwnerWasStarted' /\ DrainingIsDisposed'
  BY DEF WInv, HolderOwnsRow, OwnerWasStarted, DrainingIsDisposed, Alive
<1>4. BootIsKnown'
  BY DEF WInv, BootIsKnown, Alive
<1>5. DownIsEmpty'
  BY <1>1 DEF WInv, DownIsEmpty, Alive
<1>6. PlanNamesOwner' /\ ProofIsSound'
  BY <1>1 DEF WInv, PlanNamesOwner, ProofIsSound
<1> QED
  BY <1>2, <1>3, <1>4, <1>5, <1>6 DEF WInv

(* isMechanicallyDeadWriter never takes a process that runs for dead. *)
LEMMA JudgementIsSound ==
    ASSUME WInv, NEW p \in Processes, Alive(p), NEW q \in Processes,
           life[q] # "new", MechanicallyDead(p, q)
    PROVE  life[q] = "dead"
<1>1. SUFFICES ASSUME Alive(q) PROVE FALSE
  BY DEF WInv, TypeOK, Alive
<1>2. bootOf[q] = bootOf[p]
  BY <1>1 DEF WInv, BootIsKnown, MechanicallyDead
<1> QED
  BY <1>1, <1>2 DEF MechanicallyDead

(* The row is taken: from nobody, or from an owner that is dead. *)
LEMMA AcquireInv ==
    ASSUME WInv, NEW p \in Processes, NEW k \in Tickets, Acquire(p, k)
    PROVE  WInv'
<1> DEFINE b == [held |-> TRUE, fence |-> row.fence + 1, reservations |-> {k},
                 agents |-> live[p], draining |-> {}, owed |-> FALSE]
<1>1. Alive(p)
  BY NoPlanType DEF WInv, DownIsEmpty, Acquire
<1>2. row.fence + 1 \in 0..MaxFence
  BY DEF WInv, TypeOK, Acquire
<1>3. b \in Bindings /\ b.held /\ b.fence = row.fence + 1 /\ b.draining = {}
  BY <1>2 DEF WInv, TypeOK, Bindings
<1>4. bind' = [bind EXCEPT ![p] = b] /\ plan' = [plan EXCEPT ![p] = NoPlan]
  BY DEF Acquire
<1> HIDE DEF b
<1>5. /\ bind'[p] = b /\ plan'[p] = NoPlan
      /\ \A q \in Processes \ {p} : bind'[q] = bind[q] /\ plan'[q] = plan[q]
  BY <1>4 DEF WInv, TypeOK
<1>6. \A q \in Processes : ~bind[q].held
  <2> SUFFICES ASSUME NEW q \in Processes, bind[q].held PROVE FALSE
    OBVIOUS
  <2>1. row.active /\ row.owner = q /\ Alive(q)
    BY DEF WInv, HolderOwnsRow
  <2>2. life[q] = "dead"
    BY <2>1 DEF WInv, ProofIsSound, Acquire, MayTake
  <2> QED
    BY <2>1, <2>2 DEF Alive, Running
<1>7. row' = [fence |-> row.fence + 1, owner |-> p, active |-> TRUE]
      /\ UNCHANGED <<boot, life, bootOf, live>>
  BY DEF Acquire
<1>8. TypeOK'
  <2>1. bind' \in [Processes -> Bindings]
    BY <1>3, <1>4 DEF WInv, TypeOK
  <2>2. plan' \in [Processes -> Plans]
    BY <1>4, NoPlanType DEF WInv, TypeOK
  <2>3. \A q \in Processes : /\ bind'[q].draining \subseteq bind'[q].agents
                             /\ bind'[q].held \/ bind'[q] = Unbound
    BY <1>3, <1>5 DEF WInv, TypeOK
  <2> QED
    BY <1>2, <1>7, <2>1, <2>2, <2>3 DEF WInv, TypeOK
<1>9. HolderOwnsRow'
  BY <1>1, <1>3, <1>5, <1>6, <1>7 DEF HolderOwnsRow, Alive
<1>10. DownIsEmpty'
  BY <1>1, <1>5, <1>7 DEF WInv, DownIsEmpty, Alive
<1>11. BootIsKnown'
  BY <1>7 DEF WInv, BootIsKnown, Alive
<1>12. OwnerWasStarted'
  BY <1>1, <1>7 DEF OwnerWasStarted, Alive, Running
<1>13. PlanNamesOwner' /\ ProofIsSound'
  BY <1>5, <1>7, NoPlanType DEF WInv, PlanNamesOwner, ProofIsSound
<1>14. DrainingIsDisposed'
  BY <1>3, <1>5, <1>7 DEF WInv, DrainingIsDisposed
<1> QED
  BY <1>8, <1>9, <1>10, <1>11, <1>12, <1>13, <1>14 DEF WInv

(* A binding that is released only when nothing uses it. *)
LEMMA ReleaseIfUnusedInv ==
    ASSUME WInv, NEW p \in Processes, Alive(p), NEW l \in Running,
           life' = [life EXCEPT ![p] = l],
           NEW b \in Bindings, ReleaseIfUnused(p, b),
           bind[p].held, b.held, b.fence = bind[p].fence,
           b.draining \subseteq b.agents, b.draining \subseteq bind[p].draining,
           UNCHANGED <<boot, bootOf, plan, live>>
    PROVE  WInv'
<1>1. CASE b.reservations = {} /\ b.agents = {}
  <2>1. Release(p)
    BY <1>1 DEF ReleaseIfUnused
  <2> QED
    BY <2>1, ReleaseInv
<1>2. CASE ~(b.reservations = {} /\ b.agents = {})
  <2>1. bind' = [bind EXCEPT ![p] = b] /\ UNCHANGED row
    BY <1>2 DEF ReleaseIfUnused
  <2>2. live' \in [Processes -> SUBSET Agents]
    BY DEF WInv, TypeOK
  <2>3. b.draining \cap live'[p] = {}
    BY DEF WInv, DrainingIsDisposed
  <2> QED
    BY <2>1, <2>2, <2>3, RebindInv
<1> QED
  BY <1>1, <1>2

(* What a process in its event loop knows of its own binding. *)
LEMMA LoopFacts ==
    ASSUME WInv, NEW p \in Processes, Loop(p)
    PROVE  /\ Alive(p)
           /\ life[p] \in Running
           /\ life = [life EXCEPT ![p] = life[p]]
           /\ bind \in [Processes -> Bindings]
           /\ bind[p] \in Bindings
           /\ live \in [Processes -> SUBSET Agents]
           /\ live[p] \subseteq Agents
           /\ bind[p].draining \subseteq bind[p].agents
           /\ bind[p].draining \cap live[p] = {}
           /\ ~bind[p].held => bind[p] = Unbound
BY DEF WInv, TypeOK, Loop, Alive, DrainingIsDisposed

LEMMA NextInv == WInv /\ [Next]_vars => WInv'
<1> SUFFICES ASSUME WInv, [Next]_vars PROVE WInv'
  OBVIOUS
<1>1. ASSUME NEW p \in Processes, Launch(p) PROVE WInv'
  <2>1. /\ ~Alive(p) /\ life[p] # "dead"
        /\ bind[p] = Unbound /\ plan[p] = NoPlan
    BY <1>1 DEF Launch, Alive, Running, WInv, DownIsEmpty
  <2>2. /\ life'[p] = "open" /\ bootOf'[p] = boot[Host[p]]
        /\ \A q \in Processes \ {p} : life'[q] = life[q] /\ bootOf'[q] = bootOf[q]
        /\ UNCHANGED <<boot, row, bind, plan, live>>
    BY <1>1 DEF Launch, WInv, TypeOK
  <2>3. TypeOK'
    <3>1. life' \in [Processes -> Running \cup {"new", "dead"}]
      BY <1>1 DEF Launch, WInv, TypeOK, Running
    <3>2. bootOf' \in [Processes -> 0..MaxBoot]
      BY <1>1 DEF Launch, WInv, TypeOK
    <3> QED
      BY <2>2, <3>1, <3>2 DEF WInv, TypeOK
  <2>4. HolderOwnsRow'
    <3> SUFFICES ASSUME NEW q \in Processes, bind[q].held
                 PROVE  Alive(q)' /\ row.active /\ row.owner = q /\ row.fence = bind[q].fence
      BY <2>2 DEF HolderOwnsRow
    <3>1. q # p
      BY <2>1, UnboundType
    <3> QED
      BY <2>2, <3>1 DEF WInv, HolderOwnsRow, Alive
  <2>5. DownIsEmpty'
    BY <2>1, <2>2 DEF WInv, DownIsEmpty, Alive
  <2>6. BootIsKnown'
    BY <2>2 DEF WInv, BootIsKnown, Alive
  <2>7. OwnerWasStarted' /\ PlanNamesOwner'
    BY <2>2 DEF WInv, OwnerWasStarted, PlanNamesOwner
  <2>8. ProofIsSound'
    BY <2>1, <2>2 DEF WInv, ProofIsSound, PlanNamesOwner
  <2>9. DrainingIsDisposed'
    BY <2>2 DEF WInv, DrainingIsDisposed
  <2> QED
    BY <2>3, <2>4, <2>5, <2>6, <2>7, <2>8, <2>9 DEF WInv
<1>2. ASSUME NEW p \in Processes, Die(p) PROVE WInv'
  <2>1. /\ Lose({p}) /\ Alive(p) /\ {p} \in SUBSET Processes
        /\ UNCHANGED <<boot, bootOf, row>>
    BY <1>2 DEF Die
  <2>2. boot' \in [Hosts -> 0..MaxBoot]
    BY <2>1 DEF WInv, TypeOK
  <2> QED
    BY <2>1, <2>2, LoseInv
<1>3. ASSUME NEW h \in Hosts, Reboot(h) PROVE WInv'
  <2> DEFINE S == {p \in Processes : Host[p] = h /\ Alive(p)}
  <2>1. /\ Lose(S) /\ S \in SUBSET Processes /\ \A p \in S : Alive(p)
        /\ UNCHANGED <<bootOf, row>>
    BY <1>3 DEF Reboot
  <2>2. boot' \in [Hosts -> 0..MaxBoot]
    BY <1>3 DEF Reboot, WInv, TypeOK
  <2>3. \A p \in Processes \ S : Alive(p) => boot'[Host[p]] = boot[Host[p]]
    BY <1>3 DEF Reboot, WInv, TypeOK
  <2> QED
    BY <2>1, <2>2, <2>3, LoseInv
<1>4. ASSUME NEW p \in Processes, ReadRow(p) PROVE WInv'
  <2> DEFINE x == [step |-> IF row.active THEN "read" ELSE "free",
                   fence |-> row.fence, owner |-> row.owner]
  <2>1. x \in Plans /\ x.owner = row.owner
        /\ x.step # "dead" /\ (x.step = "read" => row.active)
    BY DEF Plans, WInv, TypeOK
  <2>2. plan' = [plan EXCEPT ![p] = x]
        /\ UNCHANGED <<boot, life, bootOf, row, bind, live>> /\ Alive(p)
    BY <1>4 DEF ReadRow, Loop
  <2> HIDE DEF x
  <2>3. x.step \in {"read", "dead"} => x.owner \in Processes /\ life[x.owner] # "new"
    BY <2>1 DEF WInv, OwnerWasStarted
  <2> QED
    BY <2>1, <2>2, <2>3, PlanInv
<1>5. ASSUME NEW p \in Processes, Judge(p) PROVE WInv'
  <2>1. /\ Alive(p) /\ plan[p] \in Plans /\ plan[p].step = "read"
        /\ UNCHANGED <<boot, life, bootOf, row, bind, live>>
    BY <1>5, NoPlanType DEF Judge, WInv, DownIsEmpty, TypeOK
  <2>2. plan[p].owner \in Processes /\ life[plan[p].owner] # "new"
    BY <2>1 DEF WInv, PlanNamesOwner
  <2>3. CASE MechanicallyDead(p, plan[p].owner)
    <3>1. life[plan[p].owner] = "dead"
      BY <2>1, <2>2, <2>3, JudgementIsSound
    <3> DEFINE x == [plan[p] EXCEPT !.step = "dead"]
    <3>2. x \in Plans /\ x.owner = plan[p].owner
      BY <2>1 DEF Plans
    <3>3. plan' = [plan EXCEPT ![p] = x]
      BY <1>5, <2>3 DEF Judge, WInv, TypeOK
    <3> HIDE DEF x
    <3> QED
      BY <2>1, <2>2, <3>1, <3>2, <3>3, PlanInv
  <2>4. CASE ~MechanicallyDead(p, plan[p].owner)
    <3>1. plan' = [plan EXCEPT ![p] = NoPlan]
      BY <1>5, <2>4 DEF Judge, WInv, TypeOK
    <3> QED
      BY <2>1, <3>1, NoPlanType, PlanInv
  <2> QED
    BY <2>3, <2>4
<1>6. ASSUME NEW p \in Processes, AcquireRefused(p) PROVE WInv'
  <2>1. /\ Alive(p) /\ plan' = [plan EXCEPT ![p] = NoPlan]
        /\ UNCHANGED <<boot, life, bootOf, row, bind, live>>
    BY <1>6, NoPlanType DEF AcquireRefused, WInv, DownIsEmpty
  <2> QED
    BY <2>1, NoPlanType, PlanInv
<1>7. ASSUME NEW p \in Processes, NEW k \in Tickets, Acquire(p, k) PROVE WInv'
  BY <1>7, AcquireInv
<1>8. ASSUME NEW p \in Processes, NEW k \in Tickets, Share(p, k) PROVE WInv'
  <2> DEFINE b == [bind[p] EXCEPT !.reservations = @ \cup {k}, !.agents = @ \cup live[p]]
  <2>0. Loop(p) /\ bind[p].held /\ UNCHANGED <<boot, life, bootOf, row, plan, live>>
    BY <1>8 DEF Share
  <2>1. bind' = [bind EXCEPT ![p] = b]
    BY <1>8, <2>0, LoopFacts DEF Share
  <2>2. /\ b \in Bindings /\ b.held = bind[p].held /\ b.fence = bind[p].fence
        /\ b.draining = bind[p].draining /\ b.agents = bind[p].agents \cup live[p]
    BY <2>0, LoopFacts DEF Bindings
  <2> HIDE DEF b
  <2> QED
    BY <2>0, <2>1, <2>2, LoopFacts, RebindInv
<1>9. ASSUME NEW p \in Processes, NEW k \in Tickets, GiveBack(p, k) PROVE WInv'
  <2> DEFINE b == [bind[p] EXCEPT !.reservations = @ \ {k}, !.owed = life[p] # "closed"]
  <2>0. /\ Loop(p) /\ k \in bind[p].reservations
        /\ UNCHANGED <<boot, life, bootOf, row, plan, live>>
    BY <1>9 DEF GiveBack
  <2>1. bind' = [bind EXCEPT ![p] = b]
    BY <1>9, <2>0, LoopFacts DEF GiveBack
  <2>2. /\ b \in Bindings /\ b.held = bind[p].held /\ b.fence = bind[p].fence
        /\ b.draining = bind[p].draining /\ b.agents = bind[p].agents
    BY <2>0, LoopFacts DEF Bindings
  <2>3. b.held
    BY <2>0, <2>2, LoopFacts, UnboundType
  <2> HIDE DEF b
  <2> QED
    BY <2>0, <2>1, <2>2, <2>3, LoopFacts, RebindInv
<1>10. ASSUME NEW p \in Processes, NEW a \in Agents, Attach(p, a) PROVE WInv'
  <2>0. /\ Loop(p) /\ live[p] = {} /\ a \notin bind[p].agents
        /\ live' = [live EXCEPT ![p] = {a}]
        /\ UNCHANGED <<boot, life, bootOf, row, plan>>
    BY <1>10 DEF Attach
  <2>1. /\ live' \in [Processes -> SUBSET Agents] /\ live'[p] = {a}
        /\ \A q \in Processes \ {p} : live'[q] = live[q]
    BY <2>0, LoopFacts
  <2>2. bind[p].draining \cap live'[p] = {}
    BY <2>0, <2>1, LoopFacts
  <2>3. CASE life[p] = "open" /\ bind[p].held
    <3> DEFINE b == [bind[p] EXCEPT !.agents = @ \cup {a}]
    <3>1. bind' = [bind EXCEPT ![p] = b]
      BY <1>10, <2>0, <2>3, LoopFacts DEF Attach
    <3>2. /\ b \in Bindings /\ b.held = bind[p].held /\ b.fence = bind[p].fence
          /\ b.draining = bind[p].draining /\ b.agents = bind[p].agents \cup {a}
      BY <2>0, LoopFacts DEF Bindings
    <3>3. Alive(p) /\ life[p] \in Running /\ life' = [life EXCEPT ![p] = life[p]]
      BY <2>0, LoopFacts
    <3>4. b.held /\ b.draining \subseteq b.agents /\ b.draining \cap live'[p] = {}
      BY <2>0, <2>2, <2>3, <3>2, LoopFacts
    <3> HIDE DEF b
    <3> QED
      BY <2>0, <2>1, <3>1, <3>2, <3>3, <3>4, RebindInv
  <2>4. CASE ~(life[p] = "open" /\ bind[p].held)
    <3>1. bind' = [bind EXCEPT ![p] = bind[p]]
      BY <1>10, <2>0, <2>4, LoopFacts DEF Attach
    <3> QED
      BY <2>0, <2>1, <2>2, <3>1, LoopFacts, RebindInv
  <2> QED
    BY <2>3, <2>4
<1>11. ASSUME NEW p \in Processes, NEW a \in Agents, Dispose(p, a) PROVE WInv'
  <2>0. /\ Loop(p) /\ live' = [live EXCEPT ![p] = {}]
        /\ UNCHANGED <<boot, life, bootOf, row, plan>>
    BY <1>11 DEF Dispose
  <2>1. /\ live' \in [Processes -> SUBSET Agents] /\ live'[p] = {}
        /\ \A q \in Processes \ {p} : live'[q] = live[q]
    BY <2>0, LoopFacts
  <2>3. CASE life[p] # "closed" /\ a \in bind[p].agents
    <3> DEFINE b == [bind[p] EXCEPT !.draining = @ \cup {a}]
    <3>1. bind' = [bind EXCEPT ![p] = b]
      BY <1>11, <2>0, <2>3, LoopFacts DEF Dispose
    <3>2. /\ b \in Bindings /\ b.held = bind[p].held /\ b.fence = bind[p].fence
          /\ b.draining = bind[p].draining \cup {a} /\ b.agents = bind[p].agents
      BY <2>0, LoopFacts DEF Bindings
    <3>3. Alive(p) /\ life[p] \in Running /\ life' = [life EXCEPT ![p] = life[p]]
      BY <2>0, LoopFacts
    <3>4. b.held /\ b.draining \subseteq b.agents /\ b.draining \cap live'[p] = {}
      BY <2>0, <2>1, <2>3, <3>2, LoopFacts, UnboundType
    <3> HIDE DEF b
    <3> QED
      BY <2>0, <2>1, <3>1, <3>2, <3>3, <3>4, RebindInv
  <2>4. CASE ~(life[p] # "closed" /\ a \in bind[p].agents)
    <3>1. bind' = [bind EXCEPT ![p] = bind[p]]
      BY <1>11, <2>0, <2>4, LoopFacts DEF Dispose
    <3> QED
      BY <2>0, <2>1, <3>1, LoopFacts, RebindInv
  <2> QED
    BY <2>3, <2>4
<1>12. ASSUME NEW p \in Processes, NEW a \in Agents, Drained(p, a) PROVE WInv'
  <2> DEFINE b == [bind[p] EXCEPT !.agents = @ \ {a}, !.draining = @ \ {a}]
  <2>0. /\ Loop(p) /\ a \in bind[p].draining /\ ReleaseIfUnused(p, b)
        /\ UNCHANGED <<boot, life, bootOf, plan, live>>
    BY <1>12 DEF Drained
  <2>1. bind[p].held
    BY <2>0, LoopFacts, UnboundType
  <2>2. /\ b \in Bindings /\ b.held = bind[p].held /\ b.fence = bind[p].fence
        /\ b.draining = bind[p].draining \ {a} /\ b.agents = bind[p].agents \ {a}
    BY <2>0, LoopFacts DEF Bindings
  <2> HIDE DEF b
  <2> QED
    BY <2>0, <2>1, <2>2, LoopFacts, ReleaseIfUnusedInv
<1>13. ASSUME NEW p \in Processes, NEW a \in Agents, DrainFails(p, a) PROVE WInv'
  <2> DEFINE b == [bind[p] EXCEPT !.draining = @ \ {a}]
  <2>0. /\ Loop(p) /\ a \in bind[p].draining
        /\ UNCHANGED <<boot, life, bootOf, row, plan, live>>
    BY <1>13 DEF DrainFails
  <2>1. bind' = [bind EXCEPT ![p] = b]
    BY <1>13, <2>0, LoopFacts DEF DrainFails
  <2>2. /\ b \in Bindings /\ b.held = bind[p].held /\ b.fence = bind[p].fence
        /\ b.draining = bind[p].draining \ {a} /\ b.agents = bind[p].agents
    BY <2>0, LoopFacts DEF Bindings
  <2>3. b.held
    BY <2>0, <2>2, LoopFacts, UnboundType
  <2> HIDE DEF b
  <2> QED
    BY <2>0, <2>1, <2>2, <2>3, LoopFacts, RebindInv
<1>14. ASSUME NEW p \in Processes, Owed(p) PROVE WInv'
  <2> DEFINE b == [bind[p] EXCEPT !.owed = FALSE]
  <2>0. /\ Loop(p) /\ bind[p].owed /\ ReleaseIfUnused(p, b)
        /\ UNCHANGED <<boot, life, bootOf, plan, live>>
    BY <1>14 DEF Owed
  <2>1. bind[p].held
    BY <2>0, LoopFacts, UnboundType
  <2>2. /\ b \in Bindings /\ b.held = bind[p].held /\ b.fence = bind[p].fence
        /\ b.draining = bind[p].draining /\ b.agents = bind[p].agents
    BY <2>0, LoopFacts DEF Bindings
  <2> HIDE DEF b
  <2> QED
    BY <2>0, <2>1, <2>2, LoopFacts, ReleaseIfUnusedInv
<1>15. ASSUME NEW p \in Processes, Close(p) PROVE WInv'
  <2>0. /\ Loop(p) /\ life' = [life EXCEPT ![p] = "closing"] /\ "closing" \in Running
        /\ UNCHANGED <<boot, bootOf, row, bind, plan, live>>
    BY <1>15 DEF Close, Running
  <2>1. bind' = [bind EXCEPT ![p] = bind[p]]
    BY <2>0, LoopFacts
  <2>2. live' \in [Processes -> SUBSET Agents] /\ bind[p].draining \cap live'[p] = {}
    BY <2>0, LoopFacts
  <2> QED
    BY <2>0, <2>1, <2>2, LoopFacts, RebindInv
<1>16. ASSUME NEW p \in Processes, Teardown(p) PROVE WInv'
  <2>0. /\ Loop(p) /\ life' = [life EXCEPT ![p] = "closed"] /\ "closed" \in Running
        /\ UNCHANGED <<boot, bootOf, plan, live>>
    BY <1>16 DEF Teardown, Running
  <2>1. CASE bind[p].held
    <3> DEFINE b == [bind[p] EXCEPT !.owed = FALSE]
    <3>1. ReleaseIfUnused(p, b)
      BY <1>16, <2>1 DEF Teardown
    <3>2. /\ b \in Bindings /\ b.held = bind[p].held /\ b.fence = bind[p].fence
          /\ b.draining = bind[p].draining /\ b.agents = bind[p].agents
      BY <2>0, LoopFacts DEF Bindings
    <3> HIDE DEF b
    <3> QED
      BY <2>0, <2>1, <3>1, <3>2, LoopFacts, ReleaseIfUnusedInv
  <2>2. CASE ~bind[p].held
    <3>1. UNCHANGED <<row, bind>>
      BY <1>16, <2>2 DEF Teardown
    <3>2. bind' = [bind EXCEPT ![p] = bind[p]]
      BY <2>0, <3>1, LoopFacts
    <3>3. live' \in [Processes -> SUBSET Agents] /\ bind[p].draining \cap live'[p] = {}
      BY <2>0, LoopFacts
    <3> QED
      BY <2>0, <3>1, <3>2, <3>3, LoopFacts, RebindInv
  <2> QED
    BY <2>1, <2>2
<1>17. CASE UNCHANGED vars
  BY <1>17 DEF vars, WInv, TypeOK, HolderOwnsRow, DownIsEmpty, BootIsKnown,
     OwnerWasStarted, PlanNamesOwner, ProofIsSound, DrainingIsDisposed, Alive
<1> QED
  BY <1>1, <1>2, <1>3, <1>4, <1>5, <1>6, <1>7, <1>8, <1>9, <1>10, <1>11, <1>12,
     <1>13, <1>14, <1>15, <1>16, <1>17 DEF Next, AcquireStep, UseStep

LEMMA Invariance == Spec => []WInv
BY InitInv, NextInv, PTL DEF Spec

-----------------------------------------------------------------------------
(* The steps that change the row                                             *)

(* The three places where a process finds that nothing in it needs the row. *)
Releasing(p) ==
    /\ Loop(p)
    /\ Release(p)
    /\ bind[p].reservations = {}
    /\ \/ bind[p].agents = {} /\ (bind[p].owed \/ bind[p].held)
       \/ \E a \in bind[p].draining : bind[p].agents \ {a} = {}

LEMMA ReleaseSteps ==
    ASSUME WInv, Next, row' # row
    PROVE  \E p \in Processes : (\E k \in Tickets : Acquire(p, k)) \/ Releasing(p)
<1>1. ASSUME NEW p \in Processes, NEW a \in Agents, Drained(p, a) PROVE Releasing(p)
  <2> DEFINE b == [bind[p] EXCEPT !.agents = @ \ {a}, !.draining = @ \ {a}]
  <2>1. Loop(p) /\ a \in bind[p].draining /\ ReleaseIfUnused(p, b)
    BY <1>1 DEF Drained
  <2>2. b.reservations = bind[p].reservations /\ b.agents = bind[p].agents \ {a}
    BY <2>1, LoopFacts DEF Bindings
  <2> HIDE DEF b
  <2> QED
    BY <2>1, <2>2 DEF ReleaseIfUnused, Releasing
<1>2. ASSUME NEW p \in Processes, Owed(p) \/ (Teardown(p) /\ bind[p].held)
      PROVE  Releasing(p)
  <2> DEFINE b == [bind[p] EXCEPT !.owed = FALSE]
  <2>1. Loop(p) /\ ReleaseIfUnused(p, b) /\ (bind[p].owed \/ bind[p].held)
    BY <1>2 DEF Owed, Teardown
  <2>2. b.reservations = bind[p].reservations /\ b.agents = bind[p].agents
    BY <2>1, LoopFacts DEF Bindings
  <2> HIDE DEF b
  <2> QED
    BY <2>1, <2>2 DEF ReleaseIfUnused, Releasing
<1>3. \/ \E h \in Hosts : Reboot(h)
      \/ \E p \in Processes : Launch(p) \/ Die(p) \/ AcquireStep(p) \/ UseStep(p)
  BY DEF Next
<1>4. ~ \E h \in Hosts : Reboot(h)
  BY DEF Reboot
<1>5. ASSUME NEW p \in Processes
      PROVE  ~Launch(p) /\ ~Die(p) /\ ~ReadRow(p) /\ ~Judge(p) /\ ~AcquireRefused(p) /\ ~Close(p)
             /\ ~(Teardown(p) /\ ~bind[p].held)
  BY DEF Launch, Die, ReadRow, Judge, AcquireRefused, Close, Teardown
<1>6. ASSUME NEW p \in Processes
      PROVE  /\ \A k \in Tickets : ~Share(p, k) /\ ~GiveBack(p, k)
             /\ \A a \in Agents : ~Attach(p, a) /\ ~Dispose(p, a) /\ ~DrainFails(p, a)
  BY DEF Share, GiveBack, Attach, Dispose, DrainFails
<1> QED
  BY <1>1, <1>2, <1>3, <1>4, <1>5, <1>6 DEF AcquireStep, UseStep

LEMMA RowChanges ==
    ASSUME WInv, Next, row' # row
    PROVE  \E p \in Processes : (\E k \in Tickets : Acquire(p, k)) \/ Release(p)
BY ReleaseSteps DEF Releasing

-----------------------------------------------------------------------------
(* Theorems                                                                  *)

(* Every reachable state is well typed: a binding drains only agents it
   counts, and one that is not held is empty. *)
THEOREM TypeCorrect == Spec => []TypeOK
<1>1. WInv => TypeOK
  BY DEF WInv
<1> QED
  BY <1>1, Invariance, PTL

(* A provider process that holds a writer binding owns the session_writers row
   under the fence it was given, whatever dies, reboots, is restarted under the
   same pid or decides on a row that has changed hands since. *)
THEOREM WriterCorrect == Spec => []HolderOwnsRow
<1>1. WInv => HolderOwnsRow
  BY DEF WInv
<1> QED
  BY <1>1, Invariance, PTL

(* acquireSessionWriter takes an active row only from a dead process. *)
THEOREM TakeoverCorrect == Spec => TakeoverNeedsDeath
<1> DEFINE Dead == row.active /\ row'.active /\ row' # row => life[row.owner] = "dead"
<1>1. ASSUME WInv, Next
      PROVE  Dead
  <2> SUFFICES ASSUME row.active, row'.active, row' # row
               PROVE  life[row.owner] = "dead"
    OBVIOUS
  <2>1. PICK p \in Processes : (\E k \in Tickets : Acquire(p, k)) \/ Release(p)
    BY <1>1, RowChanges
  <2>2. ~Release(p)
    BY <1>1 DEF Release, WInv, TypeOK
  <2> QED
    BY <1>1, <2>1, <2>2 DEF Acquire, MayTake, WInv, ProofIsSound
<1>2. WInv /\ [Next]_vars => [Dead]_vars
  BY <1>1
<1> QED
  BY <1>2, Invariance, PTL DEF Spec, TakeoverNeedsDeath

(* releaseSessionWriterIfUnused gives the row up only when its process has no
   reservation left and the last agent it counted has just been drained. *)
THEOREM ReleaseCorrect == Spec => KeptWhileInUse
<1> DEFINE Kept(p) ==
        bind[p].held /\ ~row'.active /\ life'[p] # "dead" =>
            /\ bind[p].reservations = {}
            /\ bind[p].agents \cap live[p] = {}
            /\ bind[p].agents = bind[p].draining
            /\ \A a, b \in bind[p].draining : a = b
<1>1. ASSUME WInv, Next, NEW p \in Processes
      PROVE  Kept(p)
  <2> SUFFICES ASSUME bind[p].held, ~row'.active
               PROVE  /\ bind[p].reservations = {}
                      /\ bind[p].agents \cap live[p] = {}
                      /\ bind[p].agents = bind[p].draining
                      /\ \A a, b \in bind[p].draining : a = b
    OBVIOUS
  <2>1. row.active
    BY <1>1 DEF WInv, HolderOwnsRow
  <2>2. PICK q \in Processes : Releasing(q)
    <3>1. row' # row
      BY <2>1
    <3>2. \A x \in Processes, k \in Tickets : ~Acquire(x, k)
      BY DEF Acquire
    <3> QED
      BY <1>1, <3>1, <3>2, ReleaseSteps
  <2>3. Loop(q) /\ bind[q] # Unbound
    BY <1>1, <2>2, LoopFacts, UnboundType DEF Releasing
  <2>4. p = q
    BY <1>1, <2>3, LoopFacts, OneHolder
  <2>5. /\ bind[p].draining \subseteq bind[p].agents
        /\ bind[p].draining \cap live[p] = {}
    BY <1>1, <2>3, <2>4, LoopFacts
  <2>6. bind[p].reservations = {}
    BY <2>2, <2>4 DEF Releasing
  <2>7. CASE bind[p].agents = {}
    BY <2>5, <2>6, <2>7
  <2>8. CASE \E a \in bind[p].draining : bind[p].agents \ {a} = {}
    <3>1. PICK a \in bind[p].draining : bind[p].agents \ {a} = {}
      BY <2>8
    <3>2. bind[p].agents = {a} /\ bind[p].draining = {a}
      BY <2>5, <3>1
    <3> QED
      BY <2>5, <2>6, <3>2
  <2> QED
    BY <2>2, <2>4, <2>7, <2>8 DEF Releasing
<1>2. WInv /\ [Next]_vars => [\A p \in Processes : Kept(p)]_vars
  BY <1>1
<1> QED
  BY <1>2, Invariance, PTL DEF Spec, KeptWhileInUse

(* A fence, which stands for the owner token, is never issued twice. *)
THEOREM FenceCorrect == Spec => FenceGrows
<1> DEFINE Grows ==
        /\ row'.fence >= row.fence
        /\ row'.fence = row.fence => row'.owner = row.owner
        /\ ~row.active /\ row'.active => row'.fence > row.fence
<1>1. ASSUME WInv, Next
      PROVE  Grows
  <2>1. row.fence \in Nat
    BY <1>1 DEF WInv, TypeOK
  <2>2. CASE row' = row
    BY <2>1, <2>2
  <2>3. CASE row' # row
    <3>1. PICK p \in Processes : (\E k \in Tickets : Acquire(p, k)) \/ Release(p)
      BY <1>1, <2>3, RowChanges
    <3>2. CASE Release(p)
      <4>1. /\ row'.fence = row.fence /\ row'.owner = row.owner /\ ~row'.active
        BY <1>1, <3>2 DEF Release, WInv, TypeOK
      <4> QED
        BY <2>1, <4>1
    <3>3. CASE \E k \in Tickets : Acquire(p, k)
      <4>1. row'.fence = row.fence + 1
        BY <3>3 DEF Acquire
      <4> QED
        BY <2>1, <4>1
    <3> QED
      BY <3>1, <3>2, <3>3
  <2> QED
    BY <2>2, <2>3
<1>2. WInv /\ [Next]_vars => [Grows]_vars
  BY <1>1
<1> QED
  BY <1>2, Invariance, PTL DEF Spec, FenceGrows

=============================================================================
