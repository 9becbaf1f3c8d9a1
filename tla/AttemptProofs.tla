--------------------------- MODULE AttemptProofs ---------------------------
(***************************************************************************)
(* Proofs about AttemptRun for any number of Attempts, launches and        *)
(* disturbances: the types, that no command runs twice, and that what      *)
(* happens to a RunSlot is what RunSlot promises.                          *)
(***************************************************************************)
EXTENDS AttemptRun, FiniteSetTheorems, TLAPS

(* An edge is only ever on its way, and a timer only armed, for a RunSlot that
   has an Attempt; the job at hand is about one. *)
HasAttempt ==
    /\ queue # <<>> \/ job.pc # "idle" \/ (\E e \in TimerEdges : Armed(e))
          => slot.ordinal > 0
    /\ job.pc # "idle" => job.ref.ordinal > 0
    /\ job.pc \in {"publish", "tell"} => job.next.ordinal = job.ref.ordinal

(* A wrapper that got past its started receipt is the one the receipt names. *)
Past == {"started", "ready", "running", "exited"}

ReceiptNamesRunner ==
    \A w \in Wrappers :
       /\ wrapper[w].stage = "unborn" => command[w] = Unset
       /\ (wrapper[w].stage \in Past \/ command[w] # Unset)
             /\ wrapper[w].attempt \in Attempts
             => files[wrapper[w].attempt].started = w

IInv == TypeOK /\ HasAttempt /\ ReceiptNamesRunner

-----------------------------------------------------------------------------
LEMMA InspectedType ==
    ASSUME NEW j \in Jobs, NEW r \in Inspections, Inspected(r, j)
    PROVE  /\ job' \in Jobs
           /\ job'.pc \in {"exit", "launch", "reconcile"}
           /\ job'.ref = j.ref
<1>1. CASE j.round = "main" /\ r = "absent" /\ j.ref.phase = "launching"
  <2>1. job' = [j EXCEPT !.pc = "exit", !.round = "before", !.launched = TRUE]
    BY <1>1 DEF Inspected
  <2> QED BY <2>1 DEF Jobs, JobSteps
<1>2. CASE j.round = "before" /\ r = "absent"
  <2>1. job' = [j EXCEPT !.pc = "launch"]
    BY <1>2 DEF Inspected
  <2> QED BY <2>1 DEF Jobs, JobSteps
<1>3. CASE j.round = "after" /\ r = "absent"
  <2>1. job' = [j EXCEPT !.pc = "reconcile", !.insp = "pending"]
    BY <1>3 DEF Inspected
  <2> QED BY <2>1 DEF Jobs, JobSteps, Inspections
<1>4. CASE ~(j.round = "main" /\ r = "absent" /\ j.ref.phase = "launching")
           /\ ~(j.round = "before" /\ r = "absent")
           /\ ~(j.round = "after" /\ r = "absent")
  <2>1. job' = [j EXCEPT !.pc = "reconcile", !.insp = r]
    BY <1>4 DEF Inspected
  <2> QED BY <2>1 DEF Jobs, JobSteps
<1> QED BY <1>1, <1>2, <1>3, <1>4

LEMMA IdleType == Idle \in Jobs /\ Idle.pc = "idle" /\ NoReference \in References
BY BoundsAssumption DEF Idle, Jobs, JobSteps, Edges, References, NoReference, Phases,
   Outcomes, Unset, Inspections, Actions

LEMMA InitInv == Init => IInv
<1> SUFFICES ASSUME Init PROVE IInv
  OBVIOUS
<1>1. TypeOK
  BY IdleType, BoundsAssumption DEF Init, TypeOK, Evidence, Processes, Events, Outcomes,
     Unset, Alive, TimerEdges
<1>2. HasAttempt
  BY IdleType DEF Init, HasAttempt, Armed, TimerEdges
<1>3. ReceiptNamesRunner
  BY DEF Init, ReceiptNamesRunner, Past, Unset
<1> QED BY <1>1, <1>2, <1>3 DEF IInv

-----------------------------------------------------------------------------
(* Steps of wrappers and of the environment that leave slot, job and timers
   alone and at most append to the queue.                                    *)

LEMMA DispatchedType ==
    ASSUME TypeOK, NEW e \in Edges
    PROVE  /\ Dispatched(e) \in Seq([edge : Edges, expected : References])
           /\ Dispatched(e) # <<>> => slot.ordinal > 0 \/ queue # <<>>
<1>1. [edge |-> e, expected |-> NoReference] \in [edge : Edges, expected : References]
  BY IdleType
<1>2. queue \in Seq([edge : Edges, expected : References])
  BY DEF TypeOK
<1>3. Append(queue, [edge |-> e, expected |-> NoReference])
        \in Seq([edge : Edges, expected : References])
  BY <1>1, <1>2
<1> QED BY <1>2, <1>3 DEF Dispatched, External

(* A change of one wrapper's stage. *)
LEMMA StageType ==
    ASSUME TypeOK, NEW w \in Wrappers, NEW to \in Alive \cup {"unborn", "dead"},
           wrapper' = [wrapper EXCEPT ![w].stage = to]
    PROVE  /\ wrapper' \in [Wrappers -> Processes]
           /\ wrapper'[w].stage = to
           /\ wrapper'[w].attempt = wrapper[w].attempt
           /\ \A v \in Wrappers \ {w} : wrapper'[v] = wrapper[v]
<1>1. wrapper \in [Wrappers -> Processes]
  BY DEF TypeOK
<1>2. [wrapper[w] EXCEPT !.stage = to] \in Processes
  BY <1>1 DEF Processes
<1>3. /\ [wrapper[w] EXCEPT !.stage = to].stage = to
      /\ [wrapper[w] EXCEPT !.stage = to].attempt = wrapper[w].attempt
  BY <1>1 DEF Processes
<1> QED BY <1>1, <1>2, <1>3

(* Only the queue, and only by a poke. *)
PokeOnly ==
    /\ UNCHANGED <<slot, ctl, timers, job, attending, told>>
    /\ \/ UNCHANGED queue
       \/ queue' = Dispatched("poke")

LEMMA PokeOnlyType ==
    ASSUME TypeOK, HasAttempt, PokeOnly
    PROVE  /\ slot' \in References
           /\ ctl' \in {"down", "opened", "ready"}
           /\ queue' \in Seq([edge : Edges, expected : References])
           /\ timers' \in [TimerEdges -> References]
           /\ job' \in Jobs
           /\ attending' \in BOOLEAN
           /\ told' \subseteq Events
           /\ HasAttempt'
<1>1. "poke" \in Edges
  BY DEF Edges
<1>2. queue' \in Seq([edge : Edges, expected : References])
  BY <1>1, DispatchedType DEF PokeOnly, TypeOK
<1>3. queue' # <<>> => slot.ordinal > 0
  BY <1>1, DispatchedType DEF PokeOnly, HasAttempt
<1> QED BY <1>2, <1>3 DEF PokeOnly, TypeOK, HasAttempt, Armed

(* The wrapper's own files and command after a step of wrapper w. *)
LEMMA WrappedStep ==
    ASSUME IInv, Wrapped
    PROVE  IInv'
<1> USE DEF IInv
<1>0. /\ wrapper \in [Wrappers -> Processes]
      /\ command \in [Wrappers -> {Unset, "running"} \cup Outcomes]
      /\ files \in [Attempts -> Evidence]
      /\ tmux \in [Attempts -> 0..MaxLaunches]
      /\ trouble \in 0..MaxTrouble
  BY DEF TypeOK
<1>1. PICK w \in Wrappers :
         \/ VerifyTmuxBinding(w) \/ OpenLog(w) \/ StampStart(w) \/ WriteStarted(w)
         \/ PokeStarted(w) \/ SpawnCommand(w) \/ CommandEnds(w) \/ WriteExit(w)
         \/ PokeExit(w) \/ WrapperDies(w)
  BY DEF Wrapped
<1>2. w \in 1..MaxLaunches /\ w # 0 /\ w \in 0..MaxLaunches
  BY <1>1, BoundsAssumption DEF Wrappers
<1>3. PokeOnly /\ tmux' = tmux /\ trouble' = trouble
  BY <1>1 DEF VerifyTmuxBinding, OpenLog, StampStart, WriteStarted, PokeStarted,
     SpawnCommand, CommandEnds, WriteExit, PokeExit, WrapperDies, PokeRuntime,
     PokeOnly, ctlVars
<1>4. HasAttempt'
  BY <1>3, PokeOnlyType
<1> DEFINE Goal == /\ wrapper' \in [Wrappers -> Processes]
                   /\ command' \in [Wrappers -> {Unset, "running"} \cup Outcomes]
                   /\ files' \in [Attempts -> Evidence]
                   /\ ReceiptNamesRunner'
<1>a. ASSUME NEW from \in Alive, NEW to \in Alive \cup {"dead"}, Stage(w, from, to),
             from \in Past \/ to \notin Past,
             UNCHANGED <<files, command>>
      PROVE  Goal
  <2>1. /\ wrapper' \in [Wrappers -> Processes]
        /\ wrapper'[w].stage = to
        /\ wrapper'[w].attempt = wrapper[w].attempt
        /\ \A v \in Wrappers \ {w} : wrapper'[v] = wrapper[v]
    BY <1>a, StageType DEF Stage
  <2>2. from # "unborn" /\ to # "unborn" /\ wrapper[w].stage = from
    BY <1>a DEF Alive, Stage
  <2>3. ReceiptNamesRunner'
    BY <1>a, <2>1, <2>2 DEF ReceiptNamesRunner
  <2> QED BY <1>0, <1>a, <2>1, <2>3
<1>5. ASSUME VerifyTmuxBinding(w) \/ StampStart(w) PROVE Goal
  BY <1>5, <1>a DEF VerifyTmuxBinding, StampStart, Alive, Past
<1>6. ASSUME PokeStarted(w) \/ PokeExit(w) PROVE Goal
  BY <1>6, <1>a DEF PokeStarted, PokeExit, Alive, Past
<1>7. ASSUME WrapperDies(w) PROVE Goal
  <2>1. Stage(w, wrapper[w].stage, "dead") /\ wrapper[w].stage \in Alive
    BY <1>7 DEF WrapperDies, Stage
  <2> QED BY <2>1, <1>7, <1>a DEF WrapperDies, Past
<1>8. ASSUME OpenLog(w) PROVE Goal
  <2>1. CASE Stage(w, "bound", "dead") /\ UNCHANGED files
    BY <1>8, <2>1, <1>a DEF OpenLog, Alive, Past
  <2>2. CASE /\ Stage(w, "bound", "logged")
             /\ files' = [files EXCEPT ![wrapper[w].attempt].log = w]
    <3>1. /\ wrapper' \in [Wrappers -> Processes]
          /\ wrapper'[w].stage = "logged"
          /\ wrapper'[w].attempt = wrapper[w].attempt
          /\ \A v \in Wrappers \ {w} : wrapper'[v] = wrapper[v]
      BY <2>2, StageType DEF Stage, Alive
    <3>2. /\ files' \in [Attempts -> Evidence]
          /\ \A a \in Attempts : files'[a].started = files[a].started
      BY <1>0, <1>2, <2>2 DEF Evidence
    <3>3. command' = command /\ wrapper[w].stage = "bound"
      BY <1>8 DEF OpenLog
    <3>4. \A v \in Wrappers : /\ wrapper'[v].attempt = wrapper[v].attempt
                              /\ wrapper'[v].stage \in Past => wrapper[v].stage \in Past
                              /\ wrapper'[v].stage = "unborn" => wrapper[v].stage = "unborn"
      BY <3>1 DEF Past
    <3>5. ReceiptNamesRunner'
      BY <3>2, <3>3, <3>4 DEF ReceiptNamesRunner
    <3> QED BY <1>0, <3>1, <3>2, <3>3, <3>5
  <2> QED BY <1>8, <2>1, <2>2 DEF OpenLog
<1>9. ASSUME WriteStarted(w) PROVE Goal
  <2>1. CASE Stage(w, "stamped", "dead") /\ UNCHANGED files
    BY <1>9, <2>1, <1>a DEF WriteStarted, Alive, Past
  <2>2. CASE /\ files[wrapper[w].attempt].started = 0
             /\ Stage(w, "stamped", "started")
             /\ files' = [files EXCEPT ![wrapper[w].attempt].started = w]
    <3>1. /\ wrapper' \in [Wrappers -> Processes]
          /\ wrapper'[w].stage = "started"
          /\ wrapper'[w].attempt = wrapper[w].attempt
          /\ \A v \in Wrappers \ {w} : wrapper'[v] = wrapper[v]
      BY <2>2, StageType DEF Stage, Alive
    <3>2. /\ files' \in [Attempts -> Evidence]
          /\ wrapper[w].attempt \in Attempts => files'[wrapper[w].attempt].started = w
          /\ \A a \in Attempts \ {wrapper[w].attempt} : files'[a].started = files[a].started
      BY ZenonT(40), <1>0, <1>2, <2>2 DEF Evidence
    <3>3. command' = command /\ wrapper[w].stage = "stamped"
      BY <1>9 DEF WriteStarted
    <3>4. ASSUME NEW v \in Wrappers \ {w}, wrapper[v].attempt \in Attempts,
                 wrapper[v].stage \in Past \/ command[v] # Unset
          PROVE  wrapper[v].attempt # wrapper[w].attempt
      <4>1. files[wrapper[v].attempt].started = v /\ v # 0
        BY <3>4 DEF ReceiptNamesRunner, Wrappers
      <4> QED BY <4>1, <2>2
    <3>5. ASSUME NEW v \in Wrappers
          PROVE  /\ wrapper'[v].stage = "unborn" => command'[v] = Unset
                 /\ (wrapper'[v].stage \in Past \/ command'[v] # Unset)
                       /\ wrapper'[v].attempt \in Attempts
                       => files'[wrapper'[v].attempt].started = v
      <4>1. CASE v = w
        BY <4>1, <3>1, <3>2, <3>3
      <4>2. CASE v # w
        <5>1. wrapper'[v] = wrapper[v] /\ command'[v] = command[v]
          BY <4>2, <3>1, <3>3
        <5>2. wrapper[v].stage = "unborn" => command[v] = Unset
          BY DEF ReceiptNamesRunner
        <5>3. ASSUME wrapper[v].stage \in Past \/ command[v] # Unset,
                     wrapper[v].attempt \in Attempts
              PROVE  files'[wrapper[v].attempt].started = v
          <6>1. files[wrapper[v].attempt].started = v
            BY <5>3 DEF ReceiptNamesRunner
          <6> QED BY <6>1, <5>3, <3>4, <3>2, <4>2
        <5> QED BY <5>1, <5>2, <5>3
      <4> QED BY <4>1, <4>2
    <3>6. ReceiptNamesRunner'
      BY <3>5 DEF ReceiptNamesRunner
    <3> QED BY <1>0, <3>1, <3>2, <3>3, <3>6
  <2> QED BY <1>9, <2>1, <2>2 DEF WriteStarted, Creates
<1>b. ASSUME SpawnCommand(w) \/ CommandEnds(w) PROVE Goal
  <2>1. /\ wrapper' \in [Wrappers -> Processes]
        /\ \A v \in Wrappers : /\ wrapper'[v].attempt = wrapper[v].attempt
                               /\ wrapper'[v].stage \in Past => wrapper[v].stage \in Past
                               /\ wrapper'[v].stage = "unborn" => wrapper[v].stage = "unborn"
                               /\ v # w => command'[v] = command[v]
    <3>1. CASE SpawnCommand(w)
      <4>1. /\ wrapper' \in [Wrappers -> Processes]
            /\ wrapper'[w].stage = "running"
            /\ wrapper'[w].attempt = wrapper[w].attempt
            /\ \A v \in Wrappers \ {w} : wrapper'[v] = wrapper[v]
        BY <3>1, StageType DEF SpawnCommand, Stage, Alive
      <4>2. wrapper[w].stage = "ready"
        BY <3>1 DEF SpawnCommand, Stage
      <4>3. \A v \in Wrappers : v # w => command'[v] = command[v]
        BY <3>1, <1>0 DEF SpawnCommand
      <4> QED BY <4>1, <4>2, <4>3 DEF Past
    <3>2. CASE CommandEnds(w)
      BY <3>2, <1>0 DEF CommandEnds
    <3> QED BY <1>b, <3>1, <3>2
  <2>2. command' \in [Wrappers -> {Unset, "running"} \cup Outcomes]
    BY <1>b, <1>0 DEF SpawnCommand, CommandEnds, Outcomes
  <2>3. files' = files
    BY <1>b DEF SpawnCommand, CommandEnds
  <2>4. wrapper[w].stage \in Past \/ command[w] # Unset
    BY <1>b DEF SpawnCommand, CommandEnds, Stage, Past, Unset
  <2>5. wrapper'[w].stage # "unborn"
    <3>1. CASE SpawnCommand(w)
      BY <3>1, <1>0, StageType DEF SpawnCommand, Stage, Alive
    <3>2. CASE CommandEnds(w)
      BY <3>2 DEF CommandEnds, ReceiptNamesRunner, Unset
    <3> QED BY <1>b, <3>1, <3>2
  <2>6. ReceiptNamesRunner'
    BY <2>1, <2>3, <2>4, <2>5 DEF ReceiptNamesRunner
  <2> QED BY <1>0, <2>1, <2>2, <2>3, <2>6
<1>c. ASSUME WriteExit(w) PROVE Goal
  <2>1. /\ wrapper' \in [Wrappers -> Processes]
        /\ wrapper'[w].stage = "exited"
        /\ wrapper'[w].attempt = wrapper[w].attempt
        /\ \A v \in Wrappers \ {w} : wrapper'[v] = wrapper[v]
    BY <1>c, StageType DEF WriteExit, Stage, Alive
  <2>2. /\ files' \in [Attempts -> Evidence]
        /\ \A a \in Attempts : files'[a].started = files[a].started
    BY <1>0, <1>c DEF WriteExit, Evidence
  <2>3. command' = command /\ wrapper[w].stage = "running"
    BY <1>c DEF WriteExit, Stage
  <2>4. \A v \in Wrappers : /\ wrapper'[v].attempt = wrapper[v].attempt
                            /\ wrapper'[v].stage \in Past => wrapper[v].stage \in Past
                            /\ wrapper'[v].stage = "unborn" => wrapper[v].stage = "unborn"
    BY <2>1, <2>3 DEF Past
  <2>5. ReceiptNamesRunner'
    BY <2>2, <2>3, <2>4 DEF ReceiptNamesRunner
  <2> QED BY <1>0, <2>1, <2>2, <2>3, <2>5
<1>d. Goal
  BY <1>1, <1>5, <1>6, <1>7, <1>8, <1>9, <1>b, <1>c
<1> QED BY <1>0, <1>3, <1>4, <1>d, PokeOnlyType DEF TypeOK

(* Steps that leave the wrappers' part of the invariant alone. *)
LEMMA ReceiptStutter ==
    ASSUME ReceiptNamesRunner, UNCHANGED <<files, wrapper, command>>
    PROVE  ReceiptNamesRunner'
BY DEF ReceiptNamesRunner

LEMMA StaleType ==
    ASSUME NEW j \in Jobs
    PROVE  /\ Stale(j) \in Jobs
           /\ Stale(j).pc = j.pc /\ Stale(j).ref = j.ref /\ Stale(j).next = j.next
BY DEF Stale, Jobs

LEMMA EnvironmentStep ==
    ASSUME IInv, Environment
    PROVE  IInv'
<1> USE DEF IInv
<1>1. UNCHANGED <<slot, files, wrapper, command, told>>
  BY DEF Environment, TmuxCloses, TmuxLost, LabChanges, ControllerLeaves,
     ControllerReturns, Crash, Restart, procVars, ctlVars
<1>2. ReceiptNamesRunner'
  BY <1>1, ReceiptStutter
<1>3. trouble' \in 0..MaxTrouble
  BY BoundsAssumption DEF Environment, TmuxCloses, TmuxLost, LabChanges,
     ControllerLeaves, ControllerReturns, Crash, Restart, Disturb, TypeOK
<1>4. CASE \E a \in Attempts : TmuxCloses(a) \/ TmuxLost(a)
  <2>1. tmux' \in [Attempts -> 0..MaxLaunches] /\ UNCHANGED <<ctlVars, attending>>
    BY <1>4, BoundsAssumption DEF TmuxCloses, TmuxLost, TypeOK
  <2>2. HasAttempt'
    BY <1>1, <2>1 DEF HasAttempt, ctlVars, Armed
  <2> QED BY <1>1, <1>2, <1>3, <2>1, <2>2 DEF TypeOK, ctlVars
<1>5. CASE LabChanges
  <2>1. job' = Stale(job) /\ UNCHANGED <<tmux, ctl, queue, timers, attending>>
    BY <1>5 DEF LabChanges, procVars
  <2>2. job \in Jobs
    BY DEF TypeOK
  <2>3. job' \in Jobs /\ job'.pc = job.pc /\ job'.ref = job.ref /\ job'.next = job.next
    BY <2>1, <2>2, StaleType
  <2>4. HasAttempt'
    BY <1>1, <2>1, <2>3 DEF HasAttempt, Armed
  <2> QED BY <1>1, <1>2, <1>3, <2>1, <2>3, <2>4 DEF TypeOK
<1>6. CASE ControllerLeaves \/ ControllerReturns \/ Restart
  <2>1. /\ UNCHANGED <<tmux, queue, timers, job>>
        /\ ctl' \in {"down", "opened", "ready"}
        /\ attending' \in BOOLEAN
    BY <1>6 DEF ControllerLeaves, ControllerReturns, Restart, procVars, ctlVars, TypeOK
  <2>2. HasAttempt'
    BY <1>1, <2>1 DEF HasAttempt, Armed
  <2> QED BY <1>1, <1>2, <1>3, <2>1, <2>2 DEF TypeOK
<1>7. CASE Crash
  <2>1. /\ ctl' = "down" /\ queue' = <<>> /\ job' = Idle
        /\ timers' = [e \in TimerEdges |-> NoReference]
        /\ UNCHANGED <<tmux, attending>>
    BY <1>7 DEF Crash, procVars
  <2>2. HasAttempt'
    BY <2>1, IdleType DEF HasAttempt, Armed
  <2>3. queue' \in Seq([edge : Edges, expected : References])
    BY <2>1
  <2> QED BY <1>1, <1>2, <1>3, <2>1, <2>2, <2>3, IdleType DEF TypeOK
<1> QED BY <1>4, <1>5, <1>6, <1>7 DEF Environment

(* A new reference and a poke for it. *)
LEMMA OrderStep ==
    ASSUME IInv, NEW o \in Attempts, Order(o)
    PROVE  IInv'
<1> USE DEF IInv
<1>1. /\ slot' = [ordinal |-> o, phase |-> "launching", started |-> FALSE,
                  rev |-> slot.rev + 1]
      /\ job' = Stale(job)
      /\ queue' = Append(queue, External("poke"))
      /\ UNCHANGED <<files, wrapper, command, tmux, ctl, timers, attending, told, trouble>>
  BY DEF Order, procVars
<1>2. o \in Nat /\ o > 0 /\ o \in 0..MaxAttempts
  BY BoundsAssumption DEF Attempts
<1>3. slot' \in References /\ slot'.ordinal = o
  <2>1. slot.rev + 1 \in Nat
    BY DEF TypeOK, References
  <2> QED BY <1>1, <1>2, <2>1 DEF References, Phases
<1>4. External("poke") \in [edge : Edges, expected : References]
  BY IdleType DEF External, Edges
<1>5. queue' \in Seq([edge : Edges, expected : References])
  BY <1>1, <1>4 DEF TypeOK
<1>6. job' \in Jobs /\ job'.pc = job.pc /\ job'.ref = job.ref /\ job'.next = job.next
  BY <1>1, StaleType DEF TypeOK
<1>7. HasAttempt'
  BY <1>2, <1>3, <1>6 DEF HasAttempt
<1>8. ReceiptNamesRunner'
  BY <1>1, ReceiptStutter
<1> QED BY <1>1, <1>3, <1>5, <1>6, <1>7, <1>8 DEF TypeOK

LEMMA ToolsStep ==
    ASSUME IInv, Tools
    PROVE  IInv'
<1>1. CASE LaunchAttempt
  <2>1. 1 \in Attempts /\ Order(1)
    BY <1>1, BoundsAssumption DEF LaunchAttempt, Attempts
  <2> QED BY <2>1, OrderStep
<1>2. CASE RetryAttempt
  <2>1. slot.ordinal + 1 \in Attempts /\ Order(slot.ordinal + 1)
    BY <1>2, BoundsAssumption DEF RetryAttempt, Attempts
  <2> QED BY <2>1, OrderStep
<1>3. CASE ReplayCall
  <2> USE DEF IInv
  <2>1. /\ queue' = Append(queue, External("poke"))
        /\ UNCHANGED <<slot, files, wrapper, command, tmux, ctl, timers, job, attending, told>>
    BY <1>3 DEF ReplayCall, procVars
  <2>a. slot.ordinal > 0
    BY <1>3 DEF ReplayCall, IInv, TypeOK, References
  <2>b. trouble' \in 0..MaxTrouble
    BY <1>3, BoundsAssumption DEF ReplayCall, Disturb, TypeOK
  <2>2. External("poke") \in [edge : Edges, expected : References]
    BY IdleType DEF External, Edges
  <2>3. queue' \in Seq([edge : Edges, expected : References])
    BY <2>1, <2>2 DEF TypeOK
  <2>4. HasAttempt'
    BY <2>1, <2>a DEF HasAttempt
  <2>5. ReceiptNamesRunner'
    BY <2>1, ReceiptStutter
  <2> QED BY <2>1, <2>b, <2>3, <2>4, <2>5 DEF TypeOK
<1> QED BY <1>1, <1>2, <1>3 DEF Tools

LEMMA WakeupsStep ==
    ASSUME IInv, Wakeups
    PROVE  IInv'
<1> USE DEF IInv
<1>1. CASE DispatchStartup
  <2>1. /\ ctl' = "ready" /\ queue' = Dispatched("startup")
        /\ UNCHANGED <<slot, files, wrapper, command, tmux, timers, job, attending,
                       told, trouble>>
    BY <1>1 DEF DispatchStartup, procVars
  <2>2. "startup" \in Edges
    BY DEF Edges
  <2>3. /\ queue' \in Seq([edge : Edges, expected : References])
        /\ queue' # <<>> => slot.ordinal > 0 \/ queue # <<>>
    BY <2>1, <2>2, DispatchedType
  <2>4. HasAttempt'
    BY <2>1, <2>3 DEF HasAttempt, Armed
  <2>5. ReceiptNamesRunner'
    BY <2>1, ReceiptStutter
  <2> QED BY <2>1, <2>3, <2>4, <2>5 DEF TypeOK
<1>2. ASSUME NEW e \in TimerEdges, FireTimer(e)
      PROVE  IInv'
  <2>1. /\ queue' = Append(queue, [edge |-> e, expected |-> timers[e]])
        /\ timers' = [timers EXCEPT ![e] = NoReference]
        /\ UNCHANGED <<slot, files, wrapper, command, tmux, ctl, job, attending, told, trouble>>
        /\ Armed(e)
    BY <1>2 DEF FireTimer, procVars
  <2>2. [edge |-> e, expected |-> timers[e]] \in [edge : Edges, expected : References]
    BY DEF Edges, TimerEdges, TypeOK
  <2>3. queue' \in Seq([edge : Edges, expected : References])
    BY <2>1, <2>2 DEF TypeOK
  <2>4. slot.ordinal > 0
    BY <2>1 DEF HasAttempt
  <2>5. HasAttempt'
    BY <2>1, <2>4 DEF HasAttempt
  <2>6. timers' \in [TimerEdges -> References]
    BY <2>1, IdleType DEF TypeOK
  <2>7. ReceiptNamesRunner'
    BY <2>1, ReceiptStutter
  <2> QED BY <2>1, <2>3, <2>5, <2>6, <2>7 DEF TypeOK
<1> QED BY <1>1, <1>2 DEF Wakeups

-----------------------------------------------------------------------------
(* Steps of the edge at hand.                                                *)

(* A step that only moves the job, and not to its publication. *)
LEMMA JobStep ==
    ASSUME IInv, job.pc # "idle", job' \in Jobs, job'.ref = job.ref,
           job'.pc \notin {"publish", "tell"},
           UNCHANGED <<slot, procVars, ctl, queue, timers, attending, told>>,
           trouble' \in 0..MaxTrouble
    PROVE  IInv'
<1> USE DEF IInv
<1>1. HasAttempt'
  BY DEF HasAttempt, Armed
<1>2. ReceiptNamesRunner'
  BY ReceiptStutter DEF procVars
<1> QED BY <1>1, <1>2 DEF TypeOK, procVars

LEMMA TargetType ==
    ASSUME IInv, job.pc # "idle"
    PROVE  /\ job \in Jobs
           /\ job.ref.ordinal \in Attempts
           /\ Target \in Evidence
<1>1. job \in Jobs /\ files \in [Attempts -> Evidence]
  BY DEF IInv, TypeOK
<1>2. job.ref.ordinal \in 0..MaxAttempts /\ job.ref.ordinal > 0
  BY <1>1 DEF Jobs, References, IInv, HasAttempt
<1>3. job.ref.ordinal \in Attempts
  BY <1>2, BoundsAssumption DEF Attempts
<1> QED BY <1>1, <1>3 DEF Target

(* An inspection that is handed to its caller. *)
LEMMA InspectedStep ==
    ASSUME IInv, job.pc # "idle", NEW j \in Jobs, j.ref = job.ref,
           NEW r \in Inspections, Inspected(r, j),
           UNCHANGED <<slot, procVars, ctl, queue, timers, attending, told>>,
           trouble' \in 0..MaxTrouble
    PROVE  IInv'
<1>1. job' \in Jobs /\ job'.pc \in {"exit", "launch", "reconcile"} /\ job'.ref = job.ref
  BY InspectedType
<1> QED BY <1>1, JobStep

LEMMA ReadStep ==
    ASSUME IInv, ReadExit \/ ReadStarted \/ ReadLog \/ SettleExit
    PROVE  IInv'
<1>0. /\ UNCHANGED <<slot, procVars, ctl, queue, timers, attending, told>>
      /\ trouble' \in 0..MaxTrouble
  BY DEF ReadExit, ReadStarted, ReadLog, SettleExit, IInv, TypeOK
<1>1. job.pc # "idle"
  BY DEF ReadExit, ReadStarted, ReadLog, SettleExit, Inspecting
<1>2. job \in Jobs /\ Target \in Evidence
  BY <1>1, TargetType
<1>3. CASE ReadExit
  <2>1. job' = [job EXCEPT !.pc = "receipts", !.exit = Target.exit]
    BY <1>3 DEF ReadExit
  <2>2. job' \in Jobs /\ job'.ref = job.ref /\ job'.pc = "receipts"
    BY <2>1, <1>2 DEF Jobs, JobSteps, Evidence
  <2> QED BY <1>0, <1>1, <2>2, JobStep
<1>4. CASE ReadStarted
  <2> DEFINE j == [job EXCEPT !.started = Target.started]
  <2>1. j \in Jobs /\ j.ref = job.ref
    BY <1>2 DEF Jobs, Evidence
  <2>2. \/ Inspected("blocked", j)
        \/ Inspected("completed", j)
        \/ job' = [j EXCEPT !.pc = "log"]
    BY <1>4 DEF ReadStarted
  <2> HIDE DEF j
  <2>3. CASE job' = [j EXCEPT !.pc = "log"]
    <3>1. job' \in Jobs /\ job'.ref = job.ref /\ job'.pc = "log"
      BY <2>1, <2>3 DEF Jobs, JobSteps
    <3> QED BY <1>0, <1>1, <3>1, JobStep
  <2>4. CASE Inspected("blocked", j) \/ Inspected("completed", j)
    <3>1. "blocked" \in Inspections /\ "completed" \in Inspections
      BY DEF Inspections
    <3> QED BY <1>0, <1>1, <2>1, <2>4, <3>1, InspectedStep
  <2> QED BY <2>2, <2>3, <2>4
<1>5. CASE ReadLog
  <2> DEFINE j == [job EXCEPT !.log = Target.log]
  <2>1. j \in Jobs /\ j.ref = job.ref
    BY <1>2 DEF Jobs, Evidence
  <2>2. Inspected("blocked", j) \/ job' = [j EXCEPT !.pc = "probe"]
    BY <1>5 DEF ReadLog
  <2> HIDE DEF j
  <2>3. CASE job' = [j EXCEPT !.pc = "probe"]
    <3>1. job' \in Jobs /\ job'.ref = job.ref /\ job'.pc = "probe"
      BY <2>1, <2>3 DEF Jobs, JobSteps
    <3> QED BY <1>0, <1>1, <3>1, JobStep
  <2>4. CASE Inspected("blocked", j)
    <3>1. "blocked" \in Inspections
      BY DEF Inspections
    <3> QED BY <1>0, <1>1, <2>1, <2>4, <3>1, InspectedStep
  <2> QED BY <2>2, <2>3, <2>4
<1>6. CASE SettleExit
  <2> DEFINE j == [job EXCEPT !.exit = Target.exit]
             r == IF Target.exit # Unset THEN "completed" ELSE "outcome_unknown"
  <2>1. j \in Jobs /\ j.ref = job.ref
    BY <1>2 DEF Jobs, Evidence
  <2>2. Inspected(r, j)
    BY <1>6 DEF SettleExit
  <2>3. r \in Inspections
    BY DEF Inspections
  <2> HIDE DEF j, r
  <2> QED BY <1>0, <1>1, <2>1, <2>2, <2>3, InspectedStep
<1> QED BY <1>3, <1>4, <1>5, <1>6

LEMMA ProbeStep ==
    ASSUME IInv, ProbeTmux \/ ProbeProcess
    PROVE  IInv'
<1>0. UNCHANGED <<slot, procVars, ctl, queue, timers, attending, told>>
  BY DEF ProbeTmux, ProbeProcess
<1>1. job.pc # "idle"
  BY DEF ProbeTmux, ProbeProcess, Inspecting
<1>2. job \in Jobs
  BY <1>1, TargetType
<1>3. trouble' \in 0..MaxTrouble
  <2>1. trouble' = trouble \/ Disturb
    BY DEF ProbeTmux, ProbeProcess
  <2> QED BY <2>1, BoundsAssumption DEF Disturb, IInv, TypeOK
<1>4. \/ \E r \in Inspections : Inspected(r, job)
      \/ job' = [job EXCEPT !.pc = "process"]
      \/ job' = [job EXCEPT !.pc = "settle"]
  <2>1. CASE ProbeTmux
    BY <2>1 DEF ProbeTmux, Inspections
  <2>2. CASE ProbeProcess
    BY <2>2 DEF ProbeProcess, Inspections
  <2> QED BY <2>1, <2>2
<1>5. CASE \E r \in Inspections : Inspected(r, job)
  <2>1. PICK r \in Inspections : Inspected(r, job)
    BY <1>5
  <2> QED BY <1>0, <1>1, <1>2, <1>3, <2>1, InspectedStep
<1>6. CASE \/ job' = [job EXCEPT !.pc = "process"]
           \/ job' = [job EXCEPT !.pc = "settle"]
  <2>1. job' \in Jobs /\ job'.ref = job.ref /\ job'.pc \in {"process", "settle"}
    BY <1>2, <1>6 DEF Jobs, JobSteps
  <2> QED BY <1>0, <1>1, <1>3, <2>1, JobStep
<1> QED BY <1>4, <1>5, <1>6

LEMMA HeadTailType ==
    ASSUME NEW S, NEW q \in Seq(S), q # <<>>
    PROVE  Tail(q) \in Seq(S) /\ Head(q) \in S
OBVIOUS

LEMMA TakeEdgeStep ==
    ASSUME IInv, TakeEdge
    PROVE  IInv'
<1> USE DEF IInv
<1>1. /\ queue # <<>> /\ queue' = Tail(queue)
      /\ UNCHANGED <<slot, procVars, ctl, timers, attending, told, trouble>>
      /\ \/ job' = [Idle EXCEPT !.pc = "exit", !.edge = Head(queue).edge,
                                !.ref = slot, !.fresh = TRUE]
         \/ UNCHANGED job
  BY DEF TakeEdge
<1>2. /\ queue' \in Seq([edge : Edges, expected : References])
      /\ Head(queue) \in [edge : Edges, expected : References]
  <2>1. queue \in Seq([edge : Edges, expected : References])
    BY DEF TypeOK
  <2> QED BY <1>1, <2>1, HeadTailType
<1>3. slot.ordinal > 0 /\ slot \in References
  BY <1>1 DEF HasAttempt, TypeOK
<1>4. job' \in Jobs /\ HasAttempt'
  <2>1. CASE UNCHANGED job
    BY <1>1, <1>3, <2>1 DEF HasAttempt, TypeOK
  <2>2. CASE job' = [Idle EXCEPT !.pc = "exit", !.edge = Head(queue).edge,
                                 !.ref = slot, !.fresh = TRUE]
    <3>1. job' \in Jobs /\ job'.pc = "exit" /\ job'.ref = slot
      BY <1>2, <1>3, <2>2, IdleType DEF Jobs, JobSteps
    <3> QED BY <1>1, <1>3, <3>1 DEF HasAttempt
  <2> QED BY <1>1, <2>1, <2>2
<1>5. ReceiptNamesRunner'
  BY <1>1, ReceiptStutter DEF procVars
<1> QED BY <1>1, <1>2, <1>4, <1>5 DEF TypeOK, procVars

(* A new wrapper takes a name that nobody had. *)
LEMMA LaunchStep ==
    ASSUME IInv, LaunchTmux
    PROVE  IInv'
<1> USE DEF IInv
<1>1. /\ UNCHANGED <<slot, files, command, ctl, queue, timers, attending, told>>
      /\ job.pc = "launch"
  BY DEF LaunchTmux, Inspecting
<1>2. job \in Jobs /\ job.ref.ordinal \in Attempts
  BY <1>1, TargetType
<1>3. /\ job' \in Jobs /\ job'.ref = job.ref
      /\ job'.pc \in {"exit", "reconcile"}
  <2>1. \/ job' = [job EXCEPT !.pc = "exit", !.round = "after"]
        \/ \E r \in {"pending", "blocked"} :
              job' = [job EXCEPT !.pc = "reconcile", !.insp = r]
    BY DEF LaunchTmux
  <2> QED BY <1>2, <2>1 DEF Jobs, JobSteps, Inspections
<1>4. trouble' \in 0..MaxTrouble
  <2>1. trouble' = trouble \/ Disturb
    BY DEF LaunchTmux
  <2> QED BY <2>1, BoundsAssumption DEF Disturb, TypeOK
<1>5. HasAttempt'
  BY <1>1, <1>3 DEF HasAttempt, Armed
<1>6. /\ wrapper' \in [Wrappers -> Processes]
      /\ tmux' \in [Attempts -> 0..MaxLaunches]
      /\ ReceiptNamesRunner'
  <2>1. CASE UNCHANGED <<wrapper, tmux>>
    BY <1>1, <2>1, ReceiptStutter DEF TypeOK
  <2>2. ASSUME NEW w \in Unborn,
               wrapper' = [wrapper EXCEPT ![w] = [attempt |-> job.ref.ordinal,
                                                  stage |-> "boot"]],
               tmux' = [tmux EXCEPT ![job.ref.ordinal] = w]
        PROVE  /\ wrapper' \in [Wrappers -> Processes]
               /\ tmux' \in [Attempts -> 0..MaxLaunches]
               /\ ReceiptNamesRunner'
    <3>1. w \in Wrappers /\ w \in 0..MaxLaunches /\ wrapper[w].stage = "unborn"
      BY BoundsAssumption DEF Unborn, Wrappers
    <3>2. [attempt |-> job.ref.ordinal, stage |-> "boot"] \in Processes
      BY <1>2, BoundsAssumption DEF Processes, Alive, Attempts
    <3>3. /\ wrapper' \in [Wrappers -> Processes]
          /\ tmux' \in [Attempts -> 0..MaxLaunches]
      BY <1>2, <2>2, <3>1, <3>2 DEF TypeOK
    <3>4. /\ wrapper'[w].stage = "boot"
          /\ \A v \in Wrappers \ {w} : wrapper'[v] = wrapper[v]
      BY <2>2, <3>1 DEF TypeOK
    <3>5. command[w] = Unset
      BY <3>1 DEF ReceiptNamesRunner
    <3>6. ReceiptNamesRunner'
      BY <1>1, <3>4, <3>5 DEF ReceiptNamesRunner, Past
    <3> QED BY <3>3, <3>6
  <2>3. \/ UNCHANGED <<wrapper, tmux>>
        \/ \E w \in Unborn :
              /\ wrapper' = [wrapper EXCEPT ![w] = [attempt |-> job.ref.ordinal,
                                                    stage |-> "boot"]]
              /\ tmux' = [tmux EXCEPT ![job.ref.ordinal] = w]
    BY DEF LaunchTmux
  <2> QED BY <2>1, <2>2, <2>3
<1> QED BY <1>1, <1>3, <1>4, <1>5, <1>6 DEF TypeOK

(* A projection is about the Attempt that was inspected. *)
LEMMA AdvanceType ==
    ASSUME NEW ref \in References, NEW phase \in Phases
    PROVE  Advance(ref, phase) \in References /\ Advance(ref, phase).ordinal = ref.ordinal
<1> DEFINE up == ref.rev + 1
<1>1. up \in Nat
  BY DEF References
<1>2. Advance(ref, phase) = [[ref EXCEPT !.phase = phase] EXCEPT !.rev = up]
  BY DEF Advance, References
<1> HIDE DEF up
<1> QED BY <1>1, <1>2 DEF References

LEMMA WithStartType ==
    ASSUME NEW j \in Jobs
    PROVE  WithStart(j) \in References /\ WithStart(j).ordinal = j.ref.ordinal
<1> DEFINE adv == Advance(j.ref, "running")
<1>1. j.ref \in References /\ "running" \in Phases
  BY DEF Jobs, Phases
<1>2. adv \in References /\ adv.ordinal = j.ref.ordinal
  BY <1>1, AdvanceType
<1> HIDE DEF adv
<1>3. [adv EXCEPT !.started = TRUE] \in References
  BY <1>2 DEF References
<1>4. [adv EXCEPT !.started = TRUE].ordinal = j.ref.ordinal
  BY <1>2 DEF References
<1>5. WithStart(j) = j.ref \/ WithStart(j) = [adv EXCEPT !.started = TRUE]
  BY DEF WithStart, adv
<1> QED BY <1>1, <1>3, <1>4, <1>5

LEMMA ProjectedType ==
    ASSUME NEW j \in Jobs
    PROVE  Projected(j) \in References /\ Projected(j).ordinal = j.ref.ordinal
<1> DEFINE s == WithStart(j)
<1>1. s \in References /\ s.ordinal = j.ref.ordinal /\ j.ref \in References
  BY WithStartType DEF Jobs
<1>2. /\ Advance(s, "terminal") \in References
      /\ Advance(s, "terminal").ordinal = j.ref.ordinal
      /\ Advance(s, "outcome_unknown") \in References
      /\ Advance(s, "outcome_unknown").ordinal = j.ref.ordinal
  <2>1. "terminal" \in Phases /\ "outcome_unknown" \in Phases
    BY DEF Phases
  <2> HIDE DEF s
  <2> QED BY <1>1, <2>1, AdvanceType
<1>3. Projected(j) \in {j.ref, s, Advance(s, "terminal"), Advance(s, "outcome_unknown")}
  BY DEF Projected
<1> HIDE DEF s
<1> QED BY <1>1, <1>2, <1>3

LEMMA ReconcileStep ==
    ASSUME IInv, Reconcile
    PROVE  IInv'
<1> USE DEF IInv
<1>1. /\ UNCHANGED <<slot, wrapper, command, tmux, ctl, queue, timers, attending, told,
                     trouble>>
      /\ job.pc = "reconcile"
  BY DEF Reconcile, Inspecting
<1>2. job \in Jobs /\ job.ref.ordinal \in Attempts /\ Target \in Evidence
  BY <1>1, TargetType
<1>3. Projected(job) \in References /\ Projected(job).ordinal = job.ref.ordinal
  BY <1>2, ProjectedType
<1>4. job' \in Jobs /\ HasAttempt'
  <2>1. CASE job' = Idle
    BY <1>1, <2>1, IdleType DEF HasAttempt, Armed
  <2>2. CASE job' = [job EXCEPT !.pc = "publish", !.action = Action(job),
                                !.next = Projected(job)]
    <3>1. Action(job) \in Actions
      BY DEF Action, Actions
    <3>2. /\ job' \in Jobs /\ job'.pc = "publish" /\ job'.ref = job.ref
          /\ job'.next = Projected(job)
      BY <1>2, <1>3, <2>2, <3>1 DEF Jobs, JobSteps
    <3> QED BY <1>1, <1>3, <3>2 DEF HasAttempt, Armed
  <2> QED BY <2>1, <2>2 DEF Reconcile
<1>5. /\ files' \in [Attempts -> Evidence]
      /\ \A a \in Attempts : files'[a].started = files[a].started
  <2>1. CASE UNCHANGED files
    BY <2>1 DEF TypeOK
  <2>2. CASE files' = [files EXCEPT ![job.ref.ordinal].uncertain = ObservedNow]
    <3>1. ObservedNow \in {"early", "late"}
      BY DEF ObservedNow
    <3>2. files \in [Attempts -> Evidence]
      BY DEF TypeOK
    <3> QED BY <1>2, <2>2, <3>1, <3>2 DEF Evidence
  <2> QED BY <2>1, <2>2 DEF Reconcile
<1>6. ReceiptNamesRunner'
  BY <1>1, <1>5 DEF ReceiptNamesRunner, TypeOK
<1> QED BY <1>1, <1>4, <1>5, <1>6 DEF TypeOK

LEMMA PublishStep ==
    ASSUME IInv, Publish
    PROVE  IInv'
<1> USE DEF IInv
<1>1. /\ UNCHANGED <<procVars, ctl, timers, attending, told, trouble>>
      /\ job.pc = "publish"
      /\ \E b \in BOOLEAN : job' = [job EXCEPT !.pc = "tell", !.published = b]
      /\ slot' = slot \/ slot' = job.next
      /\ queue' = queue \/ queue' = Dispatched("poke")
  BY DEF Publish, Inspecting, AskAgain
<1>2. job \in Jobs /\ job.ref.ordinal \in Attempts
  BY <1>1, TargetType
<1>3. /\ job' \in Jobs /\ job'.pc = "tell" /\ job'.ref = job.ref
      /\ job'.next = job.next
  BY <1>1, <1>2 DEF Jobs, JobSteps
<1>4. job.next \in References /\ job.next.ordinal > 0
  BY <1>1, <1>2 DEF HasAttempt, Jobs
<1>5. slot.ordinal > 0 /\ slot \in References
  BY <1>1 DEF HasAttempt, TypeOK
<1>6. queue' \in Seq([edge : Edges, expected : References])
  <2>1. "poke" \in Edges
    BY DEF Edges
  <2> QED BY <1>1, <2>1, DispatchedType DEF TypeOK
<1>7. HasAttempt'
  BY <1>1, <1>3, <1>4, <1>5 DEF HasAttempt
<1>8. ReceiptNamesRunner'
  BY <1>1, ReceiptStutter DEF procVars
<1> QED BY <1>1, <1>3, <1>4, <1>5, <1>6, <1>7, <1>8 DEF TypeOK, procVars

LEMMA TellStep ==
    ASSUME IInv, TellController
    PROVE  IInv'
<1> USE DEF IInv
<1>1. /\ UNCHANGED <<slot, procVars, ctl, queue, attending, trouble>>
      /\ job.pc = "tell" /\ job' = Idle
      /\ told' = told \cup EventsOf(job)
      /\ timers' = TimersAfter(job)
  BY DEF TellController, Inspecting
<1>2. job \in Jobs /\ slot \in References /\ slot.ordinal > 0
  BY <1>1 DEF HasAttempt, TypeOK
<1>3. job.next \in References
  BY <1>2 DEF Jobs
<1>4. EventsOf(job) \subseteq Events
  <2>1. Wakes(job) /\ slot.phase = job.next.phase
          => Event(slot.ordinal, slot.phase) \in Events
    BY <1>2 DEF Wakes, Event, Events, References
  <2>2. Event(slot.ordinal, "incident") \in Events
    BY <1>2 DEF Event, Events, References
  <2> QED BY <2>1, <2>2 DEF EventsOf
<1>5. timers' \in [TimerEdges -> References]
  <2>1. timers \in [TimerEdges -> References]
    BY DEF TypeOK
  <2>2. CASE job.action = "pending"
    BY <1>1, <1>3, <2>1, <2>2 DEF TimersAfter, TimerEdges
  <2>3. CASE job.action # "pending"
    <3> DEFINE kept == IF job.edge = "poke" \/ Wakes(job) THEN NoReference
                       ELSE timers["launch-safety"]
               arms == ~Wakes(job) /\ job.launched /\ job.insp \in {"launching", "running"}
               later == IF arms /\ kept = NoReference THEN job.next ELSE kept
    <3>1. timers' = [e \in TimerEdges |->
                       IF e = "launch-safety" THEN later ELSE NoReference]
      BY <1>1, <2>3 DEF TimersAfter
    <3>2. kept \in References
      <4>1. timers["launch-safety"] \in References
        BY <2>1 DEF TimerEdges
      <4> QED BY <4>1, IdleType
    <3> HIDE DEF kept, arms
    <3>3. later \in References
      BY <1>3, <3>2
    <3> HIDE DEF later
    <3> QED BY <3>1, <3>3, IdleType
  <2> QED BY <2>2, <2>3
<1>6. HasAttempt'
  BY <1>1, <1>2, IdleType DEF HasAttempt
<1>7. ReceiptNamesRunner'
  BY <1>1, ReceiptStutter DEF procVars
<1> QED BY <1>1, <1>2, <1>4, <1>5, <1>6, <1>7, IdleType DEF TypeOK, procVars

LEMMA ConsumeStep ==
    ASSUME IInv, Consume
    PROVE  IInv'
BY TakeEdgeStep, ReadStep, ProbeStep, LaunchStep, ReconcileStep, PublishStep, TellStep
   DEF Consume

LEMMA StepInv == IInv /\ [Next]_vars => IInv'
<1> SUFFICES ASSUME IInv, [Next]_vars PROVE IInv'
  OBVIOUS
<1>1. CASE Next
  BY <1>1, WrappedStep, EnvironmentStep, ConsumeStep, ToolsStep, WakeupsStep DEF Next
<1>2. CASE UNCHANGED vars
  <2>1. UNCHANGED <<slot, files, wrapper, command, tmux, ctl, queue, timers, job,
                    attending, told, trouble>>
    BY <1>2 DEF vars
  <2>2. HasAttempt'
    BY <2>1 DEF IInv, HasAttempt, Armed
  <2> QED BY <2>1, <2>2, ReceiptStutter DEF IInv, TypeOK
<1> QED BY <1>1, <1>2

LEMMA Inductive == Spec => []IInv
BY InitInv, StepInv, PTL DEF Spec

(* Every variable keeps its type, for any number of Attempts and launches: in
   particular an edge is never consumed for a RunSlot without an Attempt, so an
   inspection always has files to look at. *)
THEOREM TypeCorrect == Spec => []TypeOK
<1>1. IInv => TypeOK
  BY DEF IInv
<1> QED BY <1>1, Inductive, PTL

LEMMA OneRunner ==
    ASSUME IInv, NEW a \in Attempts
    PROVE  Cardinality(Ran(a)) <= 1
<1>1. \A w \in Ran(a) : w = files[a].started
  BY DEF IInv, ReceiptNamesRunner, Ran
<1>2. CASE Ran(a) = {}
  BY <1>2, FS_EmptySet
<1>3. CASE Ran(a) # {}
  <2>1. Ran(a) = {files[a].started}
    BY <1>1, <1>3
  <2>2. Cardinality(Ran(a)) = 1
    BY <2>1, FS_Singleton, Zenon
  <2> QED BY <2>2
<1> QED BY <1>2, <1>3

(* However often an Attempt is launched, its command runs at most once: a
   wrapper spawns the command only when the started receipt names it. *)
THEOREM RunsOnce == Spec => []CommandRunsOnce
<1>1. IInv => CommandRunsOnce
  BY OneRunner DEF CommandRunsOnce
<1> QED BY <1>1, Inductive, PTL

-----------------------------------------------------------------------------
(* The record of the RunSlot, the receipts and the processes agree.          *)

(* What was retried failed for certain, and what is terminal has ended.      *)
RecordInv ==
    /\ slot.ordinal = 0 <=> slot.phase = "pending"
    /\ slot.phase = "terminal" => files[slot.ordinal].exit # Unset
    /\ \A a \in Attempts : a < slot.ordinal => files[a].exit = "failed"

(* An exit receipt is that of the one wrapper that ran the command.          *)
ExitInv ==
    \A a \in Attempts : files[a].exit # Unset =>
       /\ files[a].started \in Wrappers
       /\ wrapper[files[a].started].attempt = a
       /\ wrapper[files[a].started].stage \in {"exited", "dead"}
       /\ command[files[a].started] = files[a].exit

(* A wrapper belongs to an Attempt that was ordered, and spawns once.        *)
BornInv ==
    \A w \in Wrappers :
       /\ wrapper[w].attempt <= slot.ordinal
       /\ wrapper[w].stage # "unborn" => wrapper[w].attempt > 0
       /\ wrapper[w].stage \notin {"running", "exited", "dead"} => command[w] = Unset

(* A projection goes on from what it has read. *)
Advances(ref, next) ==
    \/ next.phase = ref.phase
    \/ next.phase = "running" /\ ref.phase \in {"launching", "outcome_unknown"}
    \/ next.phase = "outcome_unknown" /\ ref.phase \in {"launching", "running"}
    \/ next.phase = "terminal" /\ files[ref.ordinal].exit # Unset

(* What a job has read is still so: the ordinal grows, receipts stay.        *)
JobInv ==
    job.pc # "idle" =>
       /\ job.ref.ordinal <= slot.ordinal /\ job.ref.phase # "pending"
       /\ job.exit # Unset => files[job.ref.ordinal].exit # Unset
       /\ job.insp = "completed" => job.exit # Unset
       /\ job.pc \in {"publish", "tell"} => Advances(job.ref, job.next)

SlotInv == IInv /\ RecordInv /\ ExitInv /\ BornInv /\ JobInv

LEMMA SlotInit ==
    ASSUME Init
    PROVE  SlotInv
<1>1. IInv
  BY InitInv
<1>2. RecordInv /\ ExitInv
  <2>1. \A a \in Attempts : files[a].exit = Unset /\ a > 0
    BY DEF Init, Attempts
  <2>2. slot.ordinal = 0 /\ slot.phase = "pending"
    BY DEF Init, NoReference
  <2> QED BY <2>1, <2>2, BoundsAssumption DEF RecordInv, ExitInv, Attempts
<1>3. BornInv
  <2>1. \A w \in Wrappers : wrapper[w].attempt = 0 /\ wrapper[w].stage = "unborn"
                            /\ command[w] = Unset
    BY DEF Init
  <2>2. slot.ordinal = 0
    BY DEF Init, NoReference
  <2> QED BY <2>1, <2>2 DEF BornInv
<1>4. JobInv
  BY IdleType DEF Init, JobInv
<1> QED BY <1>1, <1>2, <1>3, <1>4 DEF SlotInv

(* Steps that leave the record, the receipts and the processes alone.        *)
LEMMA QuietStep ==
    ASSUME SlotInv, IInv', JobInv', UNCHANGED <<slot, files, wrapper, command>>
    PROVE  SlotInv'
BY DEF SlotInv, RecordInv, ExitInv, BornInv

LEMMA QuietJob ==
    ASSUME SlotInv, UNCHANGED <<slot, files>>,
           job' = job \/ job' = Idle \/ job' = Stale(job)
    PROVE  JobInv'
<1>0. job \in Jobs
  BY DEF SlotInv, IInv, TypeOK
<1>1. CASE job' = Idle
  BY <1>1, IdleType DEF JobInv
<1>2. CASE job' = job
  BY <1>2 DEF SlotInv, JobInv, Advances
<1>3. CASE job' = Stale(job)
  <2>1. /\ job'.pc = job.pc /\ job'.ref = job.ref /\ job'.exit = job.exit
        /\ job'.insp = job.insp /\ job'.next = job.next
    BY <1>0, <1>3 DEF Stale, Jobs
  <2> QED BY <2>1 DEF SlotInv, JobInv, Advances
<1> QED BY <1>1, <1>2, <1>3

(* A step of wrapper w that neither spawns nor ends anything.                *)
LEMMA StageSlot ==
    ASSUME SlotInv, IInv', NEW w \in Wrappers,
           NEW to \in {"bound", "logged", "stamped", "started", "ready", "dead"},
           wrapper[w].stage \in Alive,
           wrapper[w].stage \in {"running", "exited"} => to = "dead",
           wrapper' = [wrapper EXCEPT ![w].stage = to],
           UNCHANGED <<slot, job, command>>,
           \A a \in Attempts :
              /\ files'[a].exit = files[a].exit
              /\ files[a].exit # Unset => files'[a].started = files[a].started
    PROVE  SlotInv'
<1> USE DEF SlotInv
<1>1. /\ wrapper'[w].stage = to
      /\ \A v \in Wrappers : wrapper'[v].attempt = wrapper[v].attempt
      /\ \A v \in Wrappers \ {w} : wrapper'[v] = wrapper[v]
  <2>1. to \in Alive \cup {"unborn", "dead"} /\ TypeOK
    BY DEF IInv, Alive
  <2> QED BY <2>1, StageType
<1>2. slot.ordinal > 0 => slot.ordinal \in Attempts
  BY BoundsAssumption DEF IInv, TypeOK, References, Attempts
<1>3. slot \in References
  BY DEF IInv, TypeOK
<1>4. RecordInv'
  <2>1. slot.phase = "terminal" => slot.ordinal \in Attempts
    BY <1>2, <1>3 DEF RecordInv, References
  <2> QED BY <2>1 DEF RecordInv
<1>5. ExitInv'
  <2> SUFFICES ASSUME NEW a \in Attempts, files[a].exit # Unset
               PROVE  /\ wrapper'[files[a].started].attempt = a
                      /\ wrapper'[files[a].started].stage \in {"exited", "dead"}
    BY DEF ExitInv
  <2>1. /\ files[a].started \in Wrappers
        /\ wrapper[files[a].started].attempt = a
        /\ wrapper[files[a].started].stage \in {"exited", "dead"}
    BY DEF ExitInv
  <2>2. wrapper[w].stage # "dead"
    BY DEF Alive
  <2>3. wrapper[w].stage = "exited" => to = "dead"
    OBVIOUS
  <2> QED BY <1>1, <2>1, <2>2, <2>3
<1>6. BornInv'
  <2>1. wrapper[w].stage # "unborn" /\ wrapper[w].stage # "dead"
    BY DEF Alive
  <2>2. to \notin {"running", "exited", "dead"} => command[w] = Unset
    BY <2>1 DEF BornInv
  <2>3. wrapper[w].attempt > 0
    BY <2>1 DEF BornInv
  <2> QED BY <1>1, <2>2, <2>3 DEF BornInv
<1>7. JobInv'
  <2>1. job.pc # "idle" => job.ref.ordinal \in Attempts
    BY TargetType
  <2> QED BY <2>1 DEF JobInv, Advances
<1> QED BY <1>4, <1>5, <1>6, <1>7

(* A wrapper that is past its started receipt ran nothing before, and its    *)
(* Attempt is the last one, not ended.                                       *)
LEMMA RunnerIsCurrent ==
    ASSUME SlotInv, NEW w \in Wrappers,
           wrapper[w].stage \in Past \/ command[w] # Unset,
           wrapper[w].stage \in {"ready", "running"} \/ command[w] = "running"
    PROVE  /\ wrapper[w].attempt \in Attempts
           /\ wrapper[w].attempt = slot.ordinal
           /\ files[slot.ordinal].started = w
           /\ files[slot.ordinal].exit = Unset
           /\ slot.phase # "terminal"
<1> USE DEF SlotInv
<1> DEFINE a == wrapper[w].attempt
<1>0. slot.ordinal \in 0..MaxAttempts /\ a \in 0..MaxAttempts
  BY DEF IInv, TypeOK, References, Processes
<1>1. a \in Attempts /\ a <= slot.ordinal
  <2>1. wrapper[w].stage # "unborn"
    BY DEF IInv, ReceiptNamesRunner, Past
  <2> QED BY <1>0, <2>1, BoundsAssumption DEF BornInv, Attempts
<1>2. files[a].started = w
  BY <1>1 DEF IInv, ReceiptNamesRunner
<1>3. files[a].exit = Unset
  <2> SUFFICES ASSUME files[a].exit # Unset PROVE FALSE
    OBVIOUS
  <2>1. wrapper[w].stage \in {"exited", "dead"} /\ command[w] = files[a].exit
    BY <1>1, <1>2 DEF ExitInv
  <2>2. files[a].exit \in {Unset} \cup Outcomes
    BY <1>1 DEF IInv, TypeOK, Evidence
  <2> QED BY <2>1, <2>2 DEF Outcomes
<1>4. a = slot.ordinal
  <2>1. ~(a < slot.ordinal)
    BY <1>1, <1>3 DEF RecordInv, Unset
  <2> QED BY <1>0, <1>1, <2>1
<1> QED BY <1>1, <1>2, <1>3, <1>4 DEF RecordInv

LEMMA SpawnSlot ==
    ASSUME SlotInv, IInv', NEW w \in Wrappers, SpawnCommand(w) \/ CommandEnds(w)
    PROVE  SlotInv'
<1> USE DEF SlotInv
<1>0. /\ UNCHANGED <<slot, files, job>>
      /\ \A v \in Wrappers : wrapper'[v].attempt = wrapper[v].attempt
      /\ \A v \in Wrappers \ {w} : wrapper'[v] = wrapper[v] /\ command'[v] = command[v]
      /\ wrapper'[w].stage = wrapper[w].stage \/ wrapper'[w].stage = "running"
  <2>1. wrapper \in [Wrappers -> Processes]
        /\ command \in [Wrappers -> {Unset, "running"} \cup Outcomes]
    BY DEF IInv, TypeOK
  <2>2. CASE SpawnCommand(w)
    <3>1. wrapper' = [wrapper EXCEPT ![w].stage = "running"]
      BY <2>2 DEF SpawnCommand, Stage
    <3>2. TypeOK /\ "running" \in Alive \cup {"unborn", "dead"}
      BY DEF IInv, Alive
    <3>3. /\ wrapper'[w].stage = "running"
          /\ wrapper'[w].attempt = wrapper[w].attempt
          /\ \A v \in Wrappers \ {w} : wrapper'[v] = wrapper[v]
      BY <3>1, <3>2, StageType
    <3> QED BY <2>1, <2>2, <3>3 DEF SpawnCommand, ctlVars
  <2>3. CASE CommandEnds(w)
    BY <2>1, <2>3 DEF CommandEnds, ctlVars
  <2> QED BY <2>2, <2>3
<1>1. \/ wrapper[w].stage = "ready" /\ wrapper'[w].stage = "running"
      \/ command[w] = "running" /\ wrapper'[w].stage = wrapper[w].stage
  <2>1. CASE SpawnCommand(w)
    <3>1. TypeOK /\ "running" \in Alive \cup {"unborn", "dead"}
      BY DEF IInv, Alive
    <3> QED BY <2>1, <3>1, StageType DEF SpawnCommand, Stage
  <2>2. CASE CommandEnds(w)
    BY <2>2 DEF CommandEnds
  <2> QED BY <2>1, <2>2
<1>2. /\ wrapper[w].attempt \in Attempts
      /\ files[wrapper[w].attempt].exit = Unset
  BY <1>1, RunnerIsCurrent DEF Past, Unset
<1>3. RecordInv'
  BY <1>0 DEF RecordInv
<1>4. ExitInv'
  BY <1>0, <1>2 DEF ExitInv
<1>5. BornInv'
  BY <1>0, <1>1 DEF BornInv, Unset
<1>6. JobInv'
  BY <1>0 DEF JobInv, Advances
<1> QED BY <1>3, <1>4, <1>5, <1>6

LEMMA ExitSlot ==
    ASSUME SlotInv, IInv', NEW w \in Wrappers, WriteExit(w)
    PROVE  SlotInv'
<1> USE DEF SlotInv
<1> DEFINE a == wrapper[w].attempt
<1>0. /\ UNCHANGED <<slot, job, command>> /\ wrapper[w].stage = "running"
      /\ command[w] \in Outcomes
      /\ files' = [files EXCEPT ![a].exit = command[w]]
      /\ files \in [Attempts -> Evidence]
  BY DEF WriteExit, Stage, IInv, TypeOK, ctlVars
<1>1. /\ a \in Attempts /\ a = slot.ordinal /\ files[a].started = w
      /\ files[a].exit = Unset
  BY <1>0, RunnerIsCurrent DEF Past
<1>2. /\ files'[a].exit = command[w] /\ files'[a].started = w
      /\ \A b \in Attempts \ {a} : files'[b] = files[b]
  BY <1>0, <1>1 DEF Evidence
<1>3. /\ wrapper'[w].stage = "exited"
      /\ \A v \in Wrappers : wrapper'[v].attempt = wrapper[v].attempt
      /\ \A v \in Wrappers \ {w} : wrapper'[v] = wrapper[v]
  <2>1. TypeOK /\ "exited" \in Alive \cup {"unborn", "dead"}
    BY DEF IInv, Alive
  <2> QED BY <2>1, StageType DEF WriteExit, Stage
<1>4. command[w] # Unset
  BY <1>0 DEF Outcomes, Unset
<1>5. RecordInv'
  <2>1. \A b \in Attempts : b < slot.ordinal => b # a
    BY <1>1 DEF Attempts
  <2> QED BY <1>0, <1>1, <1>2, <1>4, <2>1 DEF RecordInv
<1>6. ExitInv'
  <2> SUFFICES ASSUME NEW b \in Attempts, files'[b].exit # Unset
               PROVE  /\ files'[b].started \in Wrappers
                      /\ wrapper'[files'[b].started].attempt = b
                      /\ wrapper'[files'[b].started].stage \in {"exited", "dead"}
                      /\ command'[files'[b].started] = files'[b].exit
    BY DEF ExitInv
  <2>1. CASE b = a
    BY <1>0, <1>2, <1>3, <2>1
  <2>2. CASE b # a
    BY <1>0, <1>2, <1>3, <2>2 DEF ExitInv
  <2> QED BY <2>1, <2>2
<1>7. BornInv'
  <2>1. a > 0
    BY <1>1 DEF Attempts
  <2> QED BY <1>0, <1>3, <2>1 DEF BornInv
<1>8. JobInv'
  <2>1. \A b \in Attempts : files[b].exit # Unset => files'[b].exit # Unset
    BY <1>1, <1>2
  <2>2. job.pc # "idle" => job.ref.ordinal \in Attempts
    BY TargetType
  <2> QED BY <1>0, <2>1, <2>2 DEF JobInv, Advances
<1> QED BY <1>5, <1>6, <1>7, <1>8

LEMMA WrappedSlot ==
    ASSUME SlotInv, IInv', Wrapped
    PROVE  SlotInv'
<1>1. PICK w \in Wrappers :
         \/ VerifyTmuxBinding(w) \/ OpenLog(w) \/ StampStart(w) \/ WriteStarted(w)
         \/ PokeStarted(w) \/ SpawnCommand(w) \/ CommandEnds(w) \/ WriteExit(w)
         \/ PokeExit(w) \/ WrapperDies(w)
  BY DEF Wrapped
<1>0. files \in [Attempts -> Evidence]
  BY DEF SlotInv, IInv, TypeOK
<1>2. CASE VerifyTmuxBinding(w)
  BY <1>2, StageSlot DEF VerifyTmuxBinding, Stage, Alive, ctlVars
<1>3. CASE StampStart(w)
  BY <1>3, StageSlot DEF StampStart, Stage, Alive, ctlVars
<1>4. CASE PokeStarted(w)
  BY <1>4, StageSlot DEF PokeStarted, Stage, Alive
<1>5. CASE PokeExit(w)
  BY <1>5, StageSlot DEF PokeExit, Stage, Alive
<1>6. CASE WrapperDies(w)
  BY <1>6, StageSlot DEF WrapperDies, ctlVars
<1>7. CASE OpenLog(w)
  <2>1. \/ UNCHANGED files
        \/ files' = [files EXCEPT ![wrapper[w].attempt].log = w]
    BY <1>7 DEF OpenLog
  <2>2. \A a \in Attempts : files'[a].exit = files[a].exit
                            /\ files'[a].started = files[a].started
    BY <1>0, <2>1 DEF Evidence
  <2>3. \E to \in {"logged", "dead"} : wrapper' = [wrapper EXCEPT ![w].stage = to]
    BY <1>7 DEF OpenLog, Stage
  <2> QED BY <1>7, <2>2, <2>3, StageSlot DEF OpenLog, Alive, ctlVars
<1>8. CASE WriteStarted(w)
  <2>1. \A a \in Attempts :
           /\ files'[a].exit = files[a].exit
           /\ files[a].exit # Unset => files'[a].started = files[a].started
    <3>1. CASE UNCHANGED files
      BY <3>1
    <3>2. CASE /\ files[wrapper[w].attempt].started = 0
               /\ files' = [files EXCEPT ![wrapper[w].attempt].started = w]
      <4>1. ASSUME NEW a \in Attempts, files[a].exit # Unset
            PROVE  a # wrapper[w].attempt
        BY <3>2, <4>1 DEF SlotInv, ExitInv, Wrappers
      <4> QED BY <1>0, <3>2, <4>1 DEF Evidence
    <3> QED BY <1>8, <3>1, <3>2 DEF WriteStarted, Creates
  <2>2. \E to \in {"started", "dead"} : wrapper' = [wrapper EXCEPT ![w].stage = to]
    BY <1>8 DEF WriteStarted, Stage
  <2> QED BY <1>8, <2>1, <2>2, StageSlot DEF WriteStarted, Alive, ctlVars
<1>9. CASE SpawnCommand(w) \/ CommandEnds(w)
  BY <1>9, SpawnSlot
<1>10. CASE WriteExit(w)
  BY <1>10, ExitSlot
<1> QED BY <1>1, <1>2, <1>3, <1>4, <1>5, <1>6, <1>7, <1>8, <1>9, <1>10

LEMMA EnvironmentSlot ==
    ASSUME SlotInv, IInv', Environment \/ ReplayCall \/ Wakeups
    PROVE  SlotInv'
<1>1. /\ UNCHANGED <<slot, files, wrapper, command>>
      /\ job' = job \/ job' = Idle \/ job' = Stale(job)
  BY DEF Environment, TmuxCloses, TmuxLost, LabChanges, ControllerLeaves,
         ControllerReturns, Crash, Restart, ReplayCall, Wakeups, DispatchStartup,
         FireTimer, procVars, ctlVars
<1> QED BY <1>1, QuietJob, QuietStep

(* A new Attempt: the one before, if any, failed for certain.                *)
LEMMA OrderSlot ==
    ASSUME SlotInv, IInv', LaunchAttempt \/ RetryAttempt
    PROVE  SlotInv'
<1> USE DEF SlotInv
<1>1. PICK o \in Attempts :
         /\ Order(o) /\ o = slot.ordinal + 1
         /\ slot.ordinal > 0 => files[slot.ordinal].exit = "failed"
  <2>1. CASE LaunchAttempt
    <3>1. 1 \in Attempts
      BY <2>1, BoundsAssumption DEF LaunchAttempt, Attempts
    <3> QED BY <2>1, <3>1 DEF LaunchAttempt
  <2>2. CASE RetryAttempt
    <3>1. slot.ordinal + 1 \in Attempts
      BY <2>2, BoundsAssumption DEF RetryAttempt, Attempts
    <3> QED BY <2>2, <3>1 DEF RetryAttempt, Retryable
  <2> QED BY <2>1, <2>2
<1>2. /\ slot'.ordinal = o /\ slot'.phase = "launching" /\ job' = Stale(job)
      /\ UNCHANGED <<files, wrapper, command>>
  BY <1>1 DEF Order, procVars
<1>3. slot.ordinal \in 0..MaxAttempts
  BY DEF IInv, TypeOK, References
<1>4. RecordInv'
  <2>1. \A a \in Attempts : a < o => a < slot.ordinal \/ a = slot.ordinal
    BY <1>1, <1>3 DEF Attempts
  <2>2. \A a \in Attempts : a < o => files[a].exit = "failed"
    BY <1>1, <2>1 DEF RecordInv, Attempts
  <2>3. o # 0
    BY DEF Attempts
  <2> QED BY <1>2, <2>2, <2>3 DEF RecordInv
<1>5. ExitInv'
  BY <1>2 DEF ExitInv
<1>6. BornInv'
  <2>1. \A w \in Wrappers : wrapper[w].attempt \in 0..MaxAttempts
    BY DEF IInv, TypeOK, Processes
  <2> QED BY <1>1, <1>2, <1>3, <2>1 DEF BornInv
<1>7. JobInv'
  <2>1. /\ job'.pc = job.pc /\ job'.ref = job.ref /\ job'.exit = job.exit
        /\ job'.insp = job.insp /\ job'.next = job.next
    BY <1>2 DEF Stale, IInv, TypeOK, Jobs
  <2>2. job.ref.ordinal <= slot.ordinal => job.ref.ordinal <= slot'.ordinal
    <3>1. job.ref.ordinal \in 0..MaxAttempts
      BY DEF IInv, TypeOK, Jobs, References
    <3> QED BY <1>1, <1>2, <1>3, <3>1
  <2> QED BY <1>2, <2>1, <2>2 DEF JobInv, Advances
<1> QED BY <1>4, <1>5, <1>6, <1>7

-----------------------------------------------------------------------------
(* The steps of a job.                                                       *)

LEMMA InspectedFacts ==
    ASSUME NEW j \in Jobs, NEW r \in Inspections, Inspected(r, j)
    PROVE  /\ job'.ref = j.ref /\ job'.exit = j.exit
           /\ job'.pc \in {"exit", "launch", "reconcile"}
           /\ job'.insp \in {j.insp, "pending", r}
<1>1. \/ job' = [j EXCEPT !.pc = "exit", !.round = "before", !.launched = TRUE]
      \/ job' = [j EXCEPT !.pc = "launch"]
      \/ job' = [j EXCEPT !.pc = "reconcile", !.insp = "pending"]
      \/ job' = [j EXCEPT !.pc = "reconcile", !.insp = r]
  BY DEF Inspected
<1> QED BY <1>1 DEF Jobs

(* An inspection reads a receipt, or hands over what it has read.            *)
LEMMA ReadJob ==
    ASSUME SlotInv, job.pc # "idle", UNCHANGED <<slot, files>>,
           job'.ref = job.ref, job'.exit \in {job.exit, Target.exit},
           job'.pc \notin {"publish", "tell"},
           job'.insp = "completed" => job.insp = "completed" \/ job'.exit # Unset
    PROVE  JobInv'
BY DEF SlotInv, JobInv, Target

LEMMA HandOver ==
    ASSUME SlotInv, job.pc # "idle", UNCHANGED <<slot, files>>,
           NEW j \in Jobs, NEW r \in Inspections, Inspected(r, j),
           j.ref = job.ref, j.exit \in {job.exit, Target.exit}, j.insp = job.insp,
           r = "completed" => j.exit # Unset
    PROVE  JobInv'
<1>1. /\ job'.ref = j.ref /\ job'.exit = j.exit
      /\ job'.pc \in {"exit", "launch", "reconcile"}
      /\ job'.insp \in {j.insp, "pending", r}
  BY InspectedFacts
<1> QED BY <1>1, ReadJob

LEMMA ReadSlot ==
    ASSUME SlotInv, ReadExit \/ ReadStarted \/ ReadLog \/ SettleExit
    PROVE  JobInv'
<1>0. UNCHANGED <<slot, files>>
  BY DEF ReadExit, ReadStarted, ReadLog, SettleExit, procVars
<1>1. job.pc # "idle"
  BY DEF ReadExit, ReadStarted, ReadLog, SettleExit, Inspecting
<1>2. job \in Jobs /\ Target \in Evidence
  BY <1>1, TargetType DEF SlotInv
<1>3. CASE ReadExit
  <2>1. job' = [job EXCEPT !.pc = "receipts", !.exit = Target.exit]
    BY <1>3 DEF ReadExit
  <2>2. /\ job'.ref = job.ref /\ job'.exit = Target.exit /\ job'.pc = "receipts"
        /\ job'.insp = job.insp
    BY <2>1, <1>2 DEF Jobs
  <2> QED BY <1>0, <1>1, <2>2, ReadJob
<1>4. CASE ReadStarted
  <2> DEFINE j == [job EXCEPT !.started = Target.started]
  <2>1. /\ j \in Jobs /\ j.ref = job.ref /\ j.exit = job.exit /\ j.insp = job.insp
        /\ j.started = Target.started
    BY <1>2 DEF Jobs, Evidence
  <2>2. \/ Inspected("blocked", j)
        \/ Inspected("completed", j) /\ j.exit # Unset
        \/ job' = [j EXCEPT !.pc = "log"]
    BY <1>4 DEF ReadStarted
  <2> HIDE DEF j
  <2>3. CASE job' = [j EXCEPT !.pc = "log"]
    <3>1. /\ job'.ref = job.ref /\ job'.exit = job.exit /\ job'.pc = "log"
          /\ job'.insp = job.insp
      BY <2>1, <2>3 DEF Jobs
    <3> QED BY <1>0, <1>1, <3>1, ReadJob
  <2>4. "blocked" \in Inspections /\ "completed" \in Inspections
    BY DEF Inspections
  <2>5. CASE Inspected("blocked", j)
    BY <1>0, <1>1, <2>1, <2>4, <2>5, HandOver
  <2>6. CASE Inspected("completed", j) /\ j.exit # Unset
    BY <1>0, <1>1, <2>1, <2>4, <2>6, HandOver
  <2> QED BY <2>2, <2>3, <2>5, <2>6
<1>5. CASE ReadLog
  <2> DEFINE j == [job EXCEPT !.log = Target.log]
  <2>1. j \in Jobs /\ j.ref = job.ref /\ j.exit = job.exit /\ j.insp = job.insp
    BY <1>2 DEF Jobs, Evidence
  <2>2. Inspected("blocked", j) \/ job' = [j EXCEPT !.pc = "probe"]
    BY <1>5 DEF ReadLog
  <2> HIDE DEF j
  <2>3. CASE job' = [j EXCEPT !.pc = "probe"]
    <3>1. /\ job'.ref = job.ref /\ job'.exit = job.exit /\ job'.pc = "probe"
          /\ job'.insp = job.insp
      BY <2>1, <2>3 DEF Jobs
    <3> QED BY <1>0, <1>1, <3>1, ReadJob
  <2>4. CASE Inspected("blocked", j)
    <3>1. "blocked" \in Inspections
      BY DEF Inspections
    <3> QED BY <1>0, <1>1, <2>1, <2>4, <3>1, HandOver
  <2> QED BY <2>2, <2>3, <2>4
<1>6. CASE SettleExit
  <2> DEFINE j == [job EXCEPT !.exit = Target.exit]
             r == IF Target.exit # Unset THEN "completed" ELSE "outcome_unknown"
  <2>1. j \in Jobs /\ j.ref = job.ref /\ j.exit = Target.exit /\ j.insp = job.insp
    BY <1>2 DEF Jobs, Evidence
  <2>2. Inspected(r, j)
    BY <1>6 DEF SettleExit
  <2>3. r \in Inspections /\ (r = "completed" => j.exit # Unset)
    BY <2>1 DEF Inspections
  <2> HIDE DEF j, r
  <2> QED BY <1>0, <1>1, <2>1, <2>2, <2>3, HandOver
<1> QED BY <1>3, <1>4, <1>5, <1>6

LEMMA ProbeSlot ==
    ASSUME SlotInv, ProbeTmux \/ ProbeProcess
    PROVE  JobInv'
<1>0. UNCHANGED <<slot, files>>
  BY DEF ProbeTmux, ProbeProcess, procVars
<1>1. job.pc # "idle"
  BY DEF ProbeTmux, ProbeProcess, Inspecting
<1>2. job \in Jobs
  BY <1>1, TargetType DEF SlotInv
<1>3. \/ \E r \in Inspections \ {"completed"} : Inspected(r, job)
      \/ job' = [job EXCEPT !.pc = "process"]
      \/ job' = [job EXCEPT !.pc = "settle"]
  <2>1. CASE ProbeTmux
    BY <2>1 DEF ProbeTmux, Inspections
  <2>2. CASE ProbeProcess
    BY <2>2 DEF ProbeProcess, Inspections
  <2> QED BY <2>1, <2>2
<1>4. CASE \E r \in Inspections \ {"completed"} : Inspected(r, job)
  <2>1. PICK r \in Inspections \ {"completed"} : Inspected(r, job)
    BY <1>4
  <2> QED BY <1>0, <1>1, <1>2, <2>1, HandOver
<1>5. CASE \/ job' = [job EXCEPT !.pc = "process"]
           \/ job' = [job EXCEPT !.pc = "settle"]
  <2>1. /\ job'.ref = job.ref /\ job'.exit = job.exit /\ job'.insp = job.insp
        /\ job'.pc \in {"process", "settle"}
    BY <1>2, <1>5 DEF Jobs
  <2> QED BY <1>0, <1>1, <2>1, ReadJob
<1> QED BY <1>3, <1>4, <1>5

LEMMA TakeEdgeSlot ==
    ASSUME SlotInv, TakeEdge
    PROVE  JobInv'
<1>1. /\ queue # <<>> /\ UNCHANGED <<slot, files>>
      /\ \/ job' = [Idle EXCEPT !.pc = "exit", !.edge = Head(queue).edge,
                                !.ref = slot, !.fresh = TRUE]
         \/ UNCHANGED job
  BY DEF TakeEdge, procVars
<1>2. CASE UNCHANGED job
  BY <1>1, <1>2, QuietJob
<1>3. CASE job' = [Idle EXCEPT !.pc = "exit", !.edge = Head(queue).edge,
                               !.ref = slot, !.fresh = TRUE]
  <2>1. /\ job'.pc = "exit" /\ job'.ref = slot /\ job'.exit = Unset
        /\ job'.insp = "absent"
    BY <1>3 DEF Idle
  <2>2. slot.ordinal > 0 /\ slot \in References
    BY <1>1 DEF SlotInv, IInv, HasAttempt, TypeOK
  <2>3. slot.phase # "pending" /\ slot.ordinal <= slot.ordinal
    BY <2>2 DEF SlotInv, RecordInv, References
  <2> QED BY <1>1, <2>1, <2>3 DEF JobInv
<1> QED BY <1>1, <1>2, <1>3

LEMMA LaunchSlot ==
    ASSUME SlotInv, IInv', LaunchTmux
    PROVE  SlotInv'
<1> USE DEF SlotInv
<1>1. UNCHANGED <<slot, files, command>> /\ job.pc = "launch"
  BY DEF LaunchTmux, Inspecting
<1>2. job \in Jobs /\ job.ref.ordinal \in Attempts
  BY <1>1, TargetType
<1>3. JobInv'
  <2>1. \/ job' = [job EXCEPT !.pc = "exit", !.round = "after"]
        \/ \E r \in {"pending", "blocked"} :
              job' = [job EXCEPT !.pc = "reconcile", !.insp = r]
    BY DEF LaunchTmux
  <2>2. /\ job'.ref = job.ref /\ job'.exit = job.exit
        /\ job'.pc \in {"exit", "reconcile"}
        /\ job'.insp \in {job.insp, "pending", "blocked"}
    BY <1>2, <2>1 DEF Jobs
  <2> QED BY <1>1, <2>2, ReadJob
<1>4. CASE UNCHANGED wrapper
  BY <1>1, <1>3, <1>4, QuietStep
<1>5. ASSUME NEW w \in Unborn,
             wrapper' = [wrapper EXCEPT ![w] = [attempt |-> job.ref.ordinal,
                                                stage |-> "boot"]]
      PROVE  SlotInv'
  <2>1. w \in Wrappers /\ wrapper[w].stage = "unborn"
    BY DEF Unborn
  <2>2. /\ wrapper'[w].stage = "boot" /\ wrapper'[w].attempt = job.ref.ordinal
        /\ \A v \in Wrappers \ {w} : wrapper'[v] = wrapper[v]
    BY <1>5, <2>1 DEF IInv, TypeOK
  <2>3. RecordInv'
    BY <1>1 DEF RecordInv
  <2>4. ExitInv'
    BY <1>1, <2>1, <2>2 DEF ExitInv
  <2>5. BornInv'
    <3>1. job.ref.ordinal > 0 /\ job.ref.ordinal <= slot.ordinal
      BY <1>1 DEF IInv, HasAttempt, JobInv
    <3>2. command[w] = Unset
      BY <2>1 DEF IInv, ReceiptNamesRunner
    <3> QED BY <1>1, <2>2, <3>1, <3>2 DEF BornInv
  <2> QED BY <1>3, <2>3, <2>4, <2>5
<1>6. \/ UNCHANGED wrapper
      \/ \E w \in Unborn :
            wrapper' = [wrapper EXCEPT ![w] = [attempt |-> job.ref.ordinal,
                                               stage |-> "boot"]]
  BY DEF LaunchTmux
<1> QED BY <1>4, <1>5, <1>6

(* What is projected goes on from the reference, one phase at a time.        *)
LEMMA ProjectedAdvances ==
    ASSUME NEW j \in Jobs, j.ref.phase # "pending",
           j.insp = "completed" => files[j.ref.ordinal].exit # Unset
    PROVE  Advances(j.ref, Projected(j))
<1>0. j.ref \in References
  BY DEF Jobs
<1>1. \A ref \in References, phase \in Phases : Advance(ref, phase).phase = phase
  BY DEF Advance, References
<1>2. \/ WithStart(j) = j.ref
      \/ WithStart(j).phase = "running" /\ j.ref.phase \notin {"running", "terminal"}
  <2>1. Advance(j.ref, "running") \in References
    BY <1>0, AdvanceType DEF Phases
  <2>2. [Advance(j.ref, "running") EXCEPT !.started = TRUE].phase = "running"
    BY <1>0, <1>1, <2>1 DEF References, Phases
  <2> QED BY <2>2 DEF WithStart
<1>3. WithStart(j) \in References /\ j.ref.phase \in Phases
  BY <1>0, WithStartType DEF References
<1>4. CASE Action(j) # "record"
  <2>1. Projected(j) = j.ref
    BY <1>4 DEF Projected
  <2> QED BY <2>1 DEF Advances
<1>5. CASE Action(j) = "record" /\ j.insp = "running"
  <2>1. Projected(j) = WithStart(j)
    BY <1>5 DEF Projected
  <2> QED BY <1>2, <1>3, <2>1 DEF Advances, Phases
<1>6. CASE Action(j) = "record" /\ j.insp = "completed"
  <2>1. Projected(j) = j.ref \/ Projected(j).phase = "terminal"
    BY <1>1, <1>3, <1>6 DEF Projected, Phases
  <2> QED BY <1>6, <2>1 DEF Advances
<1>7. CASE Action(j) = "record" /\ j.insp \notin {"running", "completed"}
  <2>1. j.insp = "outcome_unknown"
    BY <1>7 DEF Action, Jobs, Inspections
  <2>2. j.ref.phase # "terminal"
    BY <1>7, <2>1 DEF Action, LostEvidence
  <2>3. Projected(j).phase = "outcome_unknown"
    BY <1>1, <1>3, <1>7 DEF Projected, Phases
  <2> QED BY <1>3, <2>2, <2>3 DEF Advances, Phases
<1> QED BY <1>4, <1>5, <1>6, <1>7

LEMMA ReconcileSlot ==
    ASSUME SlotInv, IInv', Reconcile
    PROVE  SlotInv'
<1> USE DEF SlotInv
<1>1. UNCHANGED <<slot, wrapper, command>> /\ job.pc = "reconcile"
  BY DEF Reconcile, Inspecting
<1>2. job \in Jobs /\ job.ref.ordinal \in Attempts
  BY <1>1, TargetType
<1>3. \A a \in Attempts : files'[a].exit = files[a].exit
                          /\ files'[a].started = files[a].started
  <2>1. \/ UNCHANGED files
        \/ files' = [files EXCEPT ![job.ref.ordinal].uncertain = ObservedNow]
    BY DEF Reconcile
  <2>2. files \in [Attempts -> Evidence]
    BY DEF IInv, TypeOK
  <2> QED BY <1>2, <2>1, <2>2 DEF Evidence
<1>4. JobInv'
  <2>1. CASE job' = Idle
    BY <2>1, IdleType DEF JobInv
  <2>2. CASE job' = [job EXCEPT !.pc = "publish", !.action = Action(job),
                                !.next = Projected(job)]
    <3>1. /\ job'.ref = job.ref /\ job'.exit = job.exit /\ job'.insp = job.insp
          /\ job'.next = Projected(job)
      BY <1>2, <2>2 DEF Jobs
    <3>2. Advances(job.ref, Projected(job))
      BY <1>1, <1>2, ProjectedAdvances DEF JobInv
    <3> QED BY <1>1, <1>2, <1>3, <3>1, <3>2 DEF JobInv, Advances
  <2> QED BY <2>1, <2>2 DEF Reconcile
<1>5. RecordInv'
  <2>1. slot.phase = "terminal" => slot.ordinal \in Attempts
    BY BoundsAssumption DEF RecordInv, IInv, TypeOK, References, Attempts
  <2> QED BY <1>1, <1>3, <2>1 DEF RecordInv
<1>6. ExitInv'
  BY <1>1, <1>3 DEF ExitInv
<1>7. BornInv'
  BY <1>1 DEF BornInv
<1> QED BY <1>4, <1>5, <1>6, <1>7

LEMMA PublishSlot ==
    ASSUME SlotInv, IInv', Publish
    PROVE  SlotInv'
<1> USE DEF SlotInv
<1>1. /\ UNCHANGED <<files, wrapper, command>> /\ job.pc = "publish"
      /\ \E b \in BOOLEAN : job' = [job EXCEPT !.pc = "tell", !.published = b]
      /\ \/ slot' = slot
         \/ slot = job.ref /\ slot' = job.next
  BY DEF Publish, Inspecting, Fits, procVars
<1>2. job \in Jobs /\ job.ref.ordinal \in Attempts
  BY <1>1, TargetType
<1>3. job'.pc = "tell" /\ job'.ref = job.ref /\ job'.exit = job.exit
      /\ job'.insp = job.insp /\ job'.next = job.next
  BY <1>1, <1>2 DEF Jobs
<1>4. slot'.ordinal = slot.ordinal
  BY <1>1 DEF IInv, HasAttempt
<1>5. RecordInv'
  <2>1. CASE slot' = slot
    BY <1>1, <2>1 DEF RecordInv
  <2>2. CASE slot = job.ref /\ slot' = job.next
    <3>1. slot.ordinal > 0 /\ slot.phase # "pending" /\ Advances(slot, slot')
      BY <1>1, <2>2 DEF IInv, HasAttempt, JobInv
    <3> QED BY <1>1, <1>2, <1>4, <2>2, <3>1 DEF RecordInv, Advances
  <2> QED BY <1>1, <2>1, <2>2
<1>6. ExitInv' /\ BornInv'
  BY <1>1, <1>4 DEF ExitInv, BornInv
<1>7. JobInv'
  BY <1>1, <1>3, <1>4 DEF JobInv, Advances
<1> QED BY <1>5, <1>6, <1>7

LEMMA ConsumeSlot ==
    ASSUME SlotInv, IInv', Consume
    PROVE  SlotInv'
<1>1. CASE TakeEdge
  BY <1>1, TakeEdgeSlot, QuietStep DEF TakeEdge, procVars
<1>2. CASE ReadExit \/ ReadStarted \/ ReadLog \/ SettleExit
  BY <1>2, ReadSlot, QuietStep DEF ReadExit, ReadStarted, ReadLog, SettleExit, procVars
<1>3. CASE ProbeTmux \/ ProbeProcess
  BY <1>3, ProbeSlot, QuietStep DEF ProbeTmux, ProbeProcess, procVars
<1>4. CASE TellController
  BY <1>4, QuietJob, QuietStep DEF TellController, procVars
<1> QED BY <1>1, <1>2, <1>3, <1>4, LaunchSlot, ReconcileSlot, PublishSlot DEF Consume

LEMMA SlotInductive == Spec => []SlotInv
<1>1. Init => SlotInv
  BY SlotInit
<1>2. SlotInv /\ [Next]_vars => SlotInv'
  <2> SUFFICES ASSUME SlotInv, [Next]_vars PROVE SlotInv'
    OBVIOUS
  <2>1. IInv'
    BY StepInv DEF SlotInv
  <2>2. CASE Next
    BY <2>1, <2>2, WrappedSlot, EnvironmentSlot, OrderSlot, ConsumeSlot
       DEF Next, Tools, Environment
  <2>3. CASE UNCHANGED vars
    BY <2>1, <2>3, QuietJob, QuietStep DEF vars
  <2> QED BY <2>2, <2>3
<1> QED BY <1>1, <1>2, PTL DEF Spec

-----------------------------------------------------------------------------
(* AttemptRun implements RunSlot.                                            *)

(* What became of a command, said of the wrapper that spawned it.            *)
LEMMA RunValue ==
    ASSUME IInv, NEW a \in Attempts
    PROVE  /\ \A w \in Wrappers :
                 wrapper[w].attempt = a /\ command[w] # Unset => RunOf(a) = command[w]
           /\ (\A w \in Wrappers : wrapper[w].attempt = a => command[w] = Unset)
                 => RunOf(a) = Unset
<1>1. \A w \in Ran(a) : w = files[a].started
  BY DEF IInv, ReceiptNamesRunner, Ran
<1>2. ASSUME NEW w \in Wrappers, wrapper[w].attempt = a, command[w] # Unset
      PROVE  RunOf(a) = command[w]
  <2>1. w \in Ran(a)
    BY <1>2 DEF Ran
  <2>2. (CHOOSE v \in Ran(a) : TRUE) \in Ran(a)
    BY <2>1
  <2>3. (CHOOSE v \in Ran(a) : TRUE) = w
    BY <1>1, <2>1, <2>2
  <2> QED BY <2>1, <2>3 DEF RunOf
<1>3. ASSUME \A w \in Wrappers : wrapper[w].attempt = a => command[w] = Unset
      PROVE  RunOf(a) = Unset
  BY <1>3 DEF RunOf, Ran
<1> QED BY <1>2, <1>3

LEMMA RunValueNext ==
    ASSUME IInv', NEW a \in Attempts
    PROVE  /\ \A w \in Wrappers :
                 wrapper'[w].attempt = a /\ command'[w] # Unset => RunOf(a)' = command'[w]
           /\ (\A w \in Wrappers : wrapper'[w].attempt = a => command'[w] = Unset)
                 => RunOf(a)' = Unset
<1>1. \A w \in Ran(a)' : w = files'[a].started
  BY DEF IInv, ReceiptNamesRunner, Ran
<1>2. ASSUME NEW w \in Wrappers, wrapper'[w].attempt = a, command'[w] # Unset
      PROVE  RunOf(a)' = command'[w]
  <2>1. w \in Ran(a)'
    BY <1>2 DEF Ran
  <2>2. (CHOOSE v \in Ran(a)' : TRUE) \in Ran(a)'
    BY <2>1
  <2>3. (CHOOSE v \in Ran(a)' : TRUE) = w
    BY <1>1, <2>1, <2>2
  <2> QED BY <2>1, <2>3 DEF RunOf
<1>3. ASSUME \A w \in Wrappers : wrapper'[w].attempt = a => command'[w] = Unset
      PROVE  RunOf(a)' = Unset
  BY <1>3 DEF RunOf, Ran
<1> QED BY <1>2, <1>3

(* The commands of an Attempt stay as they are.                              *)
LEMMA RunStays ==
    ASSUME IInv, IInv', NEW a \in Attempts,
           \A w \in Wrappers :
              \/ wrapper[w].attempt = a /\ command[w] # Unset
              \/ wrapper'[w].attempt = a /\ command'[w] # Unset
              => wrapper'[w].attempt = wrapper[w].attempt /\ command'[w] = command[w]
    PROVE  RunOf(a)' = RunOf(a)
<1>1. CASE \A w \in Wrappers : wrapper[w].attempt = a => command[w] = Unset
  <2>1. \A w \in Wrappers : wrapper'[w].attempt = a => command'[w] = Unset
    BY <1>1
  <2> QED BY <1>1, <2>1, RunValue, RunValueNext
<1>2. CASE \E w \in Wrappers : wrapper[w].attempt = a /\ command[w] # Unset
  <2>1. PICK w \in Wrappers : wrapper[w].attempt = a /\ command[w] # Unset
    BY <1>2
  <2> QED BY <2>1, RunValue, RunValueNext
<1> QED BY <1>1, <1>2

Runs == [a \in Attempts |-> RunOf(a)]

Kept == UNCHANGED <<slot.ordinal, slot.phase, Runs>>

LEMMA KeptRuns ==
    ASSUME IInv, IInv', UNCHANGED command,
           \A w \in Wrappers :
              command[w] # Unset => wrapper'[w].attempt = wrapper[w].attempt
    PROVE  UNCHANGED Runs
<1>1. \A a \in Attempts : RunOf(a)' = RunOf(a)
  BY RunStays
<1> QED BY <1>1 DEF Runs

(* A change of one command is a change of what its Attempt did.              *)
LEMMA OneRun ==
    ASSUME IInv, IInv', NEW w \in Wrappers, NEW r \in {"running", "ok", "failed"},
           wrapper[w].attempt \in Attempts,
           command' = [command EXCEPT ![w] = r],
           \A v \in Wrappers : wrapper'[v].attempt = wrapper[v].attempt
    PROVE  Runs' = [Runs EXCEPT ![wrapper[w].attempt] = r]
<1>0. command \in [Wrappers -> {Unset, "running"} \cup Outcomes]
  BY DEF IInv, TypeOK
<1>1. /\ command'[w] = r
      /\ \A v \in Wrappers \ {w} : command'[v] = command[v]
  BY <1>0
<1>2. RunOf(wrapper[w].attempt)' = r
  BY <1>1, RunValueNext DEF Unset
<1>3. ASSUME NEW a \in Attempts, a # wrapper[w].attempt
      PROVE  RunOf(a)' = RunOf(a)
  BY <1>1, <1>3, RunStays
<1> QED BY <1>2, <1>3 DEF Runs

LEMMA CommandStep ==
    ASSUME SlotInv, IInv', NEW w \in Wrappers, SpawnCommand(w) \/ CommandEnds(w)
    PROVE  Slot!Run \/ Slot!End
<1>0. IInv /\ UNCHANGED slot
      /\ \A v \in Wrappers : wrapper'[v].attempt = wrapper[v].attempt
  <2>1. wrapper \in [Wrappers -> Processes]
    BY DEF SlotInv, IInv, TypeOK
  <2> QED BY <2>1 DEF SlotInv, SpawnCommand, CommandEnds, Stage, Processes
<1>1. /\ wrapper[w].attempt \in Attempts
      /\ wrapper[w].attempt = slot.ordinal
      /\ files[slot.ordinal].started = w
      /\ slot.phase # "terminal"
  BY RunnerIsCurrent DEF SpawnCommand, CommandEnds, Stage, Past, Unset
<1>2. slot.ordinal > 0 /\ Runs[slot.ordinal] = RunOf(slot.ordinal)
  BY <1>1 DEF Attempts, Runs
<1>3. CASE SpawnCommand(w)
  <2>1. PICK r \in {"running", "failed"} : command' = [command EXCEPT ![w] = r]
    BY <1>3 DEF SpawnCommand
  <2>2. Runs' = [Runs EXCEPT ![slot.ordinal] = r]
    <3>1. r \in {"running", "ok", "failed"}
      OBVIOUS
    <3>2. Runs' = [Runs EXCEPT ![wrapper[w].attempt] = r]
      BY <1>0, <1>1, <2>1, <3>1, OneRun
    <3> QED BY <1>1, <3>2
  <2>3. RunOf(slot.ordinal) = Unset
    <3>1. ASSUME NEW v \in Wrappers, wrapper[v].attempt = slot.ordinal
          PROVE  command[v] = Unset
      <4>1. command[v] # Unset => v = w
        BY <1>1, <3>1 DEF SlotInv, IInv, ReceiptNamesRunner
      <4>2. command[w] = Unset
        BY <1>3 DEF SpawnCommand, Stage, SlotInv, BornInv
      <4> QED BY <4>1, <4>2
    <3> QED BY <1>0, <1>1, <3>1, RunValue
  <2> QED BY <1>0, <1>1, <1>2, <2>2, <2>3 DEF Slot!Run, Runs, Unset
<1>4. CASE CommandEnds(w)
  <2>1. PICK r \in Outcomes : command' = [command EXCEPT ![w] = r]
    BY <1>4 DEF CommandEnds
  <2>2. Runs' = [Runs EXCEPT ![slot.ordinal] = r]
    <3>1. r \in {"running", "ok", "failed"}
      BY DEF Outcomes
    <3>2. Runs' = [Runs EXCEPT ![wrapper[w].attempt] = r]
      BY <1>0, <1>1, <2>1, <3>1, OneRun
    <3> QED BY <1>1, <3>2
  <2>3. RunOf(slot.ordinal) = "running"
    BY <1>0, <1>1, <1>4, RunValue DEF CommandEnds, Unset
  <2> QED BY <1>0, <1>2, <2>1, <2>2, <2>3 DEF Slot!End, Slot!Ended, Runs, Outcomes
<1> QED BY <1>3, <1>4

(* What has an exit receipt has ended, and so.                               *)
LEMMA ExitIsRun ==
    ASSUME SlotInv, NEW a \in Attempts, files[a].exit # Unset
    PROVE  RunOf(a) = files[a].exit /\ files[a].exit \in Outcomes
<1>1. files[a].exit \in Outcomes
  BY DEF SlotInv, IInv, TypeOK, Evidence
<1> QED BY <1>1, RunValue DEF SlotInv, ExitInv, Outcomes, Unset

LEMMA OrderRun ==
    ASSUME SlotInv, IInv', LaunchAttempt \/ RetryAttempt
    PROVE  Slot!Order
<1>1. UNCHANGED <<wrapper, command>>
  BY DEF LaunchAttempt, RetryAttempt, Order, procVars
<1>2. UNCHANGED Runs
  BY <1>1, KeptRuns DEF SlotInv
<1>3. slot'.ordinal = slot.ordinal + 1 /\ slot'.phase = "launching"
      /\ slot.ordinal < MaxAttempts
  BY BoundsAssumption DEF LaunchAttempt, RetryAttempt, Order, Attempts
<1>4. \/ slot.phase = "pending"
      \/ slot.phase = "terminal" /\ Runs[slot.ordinal] = "failed"
  <2>1. CASE LaunchAttempt
    BY <2>1 DEF LaunchAttempt, SlotInv, RecordInv
  <2>2. CASE RetryAttempt
    <3>1. slot.ordinal \in Attempts
      BY <2>2, BoundsAssumption DEF RetryAttempt, Attempts
    <3>2. slot.phase = "terminal" /\ files[slot.ordinal].exit = "failed"
      BY <2>2 DEF RetryAttempt, Retryable
    <3> QED BY <3>1, <3>2, ExitIsRun DEF Runs, Unset
  <2> QED BY <2>1, <2>2
<1> QED BY <1>2, <1>3, <1>4 DEF Slot!Order, Runs

LEMMA PublishRun ==
    ASSUME SlotInv, IInv', Publish
    PROVE  \/ Slot!RecordStart \/ Slot!RecordUnknown \/ Slot!RecordCompletion
           \/ Kept
<1>1. /\ UNCHANGED <<files, wrapper, command>> /\ job.pc = "publish"
      /\ \/ slot' = slot
         \/ slot = job.ref /\ slot' = job.next
  BY DEF Publish, Inspecting, Fits, procVars
<1>2. UNCHANGED Runs
  BY <1>1, KeptRuns DEF SlotInv
<1>3. CASE slot' = slot
  BY <1>2, <1>3 DEF Kept
<1>4. CASE slot = job.ref /\ slot' = job.next
  <2>1. /\ slot.ordinal > 0 /\ slot'.ordinal = slot.ordinal
        /\ slot.phase # "pending" /\ Advances(slot, slot')
    BY <1>1, <1>4 DEF SlotInv, IInv, HasAttempt, JobInv
  <2>2. slot.phase \in Phases /\ slot.ordinal \in Attempts
    BY <2>1, BoundsAssumption DEF SlotInv, IInv, TypeOK, References, Attempts
  <2>3. CASE slot'.phase = slot.phase
    BY <1>2, <2>1, <2>3 DEF Kept
  <2>4. CASE slot'.phase = "running" /\ slot.phase \in {"launching", "outcome_unknown"}
    BY <1>2, <2>1, <2>4 DEF Slot!RecordStart, Runs
  <2>5. CASE slot'.phase = "outcome_unknown" /\ slot.phase \in {"launching", "running"}
    BY <1>2, <2>1, <2>5 DEF Slot!RecordUnknown, Runs
  <2>6. CASE /\ slot'.phase = "terminal" /\ slot.phase # "terminal"
             /\ files[slot.ordinal].exit # Unset
    <3>1. Runs[slot.ordinal] \in Outcomes
      BY <2>2, <2>6, ExitIsRun DEF Runs
    <3>2. slot.phase \in {"launching", "running", "outcome_unknown"}
      BY <2>1, <2>2, <2>6 DEF Phases
    <3> QED BY <1>2, <2>1, <2>6, <3>1, <3>2
            DEF Slot!RecordCompletion, Slot!Ended, Runs, Outcomes
  <2> QED BY <2>1, <2>3, <2>4, <2>5, <2>6 DEF Advances
<1> QED BY <1>1, <1>3, <1>4

(* The other steps change neither the record nor a command.                  *)
LEMMA OtherRun ==
    ASSUME SlotInv, IInv',
           \/ \E w \in Wrappers :
                 \/ VerifyTmuxBinding(w) \/ OpenLog(w) \/ StampStart(w)
                 \/ WriteStarted(w) \/ PokeStarted(w) \/ WriteExit(w)
                 \/ PokeExit(w) \/ WrapperDies(w)
           \/ Environment \/ ReplayCall \/ Wakeups \/ UNCHANGED vars
           \/ TakeEdge \/ ReadExit \/ ReadStarted \/ ReadLog \/ ProbeTmux
           \/ ProbeProcess \/ SettleExit \/ LaunchTmux \/ Reconcile \/ TellController
    PROVE  Kept
<1> USE DEF SlotInv
<1>0. wrapper \in [Wrappers -> Processes]
  BY DEF IInv, TypeOK
<1>1. CASE \E w \in Wrappers :
              \/ VerifyTmuxBinding(w) \/ OpenLog(w) \/ StampStart(w)
              \/ WriteStarted(w) \/ PokeStarted(w) \/ WriteExit(w)
              \/ PokeExit(w) \/ WrapperDies(w)
  <2>1. PICK w \in Wrappers :
           \/ VerifyTmuxBinding(w) \/ OpenLog(w) \/ StampStart(w)
           \/ WriteStarted(w) \/ PokeStarted(w) \/ WriteExit(w)
           \/ PokeExit(w) \/ WrapperDies(w)
    BY <1>1
  <2>2. /\ UNCHANGED <<slot, command>>
        /\ \E to \in Alive \cup {"dead"} : wrapper' = [wrapper EXCEPT ![w].stage = to]
    BY <2>1 DEF VerifyTmuxBinding, OpenLog, StampStart, WriteStarted, PokeStarted,
                WriteExit, PokeExit, WrapperDies, Stage, Alive
  <2>3. \A v \in Wrappers : wrapper'[v].attempt = wrapper[v].attempt
    BY <1>0, <2>2 DEF Processes
  <2> QED BY <2>2, <2>3, KeptRuns DEF Kept
<1>2. CASE LaunchTmux
  <2>1. UNCHANGED <<slot, command>>
    BY <1>2 DEF LaunchTmux
  <2>2. ASSUME NEW v \in Wrappers, command[v] # Unset
        PROVE  wrapper'[v].attempt = wrapper[v].attempt
    <3>1. wrapper[v].stage # "unborn"
      BY <2>2 DEF IInv, ReceiptNamesRunner
    <3> QED BY <1>0, <1>2, <3>1 DEF LaunchTmux, Unborn
  <2> QED BY <2>1, <2>2, KeptRuns DEF Kept
<1>3. CASE \/ Environment \/ ReplayCall \/ Wakeups \/ UNCHANGED vars
           \/ TakeEdge \/ ReadExit \/ ReadStarted \/ ReadLog \/ ProbeTmux
           \/ ProbeProcess \/ SettleExit \/ Reconcile \/ TellController
  <2>1. UNCHANGED <<slot, wrapper, command>>
    BY <1>3 DEF Environment, TmuxCloses, TmuxLost, LabChanges, ControllerLeaves,
         ControllerReturns, Crash, Restart, ReplayCall, Wakeups, DispatchStartup,
         FireTimer, TakeEdge, ReadExit, ReadStarted, ReadLog, ProbeTmux, ProbeProcess,
         SettleExit, Reconcile, TellController, procVars, ctlVars, vars
  <2> QED BY <2>1, KeptRuns DEF Kept
<1> QED BY <1>1, <1>2, <1>3

LEMMA SlotRefined ==
    ASSUME SlotInv, IInv', [Next]_vars
    PROVE  Slot!SlotNext \/ Kept
<1>1. CASE Wrapped
  <2>1. PICK w \in Wrappers :
         \/ VerifyTmuxBinding(w) \/ OpenLog(w) \/ StampStart(w) \/ WriteStarted(w)
         \/ PokeStarted(w) \/ SpawnCommand(w) \/ CommandEnds(w) \/ WriteExit(w)
         \/ PokeExit(w) \/ WrapperDies(w)
    BY <1>1 DEF Wrapped
  <2>2. CASE SpawnCommand(w) \/ CommandEnds(w)
    BY <2>2, CommandStep DEF Slot!SlotNext
  <2> QED BY <2>1, <2>2, OtherRun
<1>2. CASE Environment \/ Wakeups \/ ReplayCall \/ UNCHANGED vars
  BY <1>2, OtherRun
<1>3. CASE LaunchAttempt \/ RetryAttempt
  BY <1>3, OrderRun DEF Slot!SlotNext
<1>4. CASE Publish
  BY <1>4, PublishRun DEF Slot!SlotNext
<1>5. CASE Consume /\ ~Publish
  BY <1>5, OtherRun DEF Consume
<1> QED BY <1>1, <1>2, <1>3, <1>4, <1>5 DEF Next, Tools

(* Whatever receipts are read in whatever order, the record of a RunSlot     *)
(* claims no more than what happened, one Attempt runs at a time, and a      *)
(* retry follows a certain failure only.                                     *)
THEOREM RefinesRunSlot == Spec => ImplementsRunSlot
<1>1. Init => Slot!SlotInit
  <2> SUFFICES ASSUME Init PROVE Slot!SlotInit
    OBVIOUS
  <2>1. \A a \in Attempts : RunOf(a) = Unset
    <3>1. IInv /\ \A w \in Wrappers : command[w] = Unset
      BY InitInv DEF Init
    <3> QED BY <3>1, RunValue
  <2>2. slot.ordinal = 0 /\ slot.phase = "pending"
    BY DEF Init, NoReference
  <2> QED BY <2>1, <2>2 DEF Slot!SlotInit, Attempts, Unset
<1>2. SlotInv /\ SlotInv' /\ [Next]_vars =>
        [Slot!SlotNext]_<<slot.ordinal, slot.phase, [a \in Attempts |-> RunOf(a)]>>
  <2> SUFFICES ASSUME SlotInv, SlotInv', [Next]_vars
               PROVE  Slot!SlotNext \/ Kept
    BY DEF Kept, Runs
  <2>1. IInv'
    BY DEF SlotInv
  <2> QED BY <2>1, SlotRefined
<1> QED BY <1>1, <1>2, SlotInductive, PTL
        DEF Spec, ImplementsRunSlot, Slot!SlotSpec, Slot!slotVars

=============================================================================
