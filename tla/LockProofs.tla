----------------------------- MODULE LockProofs -----------------------------
(***************************************************************************)
(* Theorems about module RuntimeLock, for every number of calls, processes *)
(* and machines.  Its types always hold; that a holder keeps its lock, and *)
(* that only the lock of a dead owner is moved away, holds exactly as far  *)
(* as OneSuccessor says: the run lock_race shows two successors break it.  *)
(***************************************************************************)
EXTENDS RuntimeLock, TLAPS

(* Whoever may judge a mortal owner dead makes the only call that is not   *)
(* of that owner's process; so it is without mortal owners.                *)
OneSuccessor ==
    \A p \in Mortal : \A c, d \in Calls :
        /\ Process[c] # p /\ Host[Process[c]] = Host[p]
        /\ Process[d] # p
        => c = d

-----------------------------------------------------------------------------
(* The inductive invariant                                                 *)

(* Only mortal processes die. *)
OnlyTheMortalDie == Processes \ alive \subseteq Mortal

(* What is probed is the owner that was read. *)
SawOwner == \A c \in Calls : pc[c] = "probe" => seen[c] # Free

(* Whoever is about to move the lock away has seen a dead process that ran *)
(* on its own machine; the dead stay dead. *)
Judged ==
    \A c \in Calls : At(c, "takeover") =>
        \E p \in Processes \ alive : Host[p] = Host[Process[c]]

(* The record at the path is of a call that has published, and is not in   *)
(* the loop any more. *)
Published == {"held", "relstat", "release", "released", "lost", "corrupt"}
RecordOfPublisher == lock # Free => pc[lock.call] \in Published

LockInv ==
    /\ TypeOK /\ OnlyTheMortalDie /\ SawOwner /\ Judged /\ RecordOfPublisher
    /\ HolderKeepsLock

-----------------------------------------------------------------------------
LEMMA TokenType ==
    ASSUME TypeOK, NEW c \in Calls
    PROVE  /\ Token(c) \in Tokens /\ Token(c).call = c /\ Token(c) # Free
           /\ Process[c] \in Processes
<1>1. try[c] \in 1..MaxTries
  BY DEF TypeOK
<1> QED BY <1>1, LockAssumption DEF Token, Tokens

(* The next turn of the loop. *)
LEMMA AgainType ==
    ASSUME TypeOK, NEW c \in Calls, Again(c)
    PROVE  /\ pc' \in [Calls -> Places] /\ try' \in [Calls -> 1..MaxTries]
           /\ pc'[c] \in {"publish", "exhausted"}
           /\ \A d \in Calls \ {c} : pc'[d] = pc[d] /\ try'[d] = try[d]
<1>1. /\ pc \in [Calls -> Places] /\ try \in [Calls -> 1..MaxTries]
      /\ MaxTries \in Nat
  BY LockAssumption DEF TypeOK
<1>2. CASE try[c] < MaxTries
  <2>1. /\ try' = [try EXCEPT ![c] = @ + 1] /\ pc' = [pc EXCEPT ![c] = "publish"]
    BY <1>2 DEF Again, Goto
  <2>2. try[c] + 1 \in 1..MaxTries
    BY <1>1, <1>2
  <2> QED BY <1>1, <2>1, <2>2 DEF Places
<1>3. CASE ~(try[c] < MaxTries)
  <2>1. try' = try /\ pc' = [pc EXCEPT ![c] = "exhausted"]
    BY <1>3 DEF Again, Goto
  <2> QED BY <1>1, <2>1 DEF Places, Failures
<1> QED BY <1>2, <1>3

(* What each step does, to its own call and to the others. *)
LEMMA StepShape ==
    ASSUME TypeOK, NEW c \in Calls,
           Call(c) \/ Acquire(c) \/ GiveUp(c)
    PROVE  /\ TypeOK' /\ Process[c] \in alive /\ alive' = alive
           /\ \A d \in Calls \ {c} : pc'[d] = pc[d] /\ try'[d] = try[d]
           /\ lock' # lock =>
                 \/ Publish(c) /\ lock = Free /\ lock' = Token(c) /\ pc'[c] = "held"
                    /\ try' = try
                 \/ TakeOver(c) /\ pc[c] = "takeover" /\ lock' = Free
                 \/ Release(c) /\ pc[c] = "release" /\ lock' = Free
           /\ pc'[c] \in {"held", "relstat", "release"} /\ lock' = lock =>
                 pc[c] \in {"held", "relstat", "release"} /\ try' = try
           /\ lock' = lock /\ pc[c] \in Published => pc'[c] \in Published
           /\ pc'[c] = "takeover" => Probe(c)
           /\ pc'[c] = "probe" => seen'[c] # Free
           /\ \A d \in Calls \ {c} : seen'[d] = seen[d]
<1>0. /\ lock \in Tokens \cup {Free} /\ pc \in [Calls -> Places]
      /\ try \in [Calls -> 1..MaxTries] /\ seen \in [Calls -> Tokens \cup {Free}]
      /\ alive \subseteq Processes
  BY DEF TypeOK
<1>1. CASE Call(c)
  BY <1>0, <1>1 DEF Call, At, Goto, TypeOK, Places, Failures, Published
<1>2. CASE Publish(c)
  BY <1>0, <1>2, TokenType DEF Publish, At, Goto, TypeOK, Places, Published
<1>3. CASE ReadOwner(c)
  BY <1>0, <1>3 DEF ReadOwner, At, Goto, TypeOK, Places, Published
<1>4. CASE StatLock(c)
  <2>1. CASE lock = Free
    BY <1>0, <1>4, <2>1, AgainType DEF StatLock, At, TypeOK, Published
  <2>2. CASE lock # Free
    BY <1>0, <1>4, <2>2 DEF StatLock, At, Goto, TypeOK, Places, Failures, Published
  <2> QED BY <2>1, <2>2
<1>5. CASE Probe(c)
  <2>1. PICK v \in Verdicts(Process[c], OwnerOf(seen[c])) : pc' = [pc EXCEPT ![c] = v]
    BY <1>5 DEF Probe, Goto
  <2>2. v \in {"unknown", "active", "takeover"}
    BY DEF Verdicts
  <2> QED BY <1>0, <1>5, <2>1, <2>2
          DEF Probe, At, TypeOK, Places, Failures, Published
<1>6. CASE TakeOver(c)
  BY <1>0, <1>6, AgainType DEF TakeOver, At, TypeOK, Published
<1>7. CASE CheckToken(c)
  <2>1. PICK v \in {"relstat", "lost", "corrupt", "release"} :
           pc' = [pc EXCEPT ![c] = v]
    <3>1. pc[c] = "held" \/ pc[c] = "relstat"
      BY <1>7 DEF CheckToken, At
    <3>2. CASE lock = Free
      BY <1>7, <3>1, <3>2, TokenType DEF CheckToken, Goto
    <3>3. CASE lock # Free /\ pc[c] = "relstat"
      BY <1>7, <3>3 DEF CheckToken, Goto
    <3>4. CASE lock # Free /\ pc[c] = "held" /\ lock = Token(c)
      BY <1>7, <3>4 DEF CheckToken, Goto
    <3>5. CASE lock # Free /\ pc[c] = "held" /\ lock # Token(c)
      BY <1>7, <3>5 DEF CheckToken, Goto
    <3> QED BY <3>1, <3>2, <3>3, <3>4, <3>5
  <2> QED BY <1>0, <1>7, <2>1
          DEF CheckToken, At, TypeOK, Places, Failures, Published
<1>8. CASE Release(c)
  BY <1>0, <1>8 DEF Release, At, Goto, TypeOK, Places, Failures, Published
<1> QED BY <1>1, <1>2, <1>3, <1>4, <1>5, <1>6, <1>7, <1>8 DEF Acquire, GiveUp

LEMMA LockInit == Init => LockInv
<1> SUFFICES ASSUME Init PROVE LockInv
  OBVIOUS
<1>1. 1 \in 1..MaxTries
  BY LockAssumption
<1>2. TypeOK
  BY <1>1 DEF Init, TypeOK, Places
<1>3. OnlyTheMortalDie /\ SawOwner /\ Judged /\ RecordOfPublisher /\ HolderKeepsLock
  BY LockAssumption
     DEF Init, OnlyTheMortalDie, SawOwner, Judged, At, RecordOfPublisher, HolderKeepsLock, Holders
<1> QED BY <1>2, <1>3 DEF LockInv

(* A verdict of death is one of a process of the same machine that died. *)
LEMMA VerdictOfDeath ==
    ASSUME TypeOK, SawOwner, NEW c \in Calls, Probe(c), pc'[c] = "takeover"
    PROVE  \E p \in Processes \ alive : Host[p] = Host[Process[c]]
<1>1. "takeover" \in Verdicts(Process[c], OwnerOf(seen[c]))
  BY DEF Probe, Goto, TypeOK
<1>2. OwnerOf(seen[c]) \in Processes
  <2>1. seen[c] \in Tokens
    BY DEF TypeOK, SawOwner, Probe, At
  <2> QED BY <2>1, LockAssumption DEF Tokens, OwnerOf
<1>3. OwnerOf(seen[c]) \notin alive /\ Host[OwnerOf(seen[c])] = Host[Process[c]]
  BY <1>1 DEF Verdicts
<1> QED BY <1>2, <1>3

LEMMA CrashStep ==
    ASSUME TypeOK, NEW p \in Processes, Crash(p)
    PROVE  /\ TypeOK' /\ UNCHANGED <<lock, pc, try, seen>> /\ alive' \subseteq alive
           /\ p \in Mortal /\ alive' = alive \ {p}
BY DEF Crash, TypeOK

LEMMA TypeStep == TypeOK /\ [Next]_vars => TypeOK'
<1> SUFFICES ASSUME TypeOK, [Next]_vars PROVE TypeOK'
  OBVIOUS
<1>1. ASSUME NEW c \in Calls, Call(c) \/ Acquire(c) \/ GiveUp(c) PROVE TypeOK'
  BY <1>1, StepShape
<1>2. ASSUME NEW p \in Processes, Crash(p) PROVE TypeOK'
  BY <1>2, CrashStep
<1>3. CASE UNCHANGED vars
  BY <1>3 DEF vars, TypeOK
<1> QED BY <1>1, <1>2, <1>3 DEF Next

(* When a lock is moved away, the call that moves it is the only one whose *)
(* process may run.                                                        *)
LEMMA OnlySuccessorRuns ==
    ASSUME OneSuccessor, TypeOK, OnlyTheMortalDie, Judged,
           NEW c \in Calls, At(c, "takeover"), NEW d \in Calls, Process[d] \in alive
    PROVE  c = d
<1>1. PICK p \in Processes \ alive : Host[p] = Host[Process[c]]
  BY DEF Judged
<1>2. p \in Mortal /\ Process[c] # p /\ Process[d] # p
  BY <1>1 DEF OnlyTheMortalDie, At
<1> QED BY <1>1, <1>2 DEF OneSuccessor

LEMMA CallStep ==
    ASSUME OneSuccessor, LockInv, NEW c \in Calls, Call(c) \/ Acquire(c) \/ GiveUp(c)
    PROVE  LockInv'
<1>0. TypeOK /\ TypeOK' /\ alive' = alive /\ Process[c] \in alive
  BY StepShape DEF LockInv
<1>1. OnlyTheMortalDie'
  BY <1>0 DEF LockInv, OnlyTheMortalDie
<1>2. Judged'
  <2> SUFFICES ASSUME NEW d \in Calls, At(d, "takeover")'
               PROVE  \E p \in Processes \ alive : Host[p] = Host[Process[d]]
    BY <1>0 DEF Judged
  <2>1. CASE d = c
    BY <1>0, <2>1, StepShape, VerdictOfDeath DEF At, LockInv
  <2>2. CASE d # c
    BY <1>0, <2>2, StepShape DEF At, LockInv, Judged
  <2> QED BY <2>1, <2>2
<1>3. RecordOfPublisher'
  <2>1. CASE lock' = lock
    <3> SUFFICES ASSUME lock # Free PROVE pc'[lock.call] \in Published
      BY <2>1 DEF RecordOfPublisher
    <3>1. lock.call \in Calls /\ pc[lock.call] \in Published
      BY <1>0 DEF LockInv, RecordOfPublisher, TypeOK, Tokens
    <3> QED BY <1>0, <2>1, <3>1, StepShape
  <2>2. CASE lock' # lock
    BY <1>0, <2>2, StepShape, TokenType DEF RecordOfPublisher, Published
  <2> QED BY <2>1, <2>2
<1>4. HolderKeepsLock'
  <2> SUFFICES ASSUME NEW d \in Holders' PROVE lock' = Token(d)'
    BY DEF HolderKeepsLock
  <2>1. /\ d \in Calls /\ Process[d] \in alive
        /\ pc'[d] \in {"held", "relstat", "release"}
    BY <1>0 DEF Holders
  <2>2. CASE lock' = lock
    <3>1. pc[d] \in {"held", "relstat", "release"} /\ try'[d] = try[d]
      BY <1>0, <2>1, <2>2, StepShape
    <3>2. d \in Holders
      BY <2>1, <3>1 DEF Holders
    <3> QED BY <2>2, <3>1, <3>2 DEF LockInv, HolderKeepsLock, Token
  <2>3. CASE lock' # lock /\ d = c
    <3>1. CASE Publish(c) /\ lock' = Token(c) /\ try' = try
      BY <2>3, <3>1 DEF Token
    <3>2. CASE TakeOver(c)
      BY <1>0, <2>1, <2>3, <3>2, AgainType DEF TakeOver
    <3>3. CASE Release(c)
      BY <1>0, <2>1, <2>3, <3>3 DEF Release, Goto, TypeOK
    <3> QED BY <1>0, <2>3, <3>1, <3>2, <3>3, StepShape
  <2>4. CASE lock' # lock /\ d # c
    <3>1. pc[d] \in {"held", "relstat", "release"}
      BY <1>0, <2>1, <2>4, StepShape
    <3>2. lock = Token(d)
      BY <2>1, <3>1 DEF Holders, LockInv, HolderKeepsLock
    <3>3. CASE Publish(c) /\ lock = Free
      BY <1>0, <2>1, <3>2, <3>3, TokenType
    <3>4. CASE TakeOver(c)
      BY <1>0, <2>1, <2>4, <3>4, OnlySuccessorRuns DEF LockInv, TakeOver
    <3>5. CASE Release(c) /\ pc[c] = "release"
      <4>1. lock = Token(c)
        BY <1>0, <3>5 DEF Holders, LockInv, HolderKeepsLock
      <4> QED BY <1>0, <2>1, <2>4, <3>2, <4>1, TokenType
    <3> QED BY <1>0, <2>4, <3>3, <3>4, <3>5, StepShape
  <2> QED BY <2>2, <2>3, <2>4
<1>5. SawOwner'
  BY <1>0, StepShape DEF LockInv, SawOwner
<1> QED BY <1>0, <1>1, <1>2, <1>3, <1>4, <1>5 DEF LockInv

LEMMA LockStep == OneSuccessor /\ LockInv /\ [Next]_vars => LockInv'
<1> SUFFICES ASSUME OneSuccessor, LockInv, [Next]_vars PROVE LockInv'
  OBVIOUS
<1>1. ASSUME NEW c \in Calls, Call(c) \/ Acquire(c) \/ GiveUp(c) PROVE LockInv'
  BY <1>1, CallStep
<1>2. ASSUME NEW p \in Processes, Crash(p) PROVE LockInv'
  <2>1. /\ TypeOK' /\ UNCHANGED <<lock, pc, try, seen>> /\ alive' \subseteq alive
        /\ p \in Mortal /\ alive' = alive \ {p}
    BY <1>2, CrashStep DEF LockInv
  <2>2. OnlyTheMortalDie' /\ RecordOfPublisher'
    BY <2>1 DEF LockInv, OnlyTheMortalDie, RecordOfPublisher
  <2>3. SawOwner' /\ Judged'
    BY <2>1 DEF LockInv, SawOwner, Judged, At
  <2>4. HolderKeepsLock'
    BY <2>1 DEF LockInv, HolderKeepsLock, Holders, Token
  <2> QED BY <2>1, <2>2, <2>3, <2>4 DEF LockInv
<1>3. CASE UNCHANGED vars
  BY <1>3 DEF vars, LockInv, TypeOK, OnlyTheMortalDie, SawOwner, Judged, At,
     RecordOfPublisher, HolderKeepsLock, Holders, Token
<1> QED BY <1>1, <1>2, <1>3 DEF Next

-----------------------------------------------------------------------------
(* The state of the lock and of its callers has the declared shape, for    *)
(* any number of calls, processes and machines.                            *)
THEOREM LockTypeCorrect == Spec => []TypeOK
<1>1. Init => TypeOK
  BY LockInit DEF LockInv
<1> QED BY <1>1, TypeStep, PTL DEF Spec

(* A process that acquired the lock and has not released it finds its own  *)
(* record there, if each owner that may die has one possible successor; in *)
(* particular if none dies, whatever number of calls contend.              *)
THEOREM HolderKeeps == OneSuccessor => (Spec => []HolderKeepsLock)
<1> SUFFICES ASSUME OneSuccessor PROVE Spec => []HolderKeepsLock
  OBVIOUS
<1>1. Init => LockInv
  BY LockInit
<1>2. LockInv /\ [Next]_vars => LockInv'
  BY LockStep
<1>3. LockInv => HolderKeepsLock
  BY DEF LockInv
<1> QED BY <1>1, <1>2, <1>3, PTL DEF Spec

(* Under the same condition a lock is moved away only while the process it *)
(* names is dead; without it the run lock_race shows a counterexample.     *)
THEOREM MovesOnlyTheDead == OneSuccessor => (Spec => TakesOverOnlyTheDead)
<1> SUFFICES ASSUME OneSuccessor PROVE Spec => TakesOverOnlyTheDead
  OBVIOUS
<1>1. Init => LockInv
  BY LockInit
<1>2. LockInv /\ [Next]_vars => LockInv'
  BY LockStep
<1>3. LockInv => \A c \in Calls : TakeOver(c) /\ lock # Free => OwnerOf(lock) \notin alive
  <2> SUFFICES ASSUME LockInv, NEW c \in Calls, TakeOver(c), lock # Free,
                      OwnerOf(lock) \in alive
               PROVE  FALSE
    OBVIOUS
  <2>1. lock.call \in Calls /\ pc[lock.call] \in Published
    BY DEF LockInv, RecordOfPublisher, TypeOK, Tokens
  <2>2. At(c, "takeover")
    BY DEF TakeOver
  <2>3. lock.call = c
    BY <2>1, <2>2, OnlySuccessorRuns DEF LockInv, OwnerOf
  <2> QED BY <2>1, <2>2, <2>3 DEF At, Published
<1>4. LockInv =>
        [\A c \in Calls : TakeOver(c) /\ lock # Free => OwnerOf(lock) \notin alive]_vars
  BY <1>3
<1> QED BY <1>1, <1>2, <1>4, PTL DEF Spec, TakesOverOnlyTheDead

=============================================================================
