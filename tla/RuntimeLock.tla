----------------------------- MODULE RuntimeLock -----------------------------
(***************************************************************************)
(* The Controller lock of dsh-autolab (lock.ts): the directory             *)
(* <root>/controller.lock, whose owner.json names the process that owns    *)
(* the AutoLab root.  A call of acquireRuntimeLock prepares a directory of *)
(* its own with its owner record in it and renames it to the lock's path,  *)
(* which the file system refuses while the path is occupied; it then reads *)
(* the owner in the way, probes it, and when it proves that owner dead     *)
(* renames the lock away and starts again.  The path is never an empty     *)
(* directory, so one variable holds the record found there.                *)
(*                                                                         *)
(* A call stands for one acquireRuntimeLock and, when it succeeds, the     *)
(* release() of what it returned.  Every await between two file-system     *)
(* calls is a point where the other calls and processes may step.          *)
(***************************************************************************)
EXTENDS Naturals

CONSTANTS Calls,        \* calls of acquireRuntimeLock
          Processes,    \* operating-system processes (one per pid and start)
          Hosts,        \* machines that share the directory
          Process,      \* Process[c]: the process that makes call c
          Host,         \* Host[p]: the machine p runs on
          MaxTries,     \* attempts of one acquire (8 in the code)
          Mortal,       \* bound: the processes that may die
          Free          \* the lock's path is unoccupied

(* Every call is made by a process, and every process runs on a machine. *)
ASSUME LockAssumption ==
    /\ Process \in [Calls -> Processes]
    /\ Host \in [Processes -> Hosts]
    /\ MaxTries \in Nat \ {0}
    /\ Mortal \subseteq Processes
    /\ Free \notin [call : Calls, try : 1..MaxTries]

VARIABLES lock,     \* the owner record at the lock's path, or Free
          pc,       \* pc[c]: where call c stands
          try,      \* try[c]: the attempt c is in
          seen,     \* seen[c]: the owner record c read last
          alive     \* the processes that run

vars == <<lock, pc, try, seen, alive>>

(* currentOwner makes a fresh token for every attempt; the pid and the     *)
(* start time of the record are those of the process of the call.          *)
Tokens == [call : Calls, try : 1..MaxTries]
Token(c) == [call |-> c, try |-> try[c]]
OwnerOf(t) == Process[t.call]

Failures == {"active", "unknown", "corrupt", "exhausted", "lost"}
Places == {"idle", "publish", "read", "stat", "probe", "takeover",
           "held", "relstat", "release", "released"} \cup Failures

TypeOK ==
    /\ lock \in Tokens \cup {Free}
    /\ pc \in [Calls -> Places]
    /\ try \in [Calls -> 1..MaxTries]
    /\ seen \in [Calls -> Tokens \cup {Free}]
    /\ alive \subseteq Processes

Init ==
    /\ lock = Free
    /\ pc = [c \in Calls |-> "idle"]
    /\ try = [c \in Calls |-> 1]
    /\ seen = [c \in Calls |-> Free]
    /\ alive = Processes

At(c, place) == Process[c] \in alive /\ pc[c] = place
Goto(c, place) == pc' = [pc EXCEPT ![c] = place]

-----------------------------------------------------------------------------
(* acquireRuntimeLock is called: the candidate directory is private. *)
Call(c) ==
    /\ At(c, "idle")
    /\ Goto(c, "publish")
    /\ UNCHANGED <<lock, try, seen, alive>>

(* rename(candidate, lockPath): it succeeds only on an unoccupied path. *)
Publish(c) ==
    /\ At(c, "publish")
    /\ IF lock = Free
         THEN lock' = Token(c) /\ Goto(c, "held")
         ELSE UNCHANGED lock /\ Goto(c, "read")
    /\ UNCHANGED <<try, seen, alive>>

(* Mutant of Again: the loop has no end. *)
AgainForever(c) == try' = [try EXCEPT ![c] = @ + 1] /\ Goto(c, "publish")

(* The next turn of the loop, or its end. *)
Again(c) ==
    IF try[c] < MaxTries
      THEN try' = [try EXCEPT ![c] = @ + 1] /\ Goto(c, "publish")
      ELSE UNCHANGED try /\ Goto(c, "exhausted")

(* tryReadOwner reads owner.json; a file that is not there sends it to stat. *)
ReadOwner(c) ==
    /\ At(c, "read")
    /\ seen' = [seen EXCEPT ![c] = lock]
    /\ Goto(c, IF lock = Free THEN "stat" ELSE "probe")
    /\ UNCHANGED <<lock, try, alive>>

(* tryReadOwner after ENOENT: a path that is still missing is "no owner";  *)
(* a path that is there is taken for a lock without an owner record.       *)
StatLock(c) ==
    /\ At(c, "stat")
    /\ IF lock = Free THEN Again(c) ELSE Goto(c, "corrupt") /\ UNCHANGED try
    /\ UNCHANGED <<lock, seen, alive>>

(* Mutant of Verdicts: a system call that fails proves the owner dead. *)
VerdictsDeadOnFailure(p, q) ==
    {"takeover", IF q \in alive THEN "active" ELSE "takeover"}

(* probeOwner: another machine cannot be judged, and the two system calls  *)
(* it rests on (kill with signal 0, ps) may fail for any process.          *)
Verdicts(p, q) ==
    IF Host[p] # Host[q] THEN {"unknown"}
    ELSE {"unknown", IF q \in alive THEN "active" ELSE "takeover"}

Probe(c) ==
    /\ At(c, "probe")
    /\ \E v \in Verdicts(Process[c], OwnerOf(seen[c])) : Goto(c, v)
    /\ UNCHANGED <<lock, try, seen, alive>>

(* Mutant of TakeOver: the stale directory is never moved away. *)
TakeOverInPlace(c) ==
    /\ At(c, "takeover")
    /\ Again(c)
    /\ UNCHANGED <<lock, seen, alive>>

(* rename(lockPath, tombstone) moves whatever is at the path by now; a     *)
(* path that is missing by now is no error.                                *)
TakeOver(c) ==
    /\ At(c, "takeover")
    /\ lock' = Free
    /\ Again(c)
    /\ UNCHANGED <<seen, alive>>

-----------------------------------------------------------------------------
(* release() reads the owner (a missing file sends it to stat, as above)   *)
(* and refuses when it is not the one it wrote.                            *)
CheckToken(c) ==
    /\ At(c, "held") \/ At(c, "relstat")
    /\ Goto(c, CASE lock = Free -> IF pc[c] = "held" THEN "relstat" ELSE "lost"
                 [] lock # Free /\ pc[c] = "relstat" -> "corrupt"
                 [] lock = Token(c) /\ pc[c] = "held" -> "release"
                 [] lock \notin {Free, Token(c)} /\ pc[c] = "held" -> "lost")
    /\ UNCHANGED <<lock, try, seen, alive>>

(* rename(lockPath, releasedPath) moves whatever is there; ENOENT throws. *)
Release(c) ==
    /\ At(c, "release")
    /\ lock' = Free
    /\ Goto(c, IF lock = Free THEN "lost" ELSE "released")
    /\ UNCHANGED <<try, seen, alive>>

(* A process dies; the lock stays where it is. *)
Crash(p) ==
    /\ p \in alive \cap Mortal
    /\ alive' = alive \ {p}
    /\ UNCHANGED <<lock, pc, try, seen>>

Acquire(c) ==
    \/ Publish(c)
    \/ ReadOwner(c)
    \/ StatLock(c)
    \/ Probe(c)
    \/ TakeOver(c)

GiveUp(c) ==
    \/ CheckToken(c)
    \/ Release(c)

Next ==
    \/ \E c \in Calls : Call(c)
    \/ \E c \in Calls : Acquire(c)
    \/ \E c \in Calls : GiveUp(c)
    \/ \E p \in Processes : Crash(p)

Spec == Init /\ [][Next]_vars

(* An acquire that has begun runs on: nothing in it waits for another. A   *)
(* holder may keep the lock for as long as its Controller runs.            *)
FairSpec == Spec /\ \A c \in Calls : WF_vars(Acquire(c))

-----------------------------------------------------------------------------
Holders == {c \in Calls : Process[c] \in alive
                            /\ pc[c] \in {"held", "relstat", "release"}}

(* While a process that acquired the lock runs and has not released it,    *)
(* the record at the lock's path is its own: no second Controller exists,  *)
(* and its release finds what it wrote.  This is what the Controller rests *)
(* on when it takes the token as its ownerEpoch (index.ts, Service.init).  *)
(* It holds as long as nobody but the one successor can judge an owner     *)
(* dead that somebody else has replaced by then (see the next property).   *)
HolderKeepsLock == \A c \in Holders : lock = Token(c)

(* A lock is moved out of the way only while the process it names is dead  *)
(* (lock.test.ts:110, "recovers only after the prior process is            *)
(* mechanically proven dead").  Two contenders that both judged the dead   *)
(* owner break it: the slower one renames the lock the faster one took.    *)
TakesOverOnlyTheDead ==
    [][\A c \in Calls : TakeOver(c) /\ lock # Free => OwnerOf(lock) \notin alive]_vars

(* A contender on the machine of a dead owner does not leave its lock in   *)
(* the way: the lock goes, or the contender reports that it cannot tell,   *)
(* or dies as well.                                                        *)
StaleLockGivesWay ==
    \A c \in Calls :
        (/\ At(c, "publish")
         /\ lock # Free
         /\ OwnerOf(lock) \notin alive
         /\ Host[OwnerOf(lock)] = Host[Process[c]])
        ~> (\/ lock = Free
            \/ OwnerOf(lock) \in alive
            \/ pc[c] = "unknown"
            \/ Process[c] \notin alive)

=============================================================================
