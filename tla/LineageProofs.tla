--------------------------- MODULE LineageProofs ---------------------------
(* The properties of the Coder's lineage, for any number of calls, reviews,*)
(* fixes and disturbances.                                                 *)
EXTENDS CandidateLineage, TLAPS

-----------------------------------------------------------------------------
(* The inductive invariant.                                                *)

(* Assignment b was given before a, or is a: an APPROVED review comes after *)
(* everything of the reviews before it, and its only fix after it.         *)
AtMost(b, a) ==
    b = a \/ b.review < a.review \/ (b.review = a.review /\ b.fix = 0)

(* The Assignment was made: it has artifacts and a candidate id.           *)
Known(a) == a.review \in 1..lab.approved /\ names[a] \in Ids /\ files[a] # "none"

(* Reviews are resolved one after the other; the Coder's Assignment is that *)
(* of the last one, or continues a resolved one.                           *)
RouteInv ==
    /\ \A r \in Reviews : r < lab.approved => r \in lab.resolved
    /\ \A r \in lab.resolved : r <= lab.approved
    /\ \A r \in Reviews : r <= lab.approved => names[Approved(r)] \in Ids
    /\ coder.asg # None => Known(coder.asg)
    /\ coder.status # "none" => coder.asg # None
    /\ coder.asg.fix # 0 => coder.asg.review \in lab.resolved
    /\ AtMost(coder.known, coder.asg)

(* Every generation that was ever captured is of a resolved review, and a   *)
(* Trial has its own.                                                      *)
LineageInv ==
    /\ lab.candidate # None =>
          lab.candidate = coder.asg /\ lab.candidate.review \in lab.resolved
    /\ \A i \in Ids : lab.retired[i] # None =>
          /\ Known(lab.retired[i]) /\ lab.retired[i].review \in lab.resolved
          /\ lab.retired[i] # coder.asg
    /\ \A t \in lab.trials :
          /\ Known(t) /\ t.review \in lab.resolved
          /\ lab.candidate = t \/ lab.retired[names[t]] = t
    /\ coder.phase \in {"paused", "reviewing"} /\ Applied => lab.candidate = coder.asg

(* A call that installs a Goal carries an Assignment that is not newer than *)
(* the Coder's and replaces one that is older still; while nothing changed  *)
(* since it was staged, the Coder waits for it.                            *)
CallInv(c) ==
    /\ c.at \in {"install", "flush", "commit"} <=> c.kind \in {"approve", "fix"}
    /\ c.kind \in {"approve", "fix"} =>
          c.asg # None /\ AtMost(c.asg, coder.asg) /\ AtMost(c.exp, c.asg)
    /\ c.kind = "launch" => c.asg # None
    /\ c.fresh => /\ c.kind \in {"approve", "fix"} /\ c.asg = coder.asg
                  /\ coder.status = "activating" /\ start = "none"
    /\ c.at = "flush" => goal = c.asg
    /\ c.at = "commit" /\ c.fresh => goal = c.asg /\ saved = c.asg

StartInv ==
    /\ start \in {"install", "flush", "applied", "failed"} => coder.status = "activating"
    /\ start \in {"flush", "applied"} => goal = coder.asg
    /\ start = "applied" => saved = coder.asg

GoalInv == AppliedGoalIsDurable /\ StartInv /\ \A h \in Calls : CallInv(call[h])

(* A Postflight of the Coder's present Assignment has the Coder's review    *)
(* for itself.                                                             *)
Present(t) == lab.post[t].about = coder.asg

PostInv ==
    /\ \A t \in Pending :
          /\ lab.post[t].about # None /\ Known(lab.post[t].about)
          /\ lab.post[t].about.review \in lab.resolved
          /\ Present(t) => /\ coder.phase = "reviewing" /\ Applied /\ ~coder.blocked
                           /\ lab.post[t].freeze # "dead"
    /\ \A t, u \in Pending : Present(t) /\ Present(u) => t = u

IInv == TypeOK /\ RouteInv /\ LineageInv /\ GoalInv /\ PostInv

-----------------------------------------------------------------------------
(* Types.                                                                  *)

(* What a staged Assignment leaves of the state. *)
LEMMA StagedShape ==
    ASSUME TypeOK, NEW a \in Assignments, NEW k \in Assignments \cup {None}
    PROVE  LET n == Staged(a, k)
               keeps == lab.candidate \in {None, a}
           IN /\ n \in LabState
              /\ n.lifecycle = lab.lifecycle
              /\ n.coder = [phase |-> lab.coder.phase, asg |-> a, status |-> "activating",
                            known |-> k, blocked |-> lab.coder.blocked]
              /\ n.candidate = IF keeps THEN lab.candidate ELSE None
              /\ n.retired = IF keeps THEN lab.retired
                             ELSE [lab.retired EXCEPT ![names[lab.candidate]] = lab.candidate]
              /\ n.approved = lab.approved /\ n.resolved = lab.resolved
              /\ n.trials = lab.trials /\ n.post = lab.post
<1> DEFINE l == [lab EXCEPT !.coder.asg = a, !.coder.status = "activating",
                            !.coder.known = k]
<1>1. /\ l \in LabState
      /\ l.lifecycle = lab.lifecycle /\ l.candidate = lab.candidate
      /\ l.retired = lab.retired /\ l.approved = lab.approved
      /\ l.resolved = lab.resolved /\ l.trials = lab.trials /\ l.post = lab.post
      /\ l.coder = [phase |-> lab.coder.phase, asg |-> a, status |-> "activating",
                    known |-> k, blocked |-> lab.coder.blocked]
  BY DEF TypeOK, LabState, CoderState
<1>2. Staged(a, k) = Superseded(l)
  BY DEF Staged
<1> HIDE DEF l
<1>3. l.coder.asg = a
  BY <1>1
<1>4. CASE lab.candidate \in {None, a}
  BY <1>1, <1>2, <1>3, <1>4 DEF Superseded
<1>5. CASE lab.candidate \notin {None, a}
  <2> DEFINE n == [l EXCEPT !.candidate = None, !.retired[names[l.candidate]] = l.candidate]
  <2>1. Superseded(l) = n
    BY <1>1, <1>3, <1>5 DEF Superseded
  <2>2. /\ n \in LabState
        /\ n.lifecycle = l.lifecycle /\ n.candidate = None
        /\ n.retired = [l.retired EXCEPT ![names[l.candidate]] = l.candidate]
        /\ n.approved = l.approved /\ n.coder = l.coder
        /\ n.resolved = l.resolved /\ n.trials = l.trials /\ n.post = l.post
    BY <1>1 DEF LabState
  <2> QED
    BY <1>1, <1>2, <1>5, <2>1, <2>2
<1> QED
  BY <1>4, <1>5

LEMMA TransitionType ==
    ASSUME TypeOK, NEW new \in LabState, NEW c \in [Calls -> CallState],
           Transition(new, c)
    PROVE  /\ lab' \in LabState
           /\ files' \in [Assignments -> {"none", "now", "earlier"}]
           /\ call' \in [Calls -> CallState]
  BY ZenonT(40) DEF TypeOK, CallState, Transition, Aged, Stale

LEMMA EndedType ==
    ASSUME TypeOK, NEW h \in Calls
    PROVE  Ended(h) \in [Calls -> CallState]
  BY DEF TypeOK, CallState, Ended, NoCall

LEMMA StageType ==
    ASSUME TypeOK, NEW h \in Calls, NEW kind \in {"approve", "fix"},
           NEW a \in Assignments, NEW k \in Assignments \cup {None},
           Stage(h, kind, a, k)
    PROVE  /\ lab' \in LabState
           /\ files' \in [Assignments -> {"none", "now", "earlier"}]
           /\ call' \in [Calls -> CallState]
<1>1. lab' \in LabState
  BY StagedShape DEF Stage
<1>2. files' \in [Assignments -> {"none", "now", "earlier"}]
  BY DEF TypeOK, Stage, Aged
<1>3. coder.known \in Assignments \cup {None}
  BY DEF TypeOK, LabState, CoderState, coder
<1>4. Stale(call) \in [Calls -> CallState]
  BY DEF TypeOK, Stale, CallState
<1>5. call' \in [Calls -> CallState]
  BY <1>3, <1>4 DEF Stage, CallState
<1> QED
  BY <1>1, <1>2, <1>5

LEMMA ApprovedType == \A r \in Reviews : Approved(r) \in Assignments
  BY LineageAssumption DEF Approved, Assignments

(* The steps of the calls. *)
LEMMA CallTypes ==
    ASSUME TypeOK, GoalInv, NEW h \in Calls, CallStep(h)
    PROVE  TypeOK'
<1>inv. CallInv(call[h])
  BY DEF GoalInv
<1>0. coder \in CoderState
  BY DEF TypeOK, LabState, coder
<1>1. CASE \E r \in Reviews : StageApproved(h, r)
  <2> PICK r \in Reviews : StageApproved(h, r)
    BY <1>1
  <2>1. /\ lab' \in LabState
        /\ files' \in [Assignments -> {"none", "now", "earlier"}]
        /\ call' \in [Calls -> CallState]
    BY <1>0, StageType, ApprovedType DEF StageApproved, CoderState
  <2> QED
    BY <2>1 DEF StageApproved, TypeOK
<1>2. CASE \E r \in Reviews, k \in 1..MaxFixes, i \in Ids : StageFix(h, r, k, i)
  <2> PICK r \in Reviews, k \in 1..MaxFixes, i \in Ids : StageFix(h, r, k, i)
    BY <1>2
  <2> DEFINE a == [review |-> r, fix |-> k]
  <2>1. a \in Assignments
    BY LineageAssumption DEF Assignments
  <2>2. names' \in [Assignments -> Ids \cup {"none"}]
    BY <2>1 DEF StageFix, TypeOK
  <2>3. CASE Fits(Staged(a, None))
    <3>1. /\ lab' \in LabState
          /\ files' \in [Assignments -> {"none", "now", "earlier"}]
          /\ call' \in [Calls -> CallState]
      BY <2>1, <2>3, StageType DEF StageFix
    <3> QED
      BY <2>2, <3>1 DEF StageFix, TypeOK
  <2>4. CASE ~Fits(Staged(a, None))
    BY <2>1, <2>2, <2>4 DEF StageFix, TypeOK
  <2> QED
    BY <2>3, <2>4
<1>3. CASE Install(h)
  <2>1. goal' \in Assignments \cup {None} /\ call' \in [Calls -> CallState]
    <3>1. CASE Installable(call[h].asg, call[h].exp)
      BY <1>3, <3>1 DEF Install, TypeOK, CallState
    <3>2. CASE ~Installable(call[h].asg, call[h].exp)
      BY <1>3, <3>2, EndedType DEF Install, TypeOK
    <3> QED
      BY <3>1, <3>2
  <2> QED
    BY <1>3, <2>1 DEF Install, TypeOK
<1>4. CASE Flush(h)
  <2>1. call' \in [Calls -> CallState]
    BY <1>4 DEF Flush, TypeOK, CallState
  <2> QED
    BY <1>4, <2>1 DEF Flush, TypeOK
<1>5. CASE CommitApproved(h)
  <2> DEFINE new == [lab EXCEPT !.coder = [Working(@) EXCEPT !.blocked = FALSE],
                                !.resolved = @ \cup {call[h].asg.review}]
  <2>1. CASE call[h].fresh
    <3>1. call[h].asg.review \in Reviews
      BY <1>inv, <1>5 DEF CommitApproved, CallInv, TypeOK, CallState, Assignments
    <3>2. new \in LabState
      BY <1>0, <3>1 DEF TypeOK, LabState, CoderState, Working, coder
    <3> QED
      BY <1>5, <2>1, <3>2, EndedType, TransitionType DEF CommitApproved, TypeOK
  <2>2. CASE ~call[h].fresh
    BY <1>5, <2>2, EndedType DEF CommitApproved, TypeOK
  <2> QED
    BY <2>1, <2>2
<1>6. CASE CommitFix(h)
  <2> DEFINE new == [lab EXCEPT !.coder = Working(@)]
  <2>1. new \in LabState
    BY <1>0 DEF TypeOK, LabState, CoderState, Working, coder
  <2> QED
    BY <1>6, <2>1, EndedType, TransitionType DEF CommitFix, TypeOK
<1>7. CASE Abort(h)
  BY <1>7, EndedType, LineageAssumption DEF Abort, Spend, TypeOK
<1>8. CASE Submit(h)
  BY <1>0, <1>8 DEF Submit, Outside, TypeOK, CallState, CoderState
<1>9. CASE CommitCandidate(h)
  <2> DEFINE new == [lab EXCEPT !.coder.phase = "paused", !.candidate = call[h].asg]
  <2>1. new \in LabState
    BY <1>0 DEF TypeOK, LabState, CoderState, CallState, coder
  <2> QED
    BY <1>9, <2>1, EndedType, TransitionType DEF CommitCandidate, TypeOK
<1>10. CASE Launch(h)
  BY <1>10 DEF Launch, Outside, TypeOK, CallState, LabState
<1>11. CASE CommitTrial(h)
  <2> DEFINE new == [lab EXCEPT !.trials = @ \cup {call[h].asg}]
  <2>1. CASE SameCandidate(h)
    <3>1. call[h].asg \in Assignments
      BY <1>inv, <1>11 DEF CommitTrial, CallInv, TypeOK, CallState
    <3>2. new \in LabState
      BY <3>1 DEF TypeOK, LabState
    <3> QED
      BY <1>11, <2>1, <3>2, EndedType, TransitionType DEF CommitTrial, TypeOK
  <2>2. CASE ~SameCandidate(h)
    BY <1>11, <2>2, EndedType DEF CommitTrial, TypeOK
  <2> QED
    BY <2>1, <2>2
<1> QED
  BY <1>1, <1>2, <1>3, <1>4, <1>5, <1>6, <1>7, <1>8, <1>9, <1>10, <1>11 DEF CallStep

(* The steps of the Lab. *)
LEMMA LabTypes ==
    ASSUME TypeOK, LabStep
    PROVE  TypeOK'
<1>0. coder \in CoderState /\ lab \in LabState /\ call \in [Calls -> CallState]
  BY DEF TypeOK, LabState, coder
<1>1. CASE Approve
  <2> DEFINE new == [lab EXCEPT !.approved = @ + 1]
  <2>1. new \in LabState
    BY <1>0, <1>1, LineageAssumption DEF Approve, LabState
  <2>2. names' \in [Assignments -> Ids \cup {"none"}]
    BY <1>1 DEF Approve, TypeOK
  <2> QED
    BY <1>0, <1>1, <2>1, <2>2, TransitionType DEF Approve, TypeOK
<1>2. CASE \E r \in Reviews : RefuseApproved(r)
  BY <1>2, ApprovedType DEF RefuseApproved, TypeOK
<1>3. ASSUME NEW t \in Assignments, RequestPostflight(t)
      PROVE  TypeOK'
  <2> DEFINE new == [lab EXCEPT !.coder.phase = "reviewing",
                        !.post[t] = [state |-> "pending", freeze |-> "asked",
                                     about |-> coder.asg]]
  <2>1. new \in LabState
    BY <1>0 DEF LabState, CoderState, PostState, coder
  <2> QED
    BY <1>0, <1>3, <2>1, TransitionType DEF RequestPostflight, TypeOK
<1>4. ASSUME NEW t \in Assignments, FreezeCoder(t)
      PROVE  TypeOK'
  <2> DEFINE new == [lab EXCEPT !.post[t].freeze =
                       IF goal = lab.post[t].about THEN "done" ELSE "dead"]
  <2>1. new \in LabState
    BY <1>0 DEF LabState, PostState
  <2> QED
    BY <1>0, <1>4, <2>1, TransitionType DEF FreezeCoder, TypeOK
<1>5. ASSUME NEW t \in Assignments, RejectControl(t)
      PROVE  TypeOK'
  <2>1. lab' \in LabState
    BY <1>0, <1>5 DEF RejectControl, LabState, PostState
  <2> QED
    BY <1>5, <2>1 DEF RejectControl, TypeOK
<1>6. ASSUME NEW t \in Assignments, RecordResult(t)
      PROVE  TypeOK'
  <2> DEFINE new == [lab EXCEPT !.post[t].state = "recorded",
                       !.coder.phase = IF @ = "reviewing" THEN "paused" ELSE @]
             post == [lab EXCEPT !.post[t].state = "recorded"]
  <2>1. new \in LabState
    <3>1. post \in LabState
      BY SMTT(40), <1>0 DEF LabState, PostState
    <3>2. new = [post EXCEPT !.coder.phase = IF @ = "reviewing" THEN "paused" ELSE @]
      BY <1>0 DEF LabState
    <3> HIDE DEF post, new
    <3> QED
      BY <3>1, <3>2 DEF LabState, CoderState
  <2> QED
    BY <1>0, <1>6, <2>1, TransitionType DEF RecordResult, TypeOK
<1>7. CASE BeginStart
  <2> DEFINE again == coder.phase = "working" /\ Applied
             new == [lab EXCEPT !.lifecycle = "starting", !.coder.blocked = FALSE,
                            !.coder.status = IF again THEN "activating" ELSE @]
  <2>1. new \in LabState
    BY <1>0 DEF LabState, CoderState, coder
  <2>2. Transition(new, call) /\ start' \in {"install", "done"}
    BY <1>7 DEF BeginStart
  <2> HIDE DEF new
  <2> QED
    BY <1>0, <1>7, <2>1, <2>2, TransitionType DEF BeginStart, TypeOK
<1>8. CASE StartInstall
  BY <1>0, <1>8 DEF StartInstall, TypeOK, CoderState
<1>9. CASE StartFlush
  BY <1>9, LineageAssumption DEF StartFlush, Spend, TypeOK
<1>10. CASE EndStart
  <2> DEFINE new == [lab EXCEPT !.lifecycle = "running",
                      !.coder = IF start = "applied" THEN Working(@)
                                ELSE [@ EXCEPT !.blocked = start = "failed"]]
  <2>1. new \in LabState
    BY <1>0 DEF LabState, CoderState, Working, coder
  <2> QED
    BY <1>0, <1>10, <2>1, TransitionType DEF EndStart, TypeOK
<1>11. CASE Touch
  BY <1>0, <1>11, TransitionType, LineageAssumption DEF Touch, Spend, TypeOK
<1>12. CASE Restart
  <2>1. call' \in [Calls -> CallState]
    BY <1>12 DEF Restart, NoCall, CallState
  <2>2. files' \in [Assignments -> {"none", "now", "earlier"}]
    BY <1>12 DEF Restart, Aged, TypeOK
  <2>3. trouble' \in 0..MaxTrouble
    BY <1>12, LineageAssumption DEF Restart, Spend, TypeOK
  <2>4. goal' \in Assignments \cup {None} /\ saved' \in Assignments \cup {None}
    BY <1>12 DEF Restart, TypeOK
  <2> QED
    BY <1>12, <2>1, <2>2, <2>3, <2>4 DEF Restart, TypeOK
<1> QED
  BY <1>1, <1>2, <1>3, <1>4, <1>5, <1>6, <1>7, <1>8, <1>9, <1>10, <1>11, <1>12
  DEF LabStep

LEMMA TypeStep ==
    ASSUME TypeOK, GoalInv, [Next]_vars
    PROVE  TypeOK'
<1>1. CASE UNCHANGED vars
  BY <1>1 DEF vars, TypeOK
<1> QED
  BY <1>1, CallTypes, LabTypes DEF Next

-----------------------------------------------------------------------------
(* The order of the Assignments.                                           *)

LEMMA AtMostTrans ==
    ASSUME NEW a \in Assignments \cup {None}, NEW b \in Assignments \cup {None},
           NEW c \in Assignments \cup {None}, AtMost(a, b), AtMost(b, c)
    PROVE  AtMost(a, c)
  BY LineageAssumption DEF AtMost, Assignments, Reviews, None

(* Whatever a call that is not newer than the Coder finds it may replace is *)
(* not the Coder's Goal, unless the call carries that one itself.          *)
LEMMA NeverReplaced ==
    ASSUME NEW a \in Assignments, NEW b \in Assignments, NEW e \in Assignments \cup {None},
           AtMost(b, a), AtMost(e, b), a \in {None, b, e}
    PROVE  b = a
  BY LineageAssumption DEF AtMost, Assignments, Reviews, None

-----------------------------------------------------------------------------
(* What was made stays.                                                    *)

(* Known after the step. *)
StillKnown(a) ==
    a.review \in 1..lab'.approved /\ names'[a] \in Ids /\ files'[a] # "none"

Kept ==
    /\ \A a \in Assignments : Known(a) => StillKnown(a) /\ names'[a] = names[a]
    /\ \A a \in Assignments : names[a] \in Ids => names'[a] \in Ids

LEMMA KeptWhere ==
    ASSUME TypeOK, TypeOK', lab'.approved >= lab.approved,
           \A a \in Assignments : files[a] # "none" => files'[a] # "none",
           \A a \in Assignments : names'[a] = names[a] \/
              (names'[a] \in Ids /\ (a.review > lab.approved \/ files[a] = "none"))
    PROVE  Kept
  BY LineageAssumption DEF TypeOK, LabState, Known, StillKnown, Kept, Assignments, Reviews

LEMMA TransitionKeeps ==
    ASSUME TypeOK, NEW new, NEW c, Transition(new, c)
    PROVE  \A a \in Assignments : files[a] # "none" => files'[a] # "none"
  BY DEF Transition, Aged, TypeOK

(* A fix, told by the Assignment that it makes. *)
Fixes(f, h, r, i) ==
    /\ f.review = r /\ f.fix # 0
    /\ call[h] = NoCall /\ MayFix(r) /\ files[f] = "none"
    /\ names' = [names EXCEPT ![f] = i]
    /\ \/ Fits(Staged(f, None)) /\ Stage(h, "fix", f, None)
       \/ files' = [files EXCEPT ![f] = "now"] /\ UNCHANGED <<lab, call>>
    /\ UNCHANGED <<goal, saved, attached, start, trouble>>

LEMMA FixShape ==
    ASSUME NEW h \in Calls, NEW r \in Reviews, NEW k \in 1..MaxFixes, NEW i \in Ids,
           StageFix(h, r, k, i)
    PROVE  \E f \in Assignments : Fixes(f, h, r, i)
<1> DEFINE f == [review |-> r, fix |-> k]
<1>1. f \in Assignments /\ f.review = r /\ f.fix # 0
  BY LineageAssumption DEF Assignments
<1>2. Fixes(f, h, r, i)
  BY <1>1 DEF StageFix, Fixes
<1> QED
  BY <1>1, <1>2

LEMMA CallKeeps ==
    ASSUME TypeOK, TypeOK', NEW h \in Calls, CallStep(h)
    PROVE  Kept
<1>0. lab.approved \in Nat
  BY LineageAssumption DEF TypeOK, LabState
<1>1. CASE \E r \in Reviews : StageApproved(h, r)
  <2> PICK r \in Reviews : StageApproved(h, r)
    BY <1>1
  <2>1. coder.known \in Assignments \cup {None} /\ Approved(r) \in Assignments
    BY ApprovedType DEF TypeOK, LabState, CoderState, coder
  <2>2. lab'.approved = lab.approved
    BY <2>1, StagedShape DEF StageApproved, Stage
  <2>3. \A a \in Assignments : files[a] # "none" => files'[a] # "none"
    BY <2>1 DEF StageApproved, Stage, Aged, TypeOK
  <2> QED
    BY <1>0, <2>2, <2>3, KeptWhere DEF StageApproved
<1>2. CASE \E r \in Reviews, k \in 1..MaxFixes, i \in Ids : StageFix(h, r, k, i)
  <2> PICK r \in Reviews, k \in 1..MaxFixes, i \in Ids : StageFix(h, r, k, i)
    BY <1>2
  <2> PICK f \in Assignments : Fixes(f, h, r, i)
    BY FixShape
  <2>1. lab'.approved = lab.approved
    <3>0. None \in Assignments \cup {None}
      OBVIOUS
    <3>1. Staged(f, None).approved = lab.approved
      BY <3>0, StagedShape
    <3>2. lab' = Staged(f, None) \/ lab' = lab
      BY DEF Fixes, Stage
    <3> QED
      BY <3>1, <3>2
  <2>2. \A a \in Assignments : files[a] # "none" => files'[a] # "none"
    BY DEF Fixes, Stage, Aged, TypeOK
  <2>3. \A a \in Assignments : names'[a] = names[a] \/ (names'[a] \in Ids /\ files[a] = "none")
    BY DEF Fixes, TypeOK
  <2> QED
    BY <1>0, <2>1, <2>2, <2>3, KeptWhere
<1>3. CASE Install(h) \/ Flush(h) \/ Abort(h) \/ Submit(h) \/ Launch(h)
  BY <1>0, <1>3, KeptWhere DEF Install, Flush, Abort, Submit, Launch
<1>4. CASE CommitApproved(h) \/ CommitFix(h) \/ CommitCandidate(h) \/ CommitTrial(h)
  <2>1. names' = names
    BY <1>4 DEF CommitApproved, CommitFix, CommitCandidate, CommitTrial
  <2>2. lab'.approved = lab.approved
    <3>1. CASE CommitApproved(h)
      BY <3>1 DEF CommitApproved, Transition, TypeOK, LabState
    <3>2. CASE CommitFix(h)
      BY <3>2 DEF CommitFix, Transition, TypeOK, LabState
    <3>3. CASE CommitCandidate(h)
      BY <3>3 DEF CommitCandidate, Transition, TypeOK, LabState
    <3>4. CASE CommitTrial(h)
      BY <3>4 DEF CommitTrial, Transition, TypeOK, LabState
    <3> QED
      BY <1>4, <3>1, <3>2, <3>3, <3>4
  <2>3. \A a \in Assignments : files[a] # "none" => files'[a] # "none"
    BY <1>4, TransitionKeeps DEF CommitApproved, CommitFix, CommitCandidate, CommitTrial
  <2> QED
    BY <1>0, <2>1, <2>2, <2>3, KeptWhere
<1> QED
  BY <1>1, <1>2, <1>3, <1>4 DEF CallStep

LEMMA LabKeeps ==
    ASSUME TypeOK, TypeOK', LabStep
    PROVE  Kept
<1>0. lab.approved \in Nat
  BY LineageAssumption DEF TypeOK, LabState
<1>1. CASE Approve
  <2> DEFINE new == [lab EXCEPT !.approved = @ + 1]
  <2>1. lab'.approved = lab.approved + 1
    BY <1>1 DEF Approve, Transition, TypeOK, LabState
  <2>2. \A a \in Assignments : files[a] # "none" => files'[a] # "none"
    BY <1>1, TransitionKeeps DEF Approve
  <2>3. \A a \in Assignments :
          names'[a] = names[a] \/ (names'[a] \in Ids /\ a = Approved(lab.approved + 1))
    BY <1>1 DEF Approve, TypeOK
  <2>4. Approved(lab.approved + 1).review > lab.approved
    BY <1>0 DEF Approved
  <2> QED
    BY <1>0, <2>1, <2>2, <2>3, <2>4, KeptWhere
<1>2. CASE \E r \in Reviews : RefuseApproved(r)
  <2>1. \A a \in Assignments : files[a] # "none" => files'[a] # "none"
    BY <1>2, ApprovedType DEF RefuseApproved, TypeOK
  <2> QED
    BY <1>0, <1>2, <2>1, KeptWhere DEF RefuseApproved
<1>3. ASSUME NEW t \in Assignments,
             RequestPostflight(t) \/ FreezeCoder(t) \/ RejectControl(t) \/ RecordResult(t)
      PROVE  Kept
  <2>1. names' = names /\ lab'.approved = lab.approved
    BY <1>3 DEF RequestPostflight, FreezeCoder, RejectControl, RecordResult, Transition,
                TypeOK, LabState
  <2>2. \A a \in Assignments : files[a] # "none" => files'[a] # "none"
    BY <1>3, TransitionKeeps DEF RequestPostflight, FreezeCoder, RejectControl, RecordResult
  <2> QED
    BY <1>0, <2>1, <2>2, KeptWhere
<1>4. CASE BeginStart \/ EndStart \/ Touch
  <2>1. names' = names /\ lab'.approved = lab.approved
    BY <1>4 DEF BeginStart, EndStart, Touch, Transition, TypeOK, LabState
  <2>2. \A a \in Assignments : files[a] # "none" => files'[a] # "none"
    BY <1>4, TransitionKeeps DEF BeginStart, EndStart, Touch
  <2> QED
    BY <1>0, <2>1, <2>2, KeptWhere
<1>5. CASE StartInstall \/ StartFlush
  BY <1>0, <1>5, KeptWhere DEF StartInstall, StartFlush
<1>6. CASE Restart
  <2>1. \A a \in Assignments : files[a] # "none" => files'[a] # "none"
    BY <1>6 DEF Restart, Aged, TypeOK
  <2> QED
    BY <1>0, <1>6, <2>1, KeptWhere DEF Restart
<1> QED
  BY <1>1, <1>2, <1>3, <1>4, <1>5, <1>6 DEF LabStep

-----------------------------------------------------------------------------
(* Steps that leave a part of the invariant as it is.                      *)

LEMMA RouteFrame ==
    ASSUME TypeOK, TypeOK', RouteInv, Kept,
           lab'.approved = lab.approved, lab'.resolved = lab.resolved,
           lab'.coder.asg = lab.coder.asg,
           lab'.coder.known \in {lab.coder.known, lab.coder.asg},
           lab'.coder.status # "none" => lab.coder.status # "none"
    PROVE  RouteInv'
<1>1. lab.coder.asg \in Assignments \cup {None}
  BY DEF TypeOK, LabState, CoderState
<1>2. \A r \in Reviews : r <= lab'.approved => names'[Approved(r)] \in Ids
  BY ApprovedType DEF RouteInv, Kept
<1>3. lab'.coder.asg # None => StillKnown(lab.coder.asg)
  BY <1>1 DEF RouteInv, Kept, coder
<1>4. AtMost(lab'.coder.known, lab'.coder.asg)
  BY DEF RouteInv, AtMost, coder
<1> QED
  BY <1>2, <1>3, <1>4 DEF RouteInv, coder, Known, StillKnown

LEMMA LineageFrame ==
    ASSUME TypeOK, TypeOK', LineageInv, Kept,
           lab'.candidate = lab.candidate, lab'.retired = lab.retired,
           lab'.trials = lab.trials, lab.resolved \subseteq lab'.resolved,
           lab'.coder.asg = lab.coder.asg,
           lab'.coder.phase \in {"paused", "reviewing"} /\ lab'.coder.status = "applied" =>
              lab.coder.phase \in {"paused", "reviewing"} /\ lab.coder.status = "applied"
    PROVE  LineageInv'
<1>1. /\ lab.retired \in [Ids -> Assignments \cup {None}]
      /\ lab.trials \subseteq Assignments
  BY DEF TypeOK, LabState
<1>2. \A i \in Ids : lab'.retired[i] # None => StillKnown(lab.retired[i])
  BY <1>1 DEF LineageInv, Kept
<1>3. \A t \in lab'.trials : StillKnown(t) /\ names'[t] = names[t]
  BY <1>1 DEF LineageInv, Kept
<1> QED
  BY <1>2, <1>3 DEF LineageInv, coder, Known, StillKnown, Applied

LEMMA PostFrame ==
    ASSUME TypeOK, TypeOK', PostInv, Kept,
           lab'.post = lab.post, lab.resolved \subseteq lab'.resolved,
           lab'.coder.asg = lab.coder.asg,
           lab.coder.phase = "reviewing" /\ lab.coder.status = "applied" /\ ~lab.coder.blocked
              => /\ lab'.coder.phase = "reviewing" /\ lab'.coder.status = "applied"
                 /\ ~lab'.coder.blocked
    PROVE  PostInv'
<1>1. \A t \in Assignments : lab.post[t].about \in Assignments \cup {None}
  BY DEF TypeOK, LabState, PostState
<1>2. Pending' = Pending
  BY DEF Pending
<1>3. \A t \in Pending : StillKnown(lab.post[t].about)
  BY <1>1 DEF PostInv, Kept, Pending
<1> QED
  BY <1>2, <1>3 DEF PostInv, coder, Known, StillKnown, Applied, Present

LEMMA LabFrame ==
    ASSUME TypeOK, TypeOK', RouteInv, LineageInv, PostInv, Kept, lab' = lab
    PROVE  RouteInv' /\ LineageInv' /\ PostInv'
  BY RouteFrame, LineageFrame, PostFrame

(* What a staged Assignment does to the lineage. *)
LEMMA StagedFits ==
    ASSUME TypeOK, RouteInv, LineageInv, NEW a \in Assignments,
           NEW k \in Assignments \cup {None}, \A i \in Ids : lab.retired[i] # a
    PROVE  /\ LineageFits(Staged(a, k))
           /\ Orphans(Staged(a, k)) \subseteq Overwritten
<1> DEFINE c == lab.candidate
           keeps == c \in {None, a}
<1> PICK n : n = Staged(a, k)
  OBVIOUS
<1>0. /\ n.coder = [phase |-> lab.coder.phase, asg |-> a, status |-> "activating",
                    known |-> k, blocked |-> lab.coder.blocked]
      /\ n.candidate = IF keeps THEN c ELSE None
      /\ n.retired = IF keeps THEN lab.retired
                     ELSE [lab.retired EXCEPT ![names[c]] = c]
      /\ n.trials = lab.trials
  BY StagedShape
<1>1. /\ n.coder.asg = a
      /\ n.candidate = IF keeps THEN c ELSE None
      /\ n.retired = IF keeps THEN lab.retired
                     ELSE [lab.retired EXCEPT ![names[c]] = c]
      /\ n.trials = lab.trials
  BY <1>0
<1>2. /\ lab.retired \in [Ids -> Assignments \cup {None}]
      /\ lab.trials \subseteq Assignments
      /\ c \in Assignments \cup {None}
      /\ names \in [Assignments -> Ids \cup {"none"}]
  BY DEF TypeOK, LabState
<1>3. None \notin Assignments
  BY DEF None, Assignments, Reviews
<1>4. \A t \in lab.trials : c = t \/ lab.retired[names[t]] = t
  BY DEF LineageInv
<1>5. c # None => names[c] \in Ids
  BY DEF RouteInv, LineageInv, Known, StillKnown, coder
<1>6. \A t \in lab.trials : names[t] \in Ids
  BY DEF LineageInv, Known, StillKnown
<1>7. LineageFits(n)
  <2>1. CASE keeps
    BY <1>1, <1>2, <2>1 DEF LineageFits
  <2>2. CASE ~keeps
    BY <1>1, <1>2, <1>5, <2>2 DEF LineageFits
  <2> QED
    BY <2>1, <2>2
<1>8. Orphans(n) \subseteq Overwritten
  <2> SUFFICES ASSUME NEW t \in lab.trials, n.candidate # t, n.retired[names[t]] # t
               PROVE  c # None /\ lab.retired[names[c]] = t
    BY <1>1 DEF Orphans, Overwritten
  <2>1. ~keeps
    BY <1>1, <1>4
  <2>2. t # c
    BY <1>1, <1>2, <1>5, <2>1
  <2>3. names[t] = names[c]
    BY <1>1, <1>2, <1>4, <1>6, <2>1, <2>2
  <2> QED
    BY <1>4, <2>1, <2>2, <2>3
<1> QED
  BY <1>7, <1>8

LEMMA StagingLab ==
    ASSUME TypeOK, TypeOK', RouteInv, LineageInv, PostInv, Kept,
           NEW a \in Assignments, NEW k \in Assignments \cup {None},
           lab' = Staged(a, k), Fits(Staged(a, k)), StillKnown(a),
           a.fix # 0 => a.review \in lab.resolved, AtMost(k, a),
           \A t \in Pending : lab.post[t].about # a
    PROVE  RouteInv' /\ LineageInv' /\ PostInv'
<1> DEFINE c == lab.candidate
           keeps == c \in {None, a}
<1>1. /\ lab'.coder = [phase |-> lab.coder.phase, asg |-> a, status |-> "activating",
                       known |-> k, blocked |-> lab.coder.blocked]
      /\ lab'.candidate = IF keeps THEN c ELSE None
      /\ lab'.retired = IF keeps THEN lab.retired
                        ELSE [lab.retired EXCEPT ![names[c]] = c]
      /\ lab'.approved = lab.approved /\ lab'.resolved = lab.resolved
      /\ lab'.trials = lab.trials /\ lab'.post = lab.post
  BY StagedShape
<1>2. /\ lab'.coder.asg = a /\ lab'.coder.status = "activating" /\ lab'.coder.known = k
      /\ lab'.coder.phase = lab.coder.phase
  BY <1>1
<1>3. /\ lab.retired \in [Ids -> Assignments \cup {None}]
      /\ lab'.retired \in [Ids -> Assignments \cup {None}]
      /\ lab.trials \subseteq Assignments
      /\ c \in Assignments \cup {None}
      /\ \A t \in Assignments : lab.post[t].about \in Assignments \cup {None}
  BY DEF TypeOK, LabState, PostState
<1>0. a # None
  BY DEF None, Assignments, Reviews
<1>4. RouteInv'
  <2>1. \A r \in Reviews : r <= lab'.approved => names'[Approved(r)] \in Ids
    BY <1>1, ApprovedType DEF RouteInv, Kept
  <2>2. /\ \A r \in Reviews : r < lab'.approved => r \in lab'.resolved
        /\ \A r \in lab'.resolved : r <= lab'.approved
    BY <1>1 DEF RouteInv
  <2>3. AtMost(lab'.coder.known, lab'.coder.asg)
    BY <1>2
  <2> QED
    BY <1>0, <1>1, <1>2, <1>3, <2>1, <2>2, <2>3 DEF RouteInv, coder, Known, StillKnown
<1>5. LineageInv'
  <2>1. lab'.candidate # None =>
          lab'.candidate = lab'.coder.asg /\ lab'.candidate.review \in lab'.resolved
    BY <1>1, <1>2 DEF LineageInv
  <2>2. ASSUME NEW i \in Ids, lab'.retired[i] # None
        PROVE  /\ StillKnown(lab'.retired[i]) /\ lab'.retired[i].review \in lab'.resolved
               /\ lab'.retired[i] # lab'.coder.asg
    <3>1. lab'.retired[i] = lab.retired[i] \/ (lab'.retired[i] = c /\ c # None)
      BY <1>1, <1>3
    <3>2. lab'.retired[i] # a
      BY <1>1, <1>2, <2>2 DEF Fits, LineageFits
    <3>3. CASE lab'.retired[i] = lab.retired[i]
      <4>1. Known(lab.retired[i]) /\ lab.retired[i].review \in lab.resolved
            /\ lab.retired[i] \in Assignments
        BY <1>3, <2>2, <3>3 DEF LineageInv
      <4>2. StillKnown(lab.retired[i])
        BY <4>1 DEF Kept
      <4> QED
        BY <1>1, <1>2, <3>2, <3>3, <4>1, <4>2 DEF Known, StillKnown
    <3>4. CASE lab'.retired[i] = c /\ c # None
      <4>1. Known(c) /\ c.review \in lab.resolved /\ c \in Assignments
        BY <1>3, <3>4 DEF LineageInv, RouteInv, coder
      <4>2. StillKnown(c)
        BY <4>1 DEF Kept
      <4> QED
        BY <1>1, <1>2, <3>2, <3>4, <4>1, <4>2 DEF Known, StillKnown
    <3> QED
      BY <3>1, <3>3, <3>4
  <2>3. ASSUME NEW t \in lab'.trials
        PROVE  /\ StillKnown(t) /\ t.review \in lab'.resolved
               /\ lab'.candidate = t \/ lab'.retired[names'[t]] = t
    <3>1. t \in lab.trials /\ t \in Assignments /\ Known(t)
      BY <1>1, <1>3, <2>3 DEF LineageInv
    <3>2. StillKnown(t) /\ names'[t] = names[t]
      BY <3>1 DEF Kept
    <3>3. lab'.candidate = t \/ lab'.retired[names[t]] = t
      BY <1>1, <3>1 DEF Fits, Orphans
    <3> QED
      BY <1>1, <3>1, <3>2, <3>3 DEF LineageInv
  <2> QED
    BY <1>2, <2>1, <2>2, <2>3 DEF LineageInv, coder, Applied, Known, StillKnown
<1>6. PostInv'
  <2>1. Pending' = Pending
    BY <1>1 DEF Pending
  <2>2. \A t \in Pending : StillKnown(lab.post[t].about)
    BY <1>3 DEF PostInv, Kept, Pending
  <2>3. \A t \in Pending : ~Present(t)'
    BY <1>1, <1>2 DEF Present, coder
  <2> QED
    BY <1>1, <2>1, <2>2, <2>3 DEF PostInv, Known, StillKnown
<1> QED
  BY <1>4, <1>5, <1>6

-----------------------------------------------------------------------------
(* Steps that leave the Goals as they are.                                 *)

LEMMA TransitionCalls ==
    ASSUME TypeOK, NEW new, Transition(new, call), NEW g \in Calls
    PROVE  call'[g] = [call[g] EXCEPT !.fresh = FALSE]
  BY DEF Transition, Stale

LEMMA TransitionEnds ==
    ASSUME TypeOK, NEW new, NEW h \in Calls, Transition(new, Ended(h)), NEW g \in Calls
    PROVE  call'[g] \in {NoCall, [call[g] EXCEPT !.fresh = FALSE]}
<1>1. CASE g = h
  BY <1>1 DEF Transition, Stale, Ended, TypeOK, NoCall
<1>2. CASE g # h
  BY <1>2 DEF Transition, Stale, Ended, TypeOK
<1> QED
  BY <1>1, <1>2

LEMMA EndedCalls ==
    ASSUME TypeOK, NEW h \in Calls, call' = Ended(h), NEW g \in Calls
    PROVE  call'[g] \in {NoCall, call[g]}
  BY DEF Ended, TypeOK

(* A call that installs nothing. *)
Harmless(c) ==
    c.kind \in {"submit", "launch"} /\ c.at = "capture" /\ ~c.fresh /\ c.asg # None

LEMMA StaleCallInv ==
    ASSUME TypeOK, TypeOK', GoalInv, NEW g \in Calls,
           call'[g] \in {NoCall, [call[g] EXCEPT !.fresh = FALSE]} \/ Harmless(call'[g]),
           goal' = goal, AtMost(lab.coder.asg, lab'.coder.asg)
    PROVE  CallInv(call[g])'
<1>1. /\ call[g] \in CallState /\ call'[g] \in CallState
      /\ lab.coder.asg \in Assignments \cup {None}
      /\ lab'.coder.asg \in Assignments \cup {None}
  BY DEF TypeOK, LabState, CoderState
<1>2. CallInv(call[g])
  BY DEF GoalInv
<1>3. CASE call'[g] = NoCall
  BY <1>3 DEF NoCall, CallInv
<1>4. CASE call'[g] = [call[g] EXCEPT !.fresh = FALSE]
  <2>1. /\ call'[g].kind = call[g].kind /\ call'[g].at = call[g].at
        /\ call'[g].asg = call[g].asg /\ call'[g].exp = call[g].exp
        /\ call'[g].fresh = FALSE
    BY <1>1, <1>4 DEF CallState
  <2>2. call[g].asg \in Assignments \cup {None}
    BY <1>1 DEF CallState
  <2>3. AtMost(call[g].asg, lab.coder.asg) => AtMost(call[g].asg, lab'.coder.asg)
    BY <1>1, <2>2, AtMostTrans
  <2> QED
    BY <1>2, <2>1, <2>3 DEF CallInv, coder
<1>5. CASE Harmless(call'[g])
  BY <1>5 DEF Harmless, CallInv
<1> QED
  BY <1>3, <1>4, <1>5

LEMMA GoalFrame ==
    ASSUME TypeOK, TypeOK', GoalInv,
           goal' = goal, saved' = saved, start' = start,
           lab'.coder.asg = lab.coder.asg, lab'.coder.status = lab.coder.status,
           \A g \in Calls :
              \/ call'[g] \in {NoCall, call[g], [call[g] EXCEPT !.fresh = FALSE]}
              \/ Harmless(call'[g])
    PROVE  GoalInv'
<1>1. AppliedGoalIsDurable' /\ StartInv'
  BY DEF GoalInv, AppliedGoalIsDurable, StartInv, Applied, coder
<1>2. ASSUME NEW g \in Calls
      PROVE  CallInv(call[g])'
  <2>1. CallInv(call[g])
    BY DEF GoalInv
  <2>2. CASE call'[g] = call[g]
    BY <2>1, <2>2 DEF CallInv, coder
  <2>3. CASE call'[g] # call[g]
    BY <2>3, StaleCallInv DEF AtMost
  <2> QED
    BY <2>2, <2>3
<1> QED
  BY <1>1, <1>2 DEF GoalInv

(* A commit that follows its install in the same revision. *)
LEMMA GoalCommit ==
    ASSUME TypeOK, TypeOK', GoalInv, NEW h \in Calls, NEW new,
           call[h].at = "commit", call[h].fresh, QueueFree,
           Transition(new, Ended(h)), goal' = goal, saved' = saved, start' = start,
           lab'.coder.asg = lab.coder.asg
    PROVE  GoalInv'
<1>1. CallInv(call[h])
  BY DEF GoalInv
<1>2. AppliedGoalIsDurable' /\ StartInv'
  BY <1>1 DEF CallInv, AppliedGoalIsDurable, StartInv, QueueFree, coder
<1>3. ASSUME NEW g \in Calls
      PROVE  CallInv(call[g])'
  BY TransitionEnds, StaleCallInv DEF AtMost
<1> QED
  BY <1>2, <1>3 DEF GoalInv

(* The Assignment is staged. *)
LEMMA StagingGoal ==
    ASSUME TypeOK, TypeOK', GoalInv, NEW h \in Calls, NEW kind \in {"approve", "fix"},
           NEW a \in Assignments, NEW k \in Assignments \cup {None},
           Stage(h, kind, a, k), QueueFree, goal' = goal, saved' = saved, start' = start,
           AtMost(coder.asg, a), AtMost(coder.known, a)
    PROVE  GoalInv'
<1>1. lab'.coder = [phase |-> lab.coder.phase, asg |-> a, status |-> "activating",
                    known |-> k, blocked |-> lab.coder.blocked]
  BY StagedShape DEF Stage
<1>2. lab'.coder.asg = a /\ lab'.coder.status = "activating"
  BY <1>1
<1>3. AppliedGoalIsDurable' /\ StartInv'
  BY <1>2 DEF AppliedGoalIsDurable, StartInv, QueueFree, Applied, coder
<1>4. ASSUME NEW g \in Calls
      PROVE  CallInv(call[g])'
  <2>1. CASE g = h
    <3>1. call'[h] = [kind |-> kind, at |-> "install", asg |-> a, exp |-> coder.known,
                      fresh |-> TRUE]
      BY DEF Stage, Stale, TypeOK
    <3>2. a # None
      BY DEF None, Assignments, Reviews
    <3>3. AtMost(a, a)
      BY DEF AtMost
    <3> QED
      BY <1>2, <2>1, <3>1, <3>2, <3>3 DEF CallInv, QueueFree, coder
  <2>2. CASE g # h
    <3>1. call'[g] = [call[g] EXCEPT !.fresh = FALSE]
      BY <2>2 DEF Stage, Stale, TypeOK
    <3> QED
      BY <1>2, <3>1, StaleCallInv DEF coder
  <2> QED
    BY <2>1, <2>2
<1> QED
  BY <1>3, <1>4 DEF GoalInv

-----------------------------------------------------------------------------
(* The steps of the calls.                                                 *)

(* An APPROVED review that is not resolved is the last one: the Coder has   *)
(* nothing newer.                                                          *)
LEMMA LastReview ==
    ASSUME TypeOK, RouteInv, NEW r \in Reviews, r <= lab.approved, r \notin lab.resolved
    PROVE  /\ AtMost(coder.asg, Approved(r)) /\ AtMost(coder.known, Approved(r))
           /\ Approved(r) \in Assignments /\ Approved(r) # None
<1>0. /\ coder.asg \in Assignments \cup {None} /\ coder.known \in Assignments \cup {None}
      /\ lab.approved \in Nat
      /\ Approved(r) \in Assignments
  BY ApprovedType, LineageAssumption DEF TypeOK, LabState, CoderState, coder
<1>1. r = lab.approved
  BY <1>0 DEF RouteInv, Reviews
<1>2. Approved(r).review = r /\ Approved(r).fix = 0
  BY DEF Approved
<1>3. AtMost(coder.asg, Approved(r))
  <2>1. CASE coder.asg = None
    BY <1>2, <2>1 DEF AtMost, None, Reviews
  <2>2. CASE coder.asg # None
    <3>1. coder.asg.review \in 1..r
      BY <1>1, <2>2 DEF RouteInv, Known
    <3>2. coder.asg.fix # 0 => coder.asg.review # r
      BY DEF RouteInv
    <3> QED
      BY <1>0, <1>2, <3>1, <3>2 DEF AtMost, Reviews
  <2> QED
    BY <2>1, <2>2
<1>4. AtMost(coder.known, Approved(r))
  BY <1>0, <1>3, AtMostTrans DEF RouteInv
<1>5. Approved(r) # None
  BY <1>2 DEF None, Reviews
<1> QED
  BY <1>0, <1>3, <1>4, <1>5

LEMMA ApprovedStaged ==
    ASSUME TypeOK, TypeOK', RouteInv, LineageInv, PostInv, GoalInv, Kept,
           NEW h \in Calls, NEW r \in Reviews, StageApproved(h, r)
    PROVE  RouteInv' /\ LineageInv' /\ PostInv' /\ GoalInv'
<1>0. coder.known \in Assignments \cup {None} /\ lab.approved \in Nat
  BY LineageAssumption DEF TypeOK, LabState, CoderState, coder
<1>1. r <= lab.approved /\ r \notin lab.resolved /\ QueueFree
  BY <1>0 DEF StageApproved, MayApply, Reviews
<1> PICK a \in Assignments : a = Approved(r)
  BY ApprovedType
<1>2. a.review = r /\ a.fix = 0 /\ AtMost(coder.asg, a) /\ AtMost(coder.known, a)
  BY <1>1, LastReview DEF Approved
<1>3. /\ Fits(Staged(a, coder.known)) /\ Stage(h, "approve", a, coder.known)
      /\ names' = names /\ goal' = goal /\ saved' = saved /\ start' = start
  BY DEF StageApproved
<1>4. StillKnown(a)
  <2>1. lab' = Staged(a, coder.known)
    BY <1>3 DEF Stage
  <2>2. Staged(a, coder.known).approved = lab.approved
    BY <1>0, StagedShape
  <2>3. names[a] \in Ids
    BY <1>1 DEF RouteInv
  <2>4. files'[a] # "none"
    BY <1>3 DEF Stage, Aged
  <2> QED
    BY <1>0, <1>1, <1>2, <1>3, <2>1, <2>2, <2>3, <2>4 DEF StillKnown, Reviews
<1>5. \A t \in Pending : lab.post[t].about # a
  BY <1>1, <1>2 DEF PostInv
<1>6. lab' = Staged(a, coder.known)
  BY <1>3 DEF Stage
<1>7. RouteInv' /\ LineageInv' /\ PostInv'
  BY <1>0, <1>2, <1>3, <1>4, <1>5, <1>6, StagingLab
<1>8. GoalInv'
  BY <1>0, <1>1, <1>2, <1>3, StagingGoal
<1> QED
  BY <1>7, <1>8

LEMMA FixStaged ==
    ASSUME TypeOK, TypeOK', RouteInv, LineageInv, PostInv, GoalInv, Kept,
           NEW h \in Calls, NEW r \in Reviews, NEW k \in 1..MaxFixes, NEW i \in Ids,
           StageFix(h, r, k, i)
    PROVE  RouteInv' /\ LineageInv' /\ PostInv' /\ GoalInv'
<1> PICK a \in Assignments : Fixes(a, h, r, i)
  BY FixShape
<1>0. /\ None \in Assignments \cup {None} /\ lab.approved \in Nat
      /\ coder.asg \in Assignments \cup {None} /\ coder.known \in Assignments \cup {None}
  BY LineageAssumption DEF TypeOK, LabState, CoderState, coder
<1>1. /\ a.review = r /\ a.fix # 0 /\ files[a] = "none" /\ MayFix(r)
      /\ goal' = goal /\ saved' = saved /\ start' = start /\ names' = [names EXCEPT ![a] = i]
  BY DEF Fixes
<1>2. r \in lab.resolved /\ QueueFree /\ lab.candidate = Approved(r) /\ Approved(r) # None
  BY <1>1 DEF MayFix, Captured
<1>3. r <= lab.approved
  BY <1>2 DEF RouteInv
<1>4. CASE files' = [files EXCEPT ![a] = "now"] /\ UNCHANGED <<lab, call>>
  <2>1. RouteInv' /\ LineageInv' /\ PostInv'
    BY <1>4, LabFrame
  <2>2. GoalInv'
    BY <1>1, <1>4, GoalFrame
  <2> QED
    BY <2>1, <2>2
<1>5. CASE Fits(Staged(a, None)) /\ Stage(h, "fix", a, None)
  <2>1. lab' = Staged(a, None) /\ Staged(a, None).approved = lab.approved
    BY <1>0, <1>5, StagedShape DEF Stage
  <2>2. StillKnown(a)
    <3>1. names'[a] \in Ids
      BY <1>1 DEF TypeOK
    <3>2. files'[a] # "none"
      BY <1>5 DEF Stage, Aged
    <3> QED
      BY <1>0, <1>1, <1>3, <2>1, <3>1, <3>2 DEF StillKnown, Reviews
  <2>3. \A t \in Pending : lab.post[t].about # a
    BY <1>1 DEF PostInv, Known
  <2>4. coder.asg = Approved(r)
    BY <1>2 DEF LineageInv
  <2>5. AtMost(coder.asg, a) /\ AtMost(None, a)
    BY <1>1, <2>4 DEF AtMost, Approved, None, Reviews
  <2>6. AtMost(coder.known, a)
    BY <1>0, <2>5, AtMostTrans DEF RouteInv
  <2>7. RouteInv' /\ LineageInv' /\ PostInv'
    BY <1>0, <1>1, <1>2, <1>5, <2>1, <2>2, <2>3, <2>5, StagingLab
  <2>8. GoalInv'
    BY <1>0, <1>1, <1>2, <1>5, <2>5, <2>6, StagingGoal
  <2> QED
    BY <2>7, <2>8
<1> QED
  BY <1>4, <1>5 DEF Fixes

(* What it finds it may replace is its own Goal or not the Coder's.        *)
LEMMA InstallGoal ==
    ASSUME TypeOK, TypeOK', RouteInv, GoalInv, NEW h \in Calls, Install(h)
    PROVE  GoalInv'
<1>1. CallInv(call[h]) /\ call[h] \in CallState
  BY DEF GoalInv, TypeOK
<1>2. CASE ~Installable(call[h].asg, call[h].exp)
  BY <1>2, EndedCalls, GoalFrame DEF Install
<1>3. CASE Installable(call[h].asg, call[h].exp)
  <2> DEFINE a == call[h].asg
  <2>1. /\ a \in Assignments /\ AtMost(a, coder.asg) /\ AtMost(call[h].exp, a)
        /\ call[h].exp \in Assignments \cup {None}
        /\ goal \in {None, a, call[h].exp}
        /\ coder.asg \in Assignments \cup {None}
    BY <1>1, <1>3 DEF Install, CallInv, CallState, Installable, TypeOK, LabState, CoderState, coder
  <2>2. coder.asg # None
    BY <2>1 DEF AtMost, None, Assignments, Reviews
  <2>3. goal = coder.asg => goal' = goal
    BY <1>3, <2>1, <2>2, NeverReplaced DEF Install
  <2>4. /\ goal' = a /\ call' = [call EXCEPT ![h].at = "flush"] /\ saved' = saved
        /\ start' = start /\ lab' = lab /\ start # "flush"
        /\ \A g \in Calls : call[g].at # "flush"
    BY <1>3 DEF Install, Idle
  <2>5. AppliedGoalIsDurable' /\ StartInv'
    BY <2>3, <2>4 DEF GoalInv, AppliedGoalIsDurable, StartInv, Applied, coder
  <2>6. ASSUME NEW g \in Calls
        PROVE  CallInv(call[g])'
    <3>1. CASE g = h
      <4>1. call'[h] = [call[h] EXCEPT !.at = "flush"] /\ call[h].at = "install"
        BY <1>3, <2>4 DEF TypeOK, Install
      <4>2. /\ call'[h].kind = call[h].kind /\ call'[h].at = "flush" /\ call'[h].asg = a
            /\ call'[h].exp = call[h].exp /\ call'[h].fresh = call[h].fresh
        BY <1>1, <4>1 DEF CallState
      <4> QED
        BY <1>1, <2>4, <3>1, <4>1, <4>2 DEF CallInv, coder
    <3>2. CASE g # h
      <4>1. call'[g] = call[g] /\ CallInv(call[g])
        BY <2>4, <3>2 DEF TypeOK, GoalInv
      <4> QED
        BY <2>3, <2>4, <4>1 DEF CallInv, coder
    <3> QED
      BY <3>1, <3>2
  <2> QED
    BY <2>5, <2>6 DEF GoalInv
<1> QED
  BY <1>2, <1>3

LEMMA FlushGoal ==
    ASSUME TypeOK, TypeOK', GoalInv, NEW h \in Calls, Flush(h)
    PROVE  GoalInv'
<1>1. CallInv(call[h]) /\ call[h] \in CallState
  BY DEF GoalInv, TypeOK
<1>2. /\ goal' = goal /\ saved' = goal /\ start' = start /\ lab' = lab
      /\ call[h].at = "flush" /\ call' = [call EXCEPT ![h].at = "commit"]
  BY DEF Flush
<1>3. AppliedGoalIsDurable' /\ StartInv'
  BY <1>2 DEF GoalInv, AppliedGoalIsDurable, StartInv, Applied, coder
<1>4. ASSUME NEW g \in Calls
      PROVE  CallInv(call[g])'
  <2>1. CASE g = h
    <3>1. call'[h] = [call[h] EXCEPT !.at = "commit"]
      BY <1>2 DEF TypeOK
    <3>2. /\ call'[h].kind = call[h].kind /\ call'[h].at = "commit"
          /\ call'[h].asg = call[h].asg
          /\ call'[h].exp = call[h].exp /\ call'[h].fresh = call[h].fresh
      BY <1>1, <3>1 DEF CallState
    <3> QED
      BY <1>1, <1>2, <2>1, <3>2 DEF CallInv, coder
  <2>2. CASE g # h
    <3>1. call'[g] = call[g] /\ CallInv(call[g])
      BY <1>2, <2>2 DEF TypeOK, GoalInv
    <3> QED
      BY <1>2, <3>1 DEF CallInv, coder
  <2> QED
    BY <2>1, <2>2
<1> QED
  BY <1>3, <1>4 DEF GoalInv

LEMMA ApprovedCommitted ==
    ASSUME TypeOK, TypeOK', RouteInv, LineageInv, PostInv, GoalInv, Kept,
           NEW h \in Calls, CommitApproved(h)
    PROVE  RouteInv' /\ LineageInv' /\ PostInv' /\ GoalInv'
<1>1. CASE ~call[h].fresh
  <2>1. lab' = lab /\ goal' = goal /\ saved' = saved /\ start' = start /\ call' = Ended(h)
    BY <1>1 DEF CommitApproved
  <2> QED
    BY <2>1, LabFrame, EndedCalls, GoalFrame
<1>2. CASE call[h].fresh
  <2> DEFINE a == lab.coder.asg
             done == [Working(lab.coder) EXCEPT !.blocked = FALSE]
             new == [lab EXCEPT !.coder = done, !.resolved = @ \cup {call[h].asg.review}]
  <2>1. /\ Transition(new, Ended(h))
        /\ goal' = goal /\ saved' = saved /\ start' = start
        /\ call[h].at = "commit" /\ QueueFree
    BY <1>2 DEF CommitApproved
  <2>2. /\ call[h].asg = a /\ lab.coder.status = "activating" /\ a # None
    BY <1>2 DEF CommitApproved, GoalInv, CallInv, coder
  <2>3. lab.coder \in CoderState /\ lab \in LabState
    BY DEF TypeOK, LabState
  <2>4. lab' = new
    BY <2>1 DEF Transition
  <2>5. /\ lab'.coder = done /\ lab'.resolved = lab.resolved \cup {a.review}
        /\ lab'.approved = lab.approved /\ lab'.candidate = lab.candidate
        /\ lab'.retired = lab.retired /\ lab'.trials = lab.trials /\ lab'.post = lab.post
    BY <2>2, <2>3, <2>4 DEF LabState
  <2>6. /\ done.asg = a /\ done.known = a /\ done.status = "applied" /\ done.phase = "working"
    BY <2>3 DEF CoderState, Working
  <2> HIDE DEF done, new
  <2>7. a \in Assignments \cup {None} /\ a.review \in 1..lab.approved /\ lab.approved \in Nat
    BY <2>2, <2>3, LineageAssumption DEF CoderState, RouteInv, Known, coder, LabState
  <2>8. RouteInv'
    <3>1. \A r \in Reviews : r <= lab'.approved => names'[Approved(r)] \in Ids
      BY <2>5, ApprovedType DEF RouteInv, Kept
    <3>2. /\ \A r \in Reviews : r < lab'.approved => r \in lab'.resolved
          /\ \A r \in lab'.resolved : r <= lab'.approved
      BY <2>5, <2>7 DEF RouteInv
    <3>3. StillKnown(a)
      BY <2>2, <2>7 DEF RouteInv, Kept, coder
    <3>4. AtMost(lab'.coder.known, lab'.coder.asg)
      BY <2>5, <2>6 DEF AtMost
    <3> QED
      BY <2>2, <2>5, <2>6, <3>1, <3>2, <3>3, <3>4 DEF RouteInv, coder, Known, StillKnown
  <2>9. LineageInv'
    BY <2>5, <2>6, LineageFrame
  <2>10. PostInv'
    BY <2>2, <2>5, <2>6, PostFrame
  <2>11. GoalInv'
    BY <1>2, <2>1, <2>5, <2>6, GoalCommit
  <2> QED
    BY <2>8, <2>9, <2>10, <2>11
<1> QED
  BY <1>1, <1>2

LEMMA FixCommitted ==
    ASSUME TypeOK, TypeOK', RouteInv, LineageInv, PostInv, GoalInv, Kept,
           NEW h \in Calls, CommitFix(h)
    PROVE  RouteInv' /\ LineageInv' /\ PostInv' /\ GoalInv'
<1>1. CASE ~call[h].fresh
  <2>1. lab' = lab /\ goal' = goal /\ saved' = saved /\ start' = start /\ call' = Ended(h)
    BY <1>1 DEF CommitFix
  <2> QED
    BY <2>1, LabFrame, EndedCalls, GoalFrame
<1>2. CASE call[h].fresh
  <2> DEFINE a == lab.coder.asg
             done == Working(lab.coder)
             new == [lab EXCEPT !.coder = done]
  <2>1. /\ Transition(new, Ended(h))
        /\ goal' = goal /\ saved' = saved /\ start' = start
        /\ call[h].at = "commit" /\ QueueFree
    BY <1>2 DEF CommitFix
  <2>2. lab.coder.status = "activating"
    BY <1>2 DEF CommitFix, GoalInv, CallInv, coder
  <2>3. lab.coder \in CoderState /\ lab \in LabState
    BY DEF TypeOK, LabState
  <2>4. lab' = new
    BY <2>1 DEF Transition
  <2>5. /\ lab'.coder = done /\ lab'.resolved = lab.resolved
        /\ lab'.approved = lab.approved /\ lab'.candidate = lab.candidate
        /\ lab'.retired = lab.retired /\ lab'.trials = lab.trials /\ lab'.post = lab.post
    BY <2>3, <2>4 DEF LabState
  <2>6. /\ done.asg = a /\ done.known = a /\ done.status = "applied" /\ done.phase = "working"
    BY <2>3 DEF CoderState, Working
  <2> HIDE DEF done, new
  <2>7. RouteInv'
    BY <2>2, <2>5, <2>6, RouteFrame
  <2>8. LineageInv'
    BY <2>5, <2>6, LineageFrame
  <2>9. PostInv'
    BY <2>2, <2>5, <2>6, PostFrame
  <2>10. GoalInv'
    BY <1>2, <2>1, <2>5, <2>6, GoalCommit
  <2> QED
    BY <2>7, <2>8, <2>9, <2>10
<1> QED
  BY <1>1, <1>2

LEMMA CandidateCommitted ==
    ASSUME TypeOK, TypeOK', RouteInv, LineageInv, PostInv, GoalInv, Kept,
           NEW h \in Calls, CommitCandidate(h)
    PROVE  RouteInv' /\ LineageInv' /\ PostInv' /\ GoalInv'
<1>1. CASE ~SameAssignment(h)
  <2>1. lab' = lab /\ goal' = goal /\ saved' = saved /\ start' = start /\ call' = Ended(h)
    BY <1>1 DEF CommitCandidate
  <2> QED
    BY <2>1, LabFrame, EndedCalls, GoalFrame
<1>2. CASE SameAssignment(h)
  <2> DEFINE a == lab.coder.asg
             new == [lab EXCEPT !.coder.phase = "paused", !.candidate = call[h].asg]
  <2>1. /\ Transition(new, Ended(h))
        /\ goal' = goal /\ saved' = saved /\ start' = start
    BY <1>2 DEF CommitCandidate
  <2>2. /\ call[h].asg = a /\ lab.candidate = None /\ lab.coder.phase = "working"
        /\ a.review \in lab.resolved /\ lab.coder.status = "applied"
    BY <1>2 DEF SameAssignment, OwnsGoal, Applied, Routed, coder
  <2>3. lab.coder \in CoderState /\ lab \in LabState
    BY DEF TypeOK, LabState
  <2>4. lab' = new
    BY <2>1 DEF Transition
  <2>5. /\ lab'.coder = [lab.coder EXCEPT !.phase = "paused"] /\ lab'.resolved = lab.resolved
        /\ lab'.approved = lab.approved /\ lab'.candidate = a
        /\ lab'.retired = lab.retired /\ lab'.trials = lab.trials /\ lab'.post = lab.post
    BY <2>2, <2>3, <2>4 DEF LabState
  <2>6. /\ lab'.coder.asg = a /\ lab'.coder.known = lab.coder.known
        /\ lab'.coder.status = lab.coder.status
    BY <2>3, <2>5 DEF CoderState
  <2> HIDE DEF new
  <2>7. RouteInv'
    BY <2>5, <2>6, RouteFrame
  <2>8. LineageInv'
    <3>1. /\ lab.retired \in [Ids -> Assignments \cup {None}]
          /\ lab.trials \subseteq Assignments /\ None \notin Assignments
      BY <2>3 DEF LabState, None, Assignments, Reviews
    <3>2. \A i \in Ids : lab'.retired[i] # None =>
            /\ StillKnown(lab.retired[i]) /\ lab.retired[i].review \in lab.resolved
            /\ lab.retired[i] # a
      BY <2>5, <3>1 DEF LineageInv, Kept, coder
    <3>3. \A t \in lab'.trials : /\ StillKnown(t) /\ t.review \in lab.resolved
                                 /\ lab.retired[names'[t]] = t
      BY <2>2, <2>5, <3>1 DEF LineageInv, Kept
    <3> QED
      BY <2>2, <2>5, <2>6, <3>2, <3>3 DEF LineageInv, coder, Known, StillKnown
  <2>9. PostInv'
    BY <2>2, <2>5, <2>6, PostFrame
  <2>10. GoalInv'
    BY <2>1, <2>6, TransitionEnds, GoalFrame
  <2> QED
    BY <2>7, <2>8, <2>9, <2>10
<1> QED
  BY <1>1, <1>2

LEMMA TrialCommitted ==
    ASSUME TypeOK, TypeOK', RouteInv, LineageInv, PostInv, GoalInv, Kept,
           NEW h \in Calls, CommitTrial(h)
    PROVE  RouteInv' /\ LineageInv' /\ PostInv' /\ GoalInv'
<1>1. CASE ~SameCandidate(h)
  <2>1. lab' = lab /\ goal' = goal /\ saved' = saved /\ start' = start /\ call' = Ended(h)
    BY <1>1 DEF CommitTrial
  <2> QED
    BY <2>1, LabFrame, EndedCalls, GoalFrame
<1>2. CASE SameCandidate(h)
  <2> DEFINE c == lab.candidate
             new == [lab EXCEPT !.trials = @ \cup {call[h].asg}]
  <2>1. /\ Transition(new, Ended(h))
        /\ goal' = goal /\ saved' = saved /\ start' = start
    BY <1>2 DEF CommitTrial
  <2>2. call[h].asg = c /\ c # None
    BY <1>2 DEF SameCandidate, CommitTrial, GoalInv, CallInv
  <2>3. lab \in LabState
    BY DEF TypeOK
  <2>4. lab' = new
    BY <2>1 DEF Transition
  <2>5. /\ lab'.coder = lab.coder /\ lab'.resolved = lab.resolved
        /\ lab'.approved = lab.approved /\ lab'.candidate = c
        /\ lab'.retired = lab.retired /\ lab'.trials = lab.trials \cup {c}
        /\ lab'.post = lab.post
    BY <2>2, <2>3, <2>4 DEF LabState
  <2> HIDE DEF new
  <2>6. RouteInv'
    BY <2>5, RouteFrame
  <2>7. LineageInv'
    <3>1. /\ lab.retired \in [Ids -> Assignments \cup {None}]
          /\ lab.trials \subseteq Assignments /\ c \in Assignments
      BY <2>2, <2>3 DEF LabState
    <3>2. \A i \in Ids : lab'.retired[i] # None =>
            /\ StillKnown(lab.retired[i]) /\ lab.retired[i].review \in lab.resolved
            /\ lab.retired[i] # lab.coder.asg
      BY <2>5, <3>1 DEF LineageInv, Kept, coder
    <3>3. StillKnown(c) /\ c.review \in lab.resolved /\ c = lab.coder.asg
      BY <2>2, <3>1 DEF LineageInv, RouteInv, Kept, coder
    <3>4. \A t \in lab.trials : /\ StillKnown(t) /\ t.review \in lab.resolved
                                /\ c = t \/ lab.retired[names'[t]] = t
      BY <3>1 DEF LineageInv, Kept
    <3> QED
      BY <2>5, <3>2, <3>3, <3>4 DEF LineageInv, coder, Known, StillKnown, Applied
  <2>8. PostInv'
    BY <2>5, PostFrame
  <2>9. GoalInv'
    BY <2>1, <2>5, TransitionEnds, GoalFrame
  <2> QED
    BY <2>6, <2>7, <2>8, <2>9
<1> QED
  BY <1>1, <1>2

LEMMA CallStepSafe ==
    ASSUME TypeOK, TypeOK', RouteInv, LineageInv, PostInv, GoalInv,
           NEW h \in Calls, CallStep(h)
    PROVE  RouteInv' /\ LineageInv' /\ PostInv' /\ GoalInv'
<1>0. Kept
  BY CallKeeps
<1>1. CASE \E r \in Reviews : StageApproved(h, r)
  BY <1>0, <1>1, ApprovedStaged
<1>2. CASE \E r \in Reviews, k \in 1..MaxFixes, i \in Ids : StageFix(h, r, k, i)
  BY <1>0, <1>2, FixStaged
<1>3. CASE Install(h)
  <2>1. lab' = lab
    BY <1>3 DEF Install
  <2> QED
    BY <1>0, <1>3, <2>1, LabFrame, InstallGoal
<1>4. CASE Flush(h)
  <2>1. lab' = lab
    BY <1>4 DEF Flush
  <2> QED
    BY <1>0, <1>4, <2>1, LabFrame, FlushGoal
<1>5. CASE CommitApproved(h)
  BY <1>0, <1>5, ApprovedCommitted
<1>6. CASE CommitFix(h)
  BY <1>0, <1>6, FixCommitted
<1>7. CASE Abort(h)
  <2>1. lab' = lab /\ goal' = goal /\ saved' = saved /\ start' = start /\ call' = Ended(h)
    BY <1>7 DEF Abort
  <2> QED
    BY <1>0, <2>1, LabFrame, EndedCalls, GoalFrame
<1>8. CASE Submit(h) \/ Launch(h)
  <2>1. lab' = lab /\ goal' = goal /\ saved' = saved /\ start' = start
    BY <1>8 DEF Submit, Launch
  <2>2. \E kind \in {"submit", "launch"}, a \in Assignments \cup {None} :
          a # None /\ Outside(h, kind, a)
    <3>1. coder.asg \in Assignments \cup {None} /\ lab.candidate \in Assignments \cup {None}
      BY DEF TypeOK, LabState, CoderState, coder
    <3>2. OwnsGoal => coder.asg # None
      BY DEF OwnsGoal, Applied, RouteInv
    <3> QED
      BY <1>8, <3>1, <3>2 DEF Submit, Launch
  <2>3. \A g \in Calls : call'[g] = call[g] \/ Harmless(call'[g])
    BY <2>2 DEF Outside, Harmless, TypeOK
  <2> QED
    BY <1>0, <2>1, <2>3, LabFrame, GoalFrame
<1>9. CASE CommitCandidate(h)
  BY <1>0, <1>9, CandidateCommitted
<1>10. CASE CommitTrial(h)
  BY <1>0, <1>10, TrialCommitted
<1> QED
  BY <1>1, <1>2, <1>3, <1>4, <1>5, <1>6, <1>7, <1>8, <1>9, <1>10 DEF CallStep

-----------------------------------------------------------------------------
(* The steps of the Lab.                                                   *)

LEMMA ApproveSafe ==
    ASSUME TypeOK, TypeOK', RouteInv, LineageInv, PostInv, GoalInv, Kept, Approve
    PROVE  RouteInv' /\ LineageInv' /\ PostInv' /\ GoalInv'
<1> DEFINE n == lab.approved + 1
           new == [lab EXCEPT !.approved = @ + 1]
<1>1. /\ Transition(new, call)
      /\ goal' = goal /\ saved' = saved /\ start' = start
      /\ lab.approved < MaxReviews /\ lab.approved \in lab.resolved \cup {0}
  BY DEF Approve
<1>2. lab \in LabState /\ lab.approved \in Nat /\ n \in Reviews
  BY <1>1, LineageAssumption DEF TypeOK, LabState, Reviews
<1>3. lab' = new
  BY <1>1 DEF Transition
<1>4. /\ lab'.coder = lab.coder /\ lab'.resolved = lab.resolved
      /\ lab'.approved = n /\ lab'.candidate = lab.candidate
      /\ lab'.retired = lab.retired /\ lab'.trials = lab.trials /\ lab'.post = lab.post
  BY <1>2, <1>3 DEF LabState
<1> HIDE DEF new
<1>5. RouteInv'
  <2>1. names'[Approved(n)] \in Ids
    BY <1>2, ApprovedType DEF Approve, TypeOK
  <2>2. \A r \in Reviews : r <= lab'.approved => names'[Approved(r)] \in Ids
    <3> SUFFICES ASSUME NEW r \in Reviews, r <= lab'.approved
                 PROVE  names'[Approved(r)] \in Ids
      OBVIOUS
    <3>1. CASE r = n
      BY <2>1, <3>1
    <3>2. CASE r # n
      <4>1. r <= lab.approved
        BY <1>2, <1>4, <3>2 DEF Reviews
      <4> QED
        BY <4>1, ApprovedType DEF RouteInv, Kept
    <3> QED
      BY <3>1, <3>2
  <2>3. \A r \in Reviews : r < lab'.approved => r \in lab'.resolved
    BY <1>1, <1>2, <1>4 DEF RouteInv, Reviews
  <2>4. \A r \in lab'.resolved : r <= lab'.approved
    BY <1>2, <1>4 DEF RouteInv, LabState, Reviews
  <2>5. lab.coder.asg # None => StillKnown(lab.coder.asg)
    BY <1>2 DEF RouteInv, Kept, LabState, CoderState, coder
  <2> QED
    BY <1>4, <2>2, <2>3, <2>4, <2>5 DEF RouteInv, coder, Known, StillKnown
<1>6. LineageInv'
  BY <1>4, LineageFrame
<1>7. PostInv'
  BY <1>4, PostFrame
<1>8. GoalInv'
  BY <1>1, <1>4, TransitionCalls, GoalFrame
<1> QED
  BY <1>5, <1>6, <1>7, <1>8

LEMMA PostflightRequested ==
    ASSUME TypeOK, TypeOK', RouteInv, LineageInv, PostInv, GoalInv, Kept,
           NEW t \in Assignments, RequestPostflight(t)
    PROVE  RouteInv' /\ LineageInv' /\ PostInv' /\ GoalInv'
<1> DEFINE a == lab.coder.asg
           asked == [state |-> "pending", freeze |-> "asked", about |-> a]
           new == [lab EXCEPT !.coder.phase = "reviewing",
                              !.post[t] = [state |-> "pending", freeze |-> "asked",
                                           about |-> coder.asg]]
<1>1. /\ Transition(new, call)
      /\ goal' = goal /\ saved' = saved /\ start' = start
      /\ lab.coder.phase = "paused" /\ ~lab.coder.blocked /\ lab.coder.status = "applied"
  BY DEF RequestPostflight, Reviewable, OwnsGoal, Applied, coder
<1>2. lab.coder \in CoderState /\ lab \in LabState /\ lab.post \in [Assignments -> PostState]
  BY DEF TypeOK, LabState
<1>3. lab' = new
  BY <1>1 DEF Transition
<1>4. /\ lab'.coder = [lab.coder EXCEPT !.phase = "reviewing"] /\ lab'.resolved = lab.resolved
      /\ lab'.approved = lab.approved /\ lab'.candidate = lab.candidate
      /\ lab'.retired = lab.retired /\ lab'.trials = lab.trials
      /\ lab'.post = [lab.post EXCEPT ![t] = asked]
  BY <1>2, <1>3 DEF LabState, coder
<1>5. /\ lab'.coder.asg = a /\ lab'.coder.known = lab.coder.known
      /\ lab'.coder.status = lab.coder.status /\ lab'.coder.phase = "reviewing"
      /\ lab'.coder.blocked = lab.coder.blocked
  BY <1>2, <1>4 DEF CoderState
<1> HIDE DEF new
<1>6. RouteInv'
  BY <1>4, <1>5, RouteFrame
<1>7. LineageInv'
  BY <1>1, <1>4, <1>5, LineageFrame
<1>8. PostInv'
  <2>1. a # None /\ a \in Assignments /\ a.review \in lab.resolved /\ StillKnown(a)
    <3>1. a # None /\ a \in Assignments \cup {None}
      BY <1>1, <1>2 DEF RouteInv, CoderState, coder
    <3>2. lab.candidate = a
      BY <1>1 DEF LineageInv, Applied, coder
    <3> QED
      BY <3>1, <3>2 DEF LineageInv, RouteInv, Kept, coder
  <2>2. lab'.post[t] = asked /\ \A u \in Assignments : u # t => lab'.post[u] = lab.post[u]
    BY <1>2, <1>4
  <2>3. ASSUME NEW u \in Pending', u # t
        PROVE  /\ lab.post[u].about # None /\ StillKnown(lab.post[u].about)
               /\ lab.post[u].about.review \in lab.resolved
               /\ lab.post[u].about # a
    <3>1. u \in Pending /\ lab.post[u].about \in Assignments \cup {None}
      BY <1>2, <2>2, <2>3 DEF Pending, PostState
    <3>2. lab.post[u].about # a
      BY <1>1, <3>1 DEF PostInv, Present, coder
    <3> QED
      BY <3>1, <3>2 DEF PostInv, Kept
  <2>4. Pending' \subseteq Assignments
    BY DEF Pending
  <2> QED
    BY <1>1, <1>4, <1>5, <2>1, <2>2, <2>3, <2>4
    DEF PostInv, coder, Known, StillKnown, Applied, Present
<1>9. GoalInv'
  BY <1>1, <1>5, TransitionCalls, GoalFrame
<1> QED
  BY <1>6, <1>7, <1>8, <1>9

LEMMA CoderFrozen ==
    ASSUME TypeOK, TypeOK', RouteInv, LineageInv, PostInv, GoalInv, Kept,
           NEW t \in Assignments, FreezeCoder(t)
    PROVE  RouteInv' /\ LineageInv' /\ PostInv' /\ GoalInv'
<1> DEFINE f == IF goal = lab.post[t].about THEN "done" ELSE "dead"
           new == [lab EXCEPT !.post[t].freeze = f]
<1>1. /\ Transition(new, call)
      /\ goal' = goal /\ saved' = saved /\ start' = start
  BY DEF FreezeCoder
<1>2. lab \in LabState /\ lab.post \in [Assignments -> PostState]
  BY DEF TypeOK, LabState
<1>3. lab' = new
  BY <1>1 DEF Transition
<1>4. /\ lab'.coder = lab.coder /\ lab'.resolved = lab.resolved
      /\ lab'.approved = lab.approved /\ lab'.candidate = lab.candidate
      /\ lab'.retired = lab.retired /\ lab'.trials = lab.trials
      /\ \A u \in Assignments : lab'.post[u].state = lab.post[u].state
                                /\ lab'.post[u].about = lab.post[u].about
      /\ \A u \in Assignments : u # t => lab'.post[u].freeze = lab.post[u].freeze
      /\ lab'.post[t].freeze = f
  BY <1>2, <1>3 DEF LabState, PostState
<1> HIDE DEF new
<1>5. RouteInv'
  BY <1>4, RouteFrame
<1>6. LineageInv'
  BY <1>4, LineageFrame
<1>7. PostInv'
  <2>1. Pending' = Pending /\ Pending \subseteq Assignments
    BY <1>4 DEF Pending
  <2>2. \A u \in Pending : StillKnown(lab.post[u].about)
    BY <1>2, <2>1 DEF PostInv, Kept, PostState
  <2>3. \A u \in Assignments : Present(u)' = Present(u)
    BY <1>4 DEF Present, coder
  <2>4. \A u \in Pending : Present(u) => lab'.post[u].freeze # "dead"
    <3>1. \A u \in Pending : Present(u) => goal = lab.post[u].about
      BY DEF PostInv, Present, GoalInv, AppliedGoalIsDurable
    <3> QED
      BY <1>4, <2>1, <3>1 DEF PostInv
  <2> QED
    BY <1>4, <2>1, <2>2, <2>3, <2>4 DEF PostInv, coder, Known, StillKnown, Applied
<1>8. GoalInv'
  BY <1>1, <1>4, TransitionCalls, GoalFrame
<1> QED
  BY <1>5, <1>6, <1>7, <1>8

LEMMA ControlRejected ==
    ASSUME TypeOK, TypeOK', RouteInv, LineageInv, PostInv, GoalInv, Kept,
           NEW t \in Assignments, RejectControl(t)
    PROVE  RouteInv' /\ LineageInv' /\ PostInv' /\ GoalInv'
<1>1. /\ lab' = [lab EXCEPT !.post[t].freeze = "dead"]
      /\ goal' = goal /\ saved' = saved /\ start' = start /\ call' = call
      /\ ~(lab.coder.phase = "reviewing" /\ ~lab.coder.blocked)
  BY DEF RejectControl, Capable, coder
<1>2. lab \in LabState /\ lab.post \in [Assignments -> PostState]
  BY DEF TypeOK, LabState
<1>3. /\ lab'.coder = lab.coder /\ lab'.resolved = lab.resolved
      /\ lab'.approved = lab.approved /\ lab'.candidate = lab.candidate
      /\ lab'.retired = lab.retired /\ lab'.trials = lab.trials
      /\ \A u \in Assignments : lab'.post[u].state = lab.post[u].state
                                /\ lab'.post[u].about = lab.post[u].about
  BY <1>1, <1>2 DEF LabState, PostState
<1>4. RouteInv'
  BY <1>3, RouteFrame
<1>5. LineageInv'
  BY <1>3, LineageFrame
<1>6. PostInv'
  <2>1. Pending' = Pending /\ Pending \subseteq Assignments
    BY <1>3 DEF Pending
  <2>2. \A u \in Pending : StillKnown(lab.post[u].about)
    BY <1>2, <2>1 DEF PostInv, Kept, PostState
  <2>3. \A u \in Pending : ~Present(u) /\ ~Present(u)'
    BY <1>1, <1>3, <2>1 DEF PostInv, Present, coder
  <2> QED
    BY <1>3, <2>1, <2>2, <2>3 DEF PostInv, Known, StillKnown
<1>7. GoalInv'
  BY <1>1, <1>3, GoalFrame
<1> QED
  BY <1>4, <1>5, <1>6, <1>7

LEMMA ResultRecorded ==
    ASSUME TypeOK, TypeOK', RouteInv, LineageInv, PostInv, GoalInv, Kept,
           NEW t \in Assignments, RecordResult(t)
    PROVE  RouteInv' /\ LineageInv' /\ PostInv' /\ GoalInv'
<1> DEFINE p == IF lab.coder.phase = "reviewing" THEN "paused" ELSE lab.coder.phase
           new == [lab EXCEPT !.post[t].state = "recorded",
                       !.coder.phase = IF @ = "reviewing" THEN "paused" ELSE @]
<1>1. /\ Transition(new, call) /\ Pending = {t}
      /\ goal' = goal /\ saved' = saved /\ start' = start
  BY DEF RecordResult
<1>2. /\ lab.coder \in CoderState /\ lab \in LabState
      /\ lab.post \in [Assignments -> PostState]
  BY DEF TypeOK, LabState
<1>3. lab' = new
  BY <1>1 DEF Transition
<1>4. /\ lab'.coder = [lab.coder EXCEPT !.phase = p] /\ lab'.resolved = lab.resolved
      /\ lab'.approved = lab.approved /\ lab'.candidate = lab.candidate
      /\ lab'.retired = lab.retired /\ lab'.trials = lab.trials
      /\ lab'.post = [lab.post EXCEPT ![t].state = "recorded"]
  BY <1>2, <1>3 DEF LabState
<1>5. /\ lab'.coder.asg = lab.coder.asg /\ lab'.coder.known = lab.coder.known
      /\ lab'.coder.status = lab.coder.status /\ lab'.coder.phase = p
  BY <1>2, <1>4 DEF CoderState
<1> HIDE DEF new
<1>6. RouteInv'
  BY <1>4, <1>5, RouteFrame
<1>7. LineageInv'
  BY <1>4, <1>5, LineageFrame
<1>8. PostInv'
  <2>1. Pending' = {}
    <3>1. /\ lab'.post[t].state = "recorded"
          /\ \A u \in Assignments : u # t => lab'.post[u] = lab.post[u]
      BY <1>2, <1>4 DEF PostState
    <3> QED
      BY <1>1, <3>1 DEF Pending
  <2> QED
    BY <2>1 DEF PostInv
<1>9. GoalInv'
  BY <1>1, <1>5, TransitionCalls, GoalFrame
<1> QED
  BY <1>6, <1>7, <1>8, <1>9

LEMMA StartBegun ==
    ASSUME TypeOK, TypeOK', RouteInv, LineageInv, PostInv, GoalInv, Kept, BeginStart
    PROVE  RouteInv' /\ LineageInv' /\ PostInv' /\ GoalInv'
<1> DEFINE again == coder.phase = "working" /\ Applied
           status == IF again THEN "activating" ELSE lab.coder.status
           new == [lab EXCEPT !.lifecycle = "starting", !.coder.blocked = FALSE,
                              !.coder.status = IF again THEN "activating" ELSE @]
<1>1. /\ Transition(new, call)
      /\ goal' = goal /\ saved' = saved /\ start = "none"
      /\ start' = IF again \/ coder.status = "activating" THEN "install" ELSE "done"
  BY DEF BeginStart, QueueFree
<1>2. lab.coder \in CoderState /\ lab \in LabState
  BY DEF TypeOK, LabState
<1>3. lab' = new
  BY <1>1 DEF Transition
<1>4. /\ lab'.coder = [lab.coder EXCEPT !.blocked = FALSE, !.status = status]
      /\ lab'.resolved = lab.resolved
      /\ lab'.approved = lab.approved /\ lab'.candidate = lab.candidate
      /\ lab'.retired = lab.retired /\ lab'.trials = lab.trials /\ lab'.post = lab.post
  BY <1>2, <1>3 DEF LabState, CoderState
<1>5. /\ lab'.coder.asg = lab.coder.asg /\ lab'.coder.known = lab.coder.known
      /\ lab'.coder.status = status /\ lab'.coder.phase = lab.coder.phase
      /\ lab'.coder.blocked = FALSE
  BY <1>2, <1>4 DEF CoderState
<1>6. /\ again => lab.coder.status = "applied" /\ lab.coder.phase = "working"
      /\ status = "applied" => lab.coder.status = "applied" /\ ~again
      /\ status # "none" => lab.coder.status # "none"
      /\ lab.coder.phase = "reviewing" => status = lab.coder.status
      /\ start' = IF status = "activating" THEN "install" ELSE "done"
  BY <1>1 DEF Applied, coder
<1> HIDE DEF new, again, status
<1>7. RouteInv'
  BY <1>4, <1>5, <1>6, RouteFrame
<1>8. LineageInv'
  BY <1>4, <1>5, <1>6, LineageFrame
<1>9. PostInv'
  BY <1>4, <1>5, <1>6, PostFrame
<1>10. GoalInv'
  <2>1. AppliedGoalIsDurable' /\ StartInv'
    BY <1>1, <1>5, <1>6 DEF GoalInv, AppliedGoalIsDurable, StartInv, Applied, coder
  <2>2. \A g \in Calls : CallInv(call[g])'
    BY <1>1, <1>5, TransitionCalls, StaleCallInv DEF AtMost
  <2> QED
    BY <2>1, <2>2 DEF GoalInv
<1> QED
  BY <1>7, <1>8, <1>9, <1>10

(* While the start waits, no call is of the present revision. *)
LEMMA StartGoal ==
    ASSUME TypeOK, TypeOK', GoalInv, StartInstall \/ StartFlush
    PROVE  GoalInv'
<1>1. /\ lab' = lab /\ call' = call /\ start \in {"install", "flush"}
      /\ lab.coder.status = "activating"
      /\ start' \in {"flush", "applied", "failed"}
  BY DEF StartInstall, StartFlush, GoalInv, StartInv, coder
<1>2. AppliedGoalIsDurable'
  BY <1>1 DEF AppliedGoalIsDurable, Applied, coder
<1>3. StartInv'
  <2>1. CASE StartInstall
    BY <1>1, <2>1 DEF StartInstall, StartInv, coder
  <2>2. CASE StartFlush
    BY <1>1, <2>2 DEF StartFlush, GoalInv, StartInv, coder
  <2> QED
    BY <2>1, <2>2
<1>4. ASSUME NEW g \in Calls
      PROVE  CallInv(call[g])'
  <2>1. CallInv(call[g]) /\ ~call[g].fresh
    BY <1>1 DEF GoalInv, CallInv
  <2>2. call[g].at = "flush" => goal' = goal
    BY DEF StartInstall, StartFlush, Idle
  <2> QED
    BY <1>1, <2>1, <2>2 DEF CallInv, coder
<1> QED
  BY <1>2, <1>3, <1>4 DEF GoalInv

LEMMA StartEnded ==
    ASSUME TypeOK, TypeOK', RouteInv, LineageInv, PostInv, GoalInv, Kept, EndStart
    PROVE  RouteInv' /\ LineageInv' /\ PostInv' /\ GoalInv'
<1> DEFINE c == IF start = "applied" THEN Working(lab.coder)
                ELSE [lab.coder EXCEPT !.blocked = start = "failed"]
           new == [lab EXCEPT !.lifecycle = "running",
                      !.coder = IF start = "applied" THEN Working(@)
                                ELSE [@ EXCEPT !.blocked = start = "failed"]]
<1>1. /\ Transition(new, call)
      /\ goal' = goal /\ saved' = saved /\ start' = "none"
      /\ start \in {"applied", "failed", "done"}
  BY DEF EndStart
<1>2. lab.coder \in CoderState /\ lab \in LabState
  BY DEF TypeOK, LabState
<1>3. lab' = new
  BY <1>1 DEF Transition
<1>4. /\ lab'.coder = c
      /\ lab'.resolved = lab.resolved
      /\ lab'.approved = lab.approved /\ lab'.candidate = lab.candidate
      /\ lab'.retired = lab.retired /\ lab'.trials = lab.trials /\ lab'.post = lab.post
  BY <1>2, <1>3 DEF LabState
<1>5. /\ start \in {"applied", "failed"} => lab.coder.status = "activating"
      /\ start = "applied" => goal = lab.coder.asg /\ saved = lab.coder.asg
  BY DEF GoalInv, StartInv, coder
<1>6. /\ c.asg = lab.coder.asg /\ c.known \in {lab.coder.known, lab.coder.asg}
      /\ start = "applied" => c.status = "applied" /\ c.phase = "working"
      /\ start # "applied" => c.status = lab.coder.status /\ c.phase = lab.coder.phase
      /\ start = "done" => ~c.blocked
  BY <1>1, <1>2 DEF CoderState, Working
<1> HIDE DEF new, c
<1>7. RouteInv'
  BY <1>1, <1>4, <1>5, <1>6, RouteFrame
<1>8. LineageInv'
  BY <1>1, <1>4, <1>5, <1>6, LineageFrame
<1>9. PostInv'
  BY <1>1, <1>4, <1>5, <1>6, PostFrame
<1>10. GoalInv'
  <2>1. AppliedGoalIsDurable' /\ StartInv'
    BY <1>1, <1>4, <1>5, <1>6 DEF GoalInv, AppliedGoalIsDurable, StartInv, Applied, coder
  <2>2. \A g \in Calls : CallInv(call[g])'
    BY <1>1, <1>4, <1>6, TransitionCalls, StaleCallInv DEF AtMost
  <2> QED
    BY <2>1, <2>2 DEF GoalInv
<1> QED
  BY <1>7, <1>8, <1>9, <1>10

LEMMA RestartGoal ==
    ASSUME TypeOK, TypeOK', GoalInv, Restart
    PROVE  GoalInv'
<1>1. /\ lab' = lab /\ goal' = saved /\ saved' = saved /\ start' = "none"
      /\ call' = [h \in Calls |-> NoCall]
  BY DEF Restart
<1>2. AppliedGoalIsDurable' /\ StartInv'
  BY <1>1 DEF GoalInv, AppliedGoalIsDurable, StartInv, Applied, coder
<1>3. \A g \in Calls : CallInv(call[g])'
  BY <1>1 DEF CallInv, NoCall
<1> QED
  BY <1>2, <1>3 DEF GoalInv

LEMMA LabStepSafe ==
    ASSUME TypeOK, TypeOK', RouteInv, LineageInv, PostInv, GoalInv, LabStep
    PROVE  RouteInv' /\ LineageInv' /\ PostInv' /\ GoalInv'
<1>0. Kept
  BY LabKeeps
<1>1. CASE Approve
  BY <1>0, <1>1, ApproveSafe
<1>2. CASE \E r \in Reviews : RefuseApproved(r)
  <2>1. /\ lab' = lab /\ goal' = goal /\ saved' = saved /\ start' = start /\ call' = call
    BY <1>2 DEF RefuseApproved
  <2> QED
    BY <1>0, <2>1, LabFrame, GoalFrame
<1>3. ASSUME NEW t \in Assignments,
             RequestPostflight(t) \/ FreezeCoder(t) \/ RejectControl(t) \/ RecordResult(t)
      PROVE  RouteInv' /\ LineageInv' /\ PostInv' /\ GoalInv'
  BY <1>0, <1>3, PostflightRequested, CoderFrozen, ControlRejected, ResultRecorded
<1>4. CASE BeginStart
  BY <1>0, <1>4, StartBegun
<1>5. CASE StartInstall \/ StartFlush
  <2>1. lab' = lab
    BY <1>5 DEF StartInstall, StartFlush
  <2> QED
    BY <1>0, <1>5, <2>1, LabFrame, StartGoal
<1>6. CASE EndStart
  BY <1>0, <1>6, StartEnded
<1>7. CASE Touch
  <2>1. /\ lab' = lab /\ goal' = goal /\ saved' = saved /\ start' = start
        /\ Transition(lab, call)
    BY <1>7 DEF Touch, Transition
  <2> QED
    BY <1>0, <2>1, LabFrame, TransitionCalls, GoalFrame
<1>8. CASE Restart
  <2>1. lab' = lab
    BY <1>8 DEF Restart
  <2> QED
    BY <1>0, <1>8, <2>1, LabFrame, RestartGoal
<1> QED
  BY <1>1, <1>2, <1>3, <1>4, <1>5, <1>6, <1>7, <1>8 DEF LabStep

-----------------------------------------------------------------------------
(* The theorems.                                                           *)

LEMMA InitIInv == Init => IInv
<1> SUFFICES ASSUME Init
             PROVE  IInv
  OBVIOUS
<1>1. /\ coder = [phase |-> "declared", asg |-> None, status |-> "none",
                  known |-> None, blocked |-> FALSE]
      /\ lab.lifecycle = "running" /\ lab.candidate = None
      /\ lab.retired = [i \in Ids |-> None] /\ lab.approved = 0 /\ lab.resolved = {}
      /\ lab.trials = {} /\ lab.post = [a \in Assignments |-> NoPost]
  BY DEF Init, coder
<1>2. /\ coder.phase = "declared" /\ coder.asg = None /\ coder.status = "none"
      /\ coder.known = None /\ coder.blocked = FALSE
  BY <1>1
<1>3. TypeOK
  <2>1. lab \in LabState
    <3>1. coder \in CoderState
      BY <1>1 DEF CoderState
    <3>2. lab.post \in [Assignments -> PostState]
      BY <1>1 DEF PostState, NoPost
    <3>3. lab = [lifecycle |-> lab.lifecycle, coder |-> coder, candidate |-> lab.candidate,
                 retired |-> lab.retired, approved |-> lab.approved,
                 resolved |-> lab.resolved, trials |-> lab.trials, post |-> lab.post]
      BY DEF Init, coder
    <3>4. /\ lab.lifecycle \in {"running", "starting"} /\ lab.approved \in 0..MaxReviews
          /\ lab.candidate \in Assignments \cup {None}
          /\ lab.retired \in [Ids -> Assignments \cup {None}]
          /\ lab.resolved \in SUBSET Reviews /\ lab.trials \in SUBSET Assignments
      BY <1>1, LineageAssumption
    <3> QED
      BY <3>1, <3>2, <3>3, <3>4 DEF LabState
  <2>2. call \in [Calls -> CallState]
    BY DEF Init, NoCall, CallState
  <2> QED
    BY <2>1, <2>2, LineageAssumption DEF Init, TypeOK
<1>4. RouteInv
  BY <1>1, <1>2, LineageAssumption DEF RouteInv, AtMost, None, Reviews
<1>5. LineageInv
  BY <1>1, <1>2 DEF LineageInv, Applied
<1>6. GoalInv
  <2>1. \A h \in Calls : CallInv(call[h])
    BY DEF Init, NoCall, CallInv
  <2> QED
    BY <1>2, <2>1 DEF Init, GoalInv, AppliedGoalIsDurable, StartInv, Applied
<1>7. PostInv
  BY <1>1 DEF PostInv, Pending, NoPost
<1> QED
  BY <1>3, <1>4, <1>5, <1>6, <1>7 DEF IInv

LEMMA NextIInv == IInv /\ [Next]_vars => IInv'
<1> SUFFICES ASSUME IInv, [Next]_vars
             PROVE  IInv'
  OBVIOUS
<1>1. TypeOK /\ RouteInv /\ LineageInv /\ GoalInv /\ PostInv
  BY DEF IInv
<1>2. TypeOK'
  BY <1>1, TypeStep
<1>3. CASE LabStep
  BY <1>1, <1>2, <1>3, LabStepSafe DEF IInv
<1>4. ASSUME NEW h \in Calls, CallStep(h)
      PROVE  IInv'
  BY <1>1, <1>2, <1>4, CallStepSafe DEF IInv
<1>5. CASE UNCHANGED vars
  <2>1. /\ lab' = lab /\ goal' = goal /\ saved' = saved /\ start' = start /\ call' = call
        /\ names' = names /\ files' = files
    BY <1>5 DEF vars
  <2>2. Kept
    BY <2>1 DEF Kept, Known, StillKnown
  <2> QED
    BY <1>1, <1>2, <2>1, <2>2, LabFrame, GoalFrame DEF IInv
<1> QED
  BY <1>3, <1>4, <1>5 DEF Next

LEMMA LineageSafe == Spec => []IInv
  BY InitIInv, NextIInv, PTL DEF Spec

(* Nothing in the state of the Coder is ever of another kind: phases,       *)
(* Assignments, candidates, reviews, the start and the waiting calls keep   *)
(* their types in every step of the modelled handlers.                      *)
THEOREM LineageTypeCorrect == Spec => []TypeOK
<1>1. IInv => TypeOK
  BY DEF IInv
<1> QED
  BY <1>1, LineageSafe, PTL

(* What is staged fits the schema, or a generation is used twice. *)
LEMMA SchemaStep ==
    ASSUME TypeOK, RouteInv, LineageInv
    PROVE  SchemaRefusesOnlyReuse
<1>0. TypeOK /\ RouteInv /\ LineageInv
  OBVIOUS
<1>1. /\ coder.known \in Assignments \cup {None} /\ None \in Assignments \cup {None}
      /\ lab.retired \in [Ids -> Assignments \cup {None}]
      /\ None \notin Assignments
  BY <1>0 DEF TypeOK, LabState, CoderState, coder, None, Assignments, Reviews
<1>2. Fits(lab)
  <2>1. LineageFits(lab)
    BY <1>0 DEF LineageInv, LineageFits, coder
  <2>2. Orphans(lab) = {}
    BY <1>0 DEF LineageInv, Orphans
  <2> QED
    BY <2>1, <2>2 DEF Fits
<1>3. ASSUME NEW r \in Reviews, MayApply(r)
      PROVE  /\ LineageFits(Staged(Approved(r), coder.known))
             /\ Orphans(Staged(Approved(r), coder.known)) \subseteq Overwritten
  <2> PICK a \in Assignments : a = Approved(r)
    BY ApprovedType
  <2>1. a.review \notin lab.resolved /\ a # None
    BY <1>1, <1>3 DEF MayApply, Approved
  <2>2. \A i \in Ids : lab.retired[i] # a
    BY <1>0, <2>1 DEF LineageInv
  <2>3. LineageFits(Staged(a, coder.known)) /\ Orphans(Staged(a, coder.known)) \subseteq Overwritten
    BY <1>0, <1>1, <2>2, StagedFits
  <2> QED
    BY <2>3
<1>4. ASSUME NEW r \in Reviews, NEW k \in 1..MaxFixes,
             files[[review |-> r, fix |-> k]] = "none"
      PROVE  /\ LineageFits(Staged([review |-> r, fix |-> k], None))
             /\ Orphans(Staged([review |-> r, fix |-> k], None)) \subseteq Overwritten
  <2>0. [review |-> r, fix |-> k] \in Assignments
    BY LineageAssumption DEF Assignments
  <2> PICK a \in Assignments : a = [review |-> r, fix |-> k]
    BY <2>0
  <2>1. files[a] = "none" /\ a # None
    BY <1>1, <1>4
  <2>2. \A i \in Ids : lab.retired[i] # a
    BY <1>0, <2>1 DEF LineageInv, Known
  <2>3. LineageFits(Staged(a, None)) /\ Orphans(Staged(a, None)) \subseteq Overwritten
    BY <1>0, <1>1, <2>2, StagedFits
  <2> QED
    BY <2>3
<1> QED
  BY <1>2, <1>3, <1>4 DEF SchemaRefusesOnlyReuse

(* For any number of reviews and fixes, the RuntimeState always fits its    *)
(* schema, and what applyPreflight and assignCoderFix stage next fits it,   *)
(* unless a second generation of one candidate id would be retired over the *)
(* generation of a Trial.                                                   *)
THEOREM SchemaCorrect == Spec => []SchemaRefusesOnlyReuse
<1>1. IInv => SchemaRefusesOnlyReuse
  BY SchemaStep DEF IInv
<1> QED
  BY <1>1, LineageSafe, PTL

(* A Trial's generation and its review are found. *)
LEMMA TrialResolves ==
    ASSUME IInv, NEW t \in lab.trials
    PROVE  Resolves(t)
<1>1. /\ lab.trials \subseteq Assignments /\ None \notin Assignments
      /\ Known(t) /\ t.review \in lab.resolved
      /\ lab.candidate = t \/ lab.retired[names[t]] = t
      /\ lab.candidate # None => lab.candidate = coder.asg
  BY DEF IInv, TypeOK, LabState, LineageInv, None, Assignments, Reviews
<1>2. CASE lab.candidate = t
  BY <1>1, <1>2 DEF Resolves, Captured, Routed
<1>3. CASE lab.candidate # t
  BY <1>1, <1>3 DEF Resolves, Captured, Retired, Known
<1> QED
  BY <1>2, <1>3

(* No Trial loses its generation or the review of it, however many          *)
(* Assignments superseded the candidate that it was launched from.          *)
THEOREM TrialsStayReviewable == Spec => []TrialsAreReviewable
<1>1. IInv => TrialsAreReviewable
  BY TrialResolves DEF TrialsAreReviewable
<1> QED
  BY <1>1, LineageSafe, PTL

(* Whenever the state says that the Coder's Goal is applied, that Goal is   *)
(* in memory and on disk, for any number of calls that install Goals at a   *)
(* time, failures and restarts.                                             *)
THEOREM AppliedGoalDurable == Spec => []AppliedGoalIsDurable
<1>1. IInv => AppliedGoalIsDurable
  BY DEF IInv, GoalInv
<1> QED
  BY <1>1, LineageSafe, PTL

(* A Postflight of the Assignment that the Coder has is never stuck; what   *)
(* is stuck was superseded.                                                 *)
THEOREM PostflightLoss == Spec => []PostflightLostOnlyBySupersede
<1>1. IInv => PostflightLostOnlyBySupersede
  BY DEF IInv, PostInv, PostflightLostOnlyBySupersede, Present
<1> QED
  BY <1>1, LineageSafe, PTL

(* Only the commit of a submission makes a candidate the active one. *)
LEMMA NewCandidate ==
    ASSUME TypeOK, [Next]_vars, NEW a \in Assignments,
           lab'.candidate = a, lab.candidate # a
    PROVE  \E h \in Calls : CommitCandidate(h) /\ SameAssignment(h) /\ a = coder.asg
<1>0. lab \in LabState /\ None \notin Assignments
  BY DEF TypeOK, None, Assignments, Reviews
<1>1. CASE UNCHANGED vars
  BY <1>1 DEF vars
<1>2. CASE LabStep
  <2>1. CASE Approve \/ BeginStart \/ EndStart \/ Touch
    BY <1>0, <2>1 DEF Approve, BeginStart, EndStart, Touch, Transition, LabState
  <2>2. CASE \E r \in Reviews : RefuseApproved(r)
    BY <2>2 DEF RefuseApproved
  <2>3. ASSUME NEW t \in Assignments,
               RequestPostflight(t) \/ FreezeCoder(t) \/ RejectControl(t) \/ RecordResult(t)
        PROVE  FALSE
    BY <1>0, <2>3 DEF RequestPostflight, FreezeCoder, RejectControl, RecordResult,
                      Transition, LabState
  <2>4. CASE StartInstall \/ StartFlush \/ Restart
    BY <2>4 DEF StartInstall, StartFlush, Restart
  <2> QED
    BY <1>2, <2>1, <2>2, <2>3, <2>4 DEF LabStep
<1>3. ASSUME NEW h \in Calls, CallStep(h)
      PROVE  CommitCandidate(h) /\ SameAssignment(h) /\ a = coder.asg
  <2>1. CASE \E r \in Reviews : StageApproved(h, r)
    <3> PICK r \in Reviews : StageApproved(h, r)
      BY <2>1
    <3>1. /\ lab' = Staged(Approved(r), coder.known) /\ Approved(r) \in Assignments
          /\ coder.known \in Assignments \cup {None}
      BY <1>0, ApprovedType DEF StageApproved, Stage, LabState, CoderState, coder
    <3>2. lab'.candidate \in {lab.candidate, None}
      BY <3>1, StagedShape
    <3> QED
      BY <1>0, <3>2
  <2>2. CASE \E r \in Reviews, k \in 1..MaxFixes, i \in Ids : StageFix(h, r, k, i)
    <3> PICK r \in Reviews, k \in 1..MaxFixes, i \in Ids : StageFix(h, r, k, i)
      BY <2>2
    <3> PICK f \in Assignments : Fixes(f, h, r, i)
      BY FixShape
    <3>1. None \in Assignments \cup {None}
      OBVIOUS
    <3>2. Staged(f, None).candidate \in {lab.candidate, None}
      BY <3>1, StagedShape
    <3>3. lab' = Staged(f, None) \/ lab' = lab
      BY DEF Fixes, Stage
    <3> QED
      BY <1>0, <3>2, <3>3
  <2>3. CASE Install(h) \/ Flush(h) \/ Abort(h) \/ Submit(h) \/ Launch(h)
    BY <2>3 DEF Install, Flush, Abort, Submit, Launch
  <2>4. CASE CommitApproved(h)
    BY <1>0, <2>4 DEF CommitApproved, Transition, LabState
  <2>5. CASE CommitFix(h) \/ CommitTrial(h)
    BY <1>0, <2>5 DEF CommitFix, CommitTrial, Transition, LabState
  <2>6. CASE CommitCandidate(h)
    <3>1. SameAssignment(h)
      BY <2>6 DEF CommitCandidate
    <3>2. lab' = [lab EXCEPT !.coder.phase = "paused", !.candidate = call[h].asg]
      BY <2>6, <3>1 DEF CommitCandidate, Transition
    <3>3. lab'.candidate = call[h].asg
      BY <1>0, <3>2 DEF LabState
    <3> QED
      BY <2>6, <3>1, <3>3 DEF SameAssignment
  <2> QED
    BY <1>3, <2>1, <2>2, <2>3, <2>4, <2>5, <2>6 DEF CallStep
<1> QED
  BY <1>1, <1>2, <1>3 DEF Next

(* A superseded Assignment's capture never becomes the active candidate and *)
(* no retired generation comes back, however long a capture takes and       *)
(* whatever is staged meanwhile.                                            *)
THEOREM RetiredStays == Spec => RetiredStaysRetired
<1>1. ASSUME IInv, [Next]_vars, NEW a \in Assignments, lab'.candidate = a, lab.candidate # a
      PROVE  ~Gone(a) /\ lab.coder.asg = a /\ saved = a /\ a \notin lab.trials
  <2>0. /\ TypeOK /\ LineageInv /\ AppliedGoalIsDurable
        /\ lab.trials \subseteq Assignments /\ None \notin Assignments
    BY <1>1 DEF IInv, GoalInv, TypeOK, LabState, None, Assignments, Reviews
  <2> PICK h \in Calls : CommitCandidate(h) /\ SameAssignment(h) /\ a = coder.asg
    BY <1>1, <2>0, NewCandidate
  <2>1. lab.candidate = None /\ Applied
    BY DEF SameAssignment, OwnsGoal
  <2>2. \A i \in Ids : lab.retired[i] # a
    BY <2>0 DEF LineageInv
  <2>3. a \notin lab.trials
    BY <2>0, <2>1, <2>2 DEF LineageInv, Known
  <2> QED
    BY <2>0, <2>1, <2>2, <2>3 DEF Gone, AppliedGoalIsDurable, coder
<1>2. IInv /\ [Next]_vars =>
        [\A a \in Assignments : lab'.candidate = a /\ lab.candidate # a =>
            ~Gone(a) /\ lab.coder.asg = a /\ saved = a /\ a \notin lab.trials]_vars
  BY <1>1
<1> QED
  BY <1>2, LineageSafe, PTL DEF Spec, RetiredStaysRetired

=============================================================================
