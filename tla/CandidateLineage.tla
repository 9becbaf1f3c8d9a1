------------------------- MODULE CandidateLineage -------------------------
(***************************************************************************)
(* The Coder of one Lane: the Assignments that an APPROVED Preflight or    *)
(* the Controller gives it, the Goal that carries each, the candidate that *)
(* it freezes, the candidates that a later Assignment retires, the Trials  *)
(* that descend from them and their Postflight reviews                     *)
(* (dsh-autolab/src/index.ts, state.ts, approved-coder-*.ts, coder-*.ts).  *)
(*                                                                         *)
(* A capture is determined by its Assignment, so an Assignment stands for  *)
(* the generation it freezes.  The operations of a Lab run one after the   *)
(* other in its queue; a start waits inside of it, the calls of the        *)
(* Controller and the Coder outside: what they do between two awaits is    *)
(* one action.  Goals change by the runtime's hand only, and a Goal stands *)
(* for all its revisions.  The Attempt of a Trial has ended when its       *)
(* Postflight is requested.                                                *)
(***************************************************************************)
EXTENDS Naturals, FiniteSets

CONSTANTS
    Calls,        \* calls of the Controller's and the Coder's tools at a time
    Ids,          \* candidate ids that tickets and fix mandates name
    MaxReviews,   \* bound on APPROVED Preflight reviews
    MaxFixes,     \* bound on fixes of one review
    MaxTrouble    \* bound on failures, aborts, restarts and unrelated changes

ASSUME LineageAssumption ==
    MaxReviews \in Nat /\ MaxFixes \in Nat /\ MaxTrouble \in Nat

VARIABLES
    lab,       \* the RuntimeState: Coder role, candidates, reviews, Trials
    names,     \* the candidate id that an Assignment names
    files,     \* the Assignment artifacts: of this revision, of an earlier one
    goal,      \* the Goal of the Coder's Session in memory
    saved,     \* the Goal that a reload of the Session finds
    attached,  \* the kernel holds the Coder's Agent
    start,     \* where the start of the Lab stands
    call,      \* the calls that wait outside of the queue
    trouble    \* disturbances so far

vars == <<lab, names, files, goal, saved, attached, start, call, trouble>>

Reviews == 1..MaxReviews
Assignments == [review : Reviews, fix : 0..MaxFixes]
None == [review |-> 0, fix |-> 0]
Approved(r) == [review |-> r, fix |-> 0]    \* coder:<review>
NoCall == [kind |-> "none", at |-> "none", asg |-> None, exp |-> None, fresh |-> FALSE]
NoPost == [state |-> "none", freeze |-> "none", about |-> None]

coder == lab.coder
Spend == trouble < MaxTrouble /\ trouble' = trouble + 1
QueueFree == start = "none"
Running == lab.lifecycle = "running"
Applied == coder.status = "applied"
Captured(a) == lab.candidate = a /\ a # None
Retired(a) == names[a] \in Ids /\ lab.retired[names[a]] = a
Pending == {a \in Assignments : lab.post[a].state = "pending"}

-----------------------------------------------------------------------------
(* What the code reads.                                                    *)

(* selectApprovedCoderReview: the resolved review of the Coder's Goal, the *)
(* one that installed it or the one that its fix continues.                *)
Routed == coder.asg.review \in lab.resolved

(* roleOwnsExactAssignmentGoal. *)
OwnsGoal == Applied /\ goal = coder.asg

(* installLocalGoal: its own Goal, or one that it may replace.             *)
Installable(a, exp) == goal \in {None, a, exp}

(* A Coder that submits is in a turn; a maintenance waits for the end.     *)
Idle ==
    /\ attached
    /\ start # "flush" /\ \A h \in Calls : call[h].at # "flush"
    /\ \A h \in Calls : call[h].kind # "submit"

(* The schema of the RuntimeState: the active candidate is that of the     *)
(* Coder's Assignment, the retired ones are not, and a Trial descends from *)
(* one that is there.                                                      *)
LineageFits(l) ==
    /\ l.candidate # None => l.candidate = l.coder.asg
    /\ \A i \in Ids : l.retired[i] # None =>
           l.retired[i] # l.coder.asg /\ l.retired[i] # l.candidate

Orphans(l) ==
    {t \in l.trials : l.candidate # t /\ l.retired[names[t]] # t}

Fits(l) == LineageFits(l) /\ Orphans(l) = {}

(* Mutant: the superseded candidate is dropped. *)
SupersededLost(l) == IF l.candidate \in {None, l.coder.asg} THEN l ELSE [l EXCEPT !.candidate = None]

(* A new Assignment supersedes the candidate of another one, which is      *)
(* retired under its candidate id.                                         *)
Superseded(l) ==
    IF l.candidate \in {None, l.coder.asg} THEN l
    ELSE [l EXCEPT !.candidate = None, !.retired[names[l.candidate]] = l.candidate]

(* stageApprovedCoderActivation keeps the GoalRef it expects to replace;   *)
(* assignCoderFix records none.                                            *)
Staged(a, known) ==
    Superseded([lab EXCEPT !.coder.asg = a, !.coder.status = "activating",
                           !.coder.known = known])

(* applyApprovedCoderGoal and the like: the Coder works for its Goal.      *)
Working(c) == [c EXCEPT !.phase = "working", !.status = "applied", !.known = c.asg]

-----------------------------------------------------------------------------
(* A transition of the RuntimeState advances its revision: artifacts       *)
(* frozen before are of an earlier one, and calls that compare it fail.    *)
Aged(f) == [a \in Assignments |-> IF f[a] = "none" THEN "none" ELSE "earlier"]
Stale(c) == [h \in Calls |-> [c[h] EXCEPT !.fresh = FALSE]]

Transition(new, c) == lab' = new /\ files' = Aged(files) /\ call' = Stale(c)

Ended(h) == [call EXCEPT ![h] = NoCall]

(* The activation of Assignment a is staged; its Goal is installed next.   *)
Stage(h, kind, a, known) ==
    /\ lab' = Staged(a, known)
    /\ files' = [Aged(files) EXCEPT ![a] = "earlier"]
    /\ call' = [Stale(call) EXCEPT ![h] = [kind |-> kind, at |-> "install",
                    asg |-> a, exp |-> coder.known, fresh |-> TRUE]]

Outside(h, kind, a) ==
    call' = [call EXCEPT ![h] = [kind |-> kind, at |-> "capture", asg |-> a,
                                 exp |-> None, fresh |-> FALSE]]

Init ==
    /\ lab = [lifecycle |-> "running",
              coder |-> [phase |-> "declared", asg |-> None, status |-> "none",
                         known |-> None, blocked |-> FALSE],
              candidate |-> None, retired |-> [i \in Ids |-> None],
              approved |-> 0, resolved |-> {}, trials |-> {},
              post |-> [a \in Assignments |-> NoPost]]
    /\ names = [a \in Assignments |-> "none"]
    /\ files = [a \in Assignments |-> "none"]
    /\ goal = None /\ saved = None
    /\ attached = TRUE /\ start = "none"
    /\ call = [h \in Calls |-> NoCall]
    /\ trouble = 0

-----------------------------------------------------------------------------
(* The Preflight route.                                                    *)

(* The Method, free again, submits a ticket that is frozen and APPROVED.   *)
Approve ==
    /\ QueueFree /\ Running
    /\ lab.approved < MaxReviews /\ lab.approved \in lab.resolved \cup {0}
    /\ \E i \in Ids : names' = [names EXCEPT ![Approved(lab.approved + 1)] = i]
    /\ Transition([lab EXCEPT !.approved = @ + 1], call)
    /\ UNCHANGED <<goal, saved, attached, start, trouble>>

MayApply(r) ==
    QueueFree /\ Running /\ r \in 1..lab.approved /\ r \notin lab.resolved

(* applyPreflight adopts its own activation that is under way.             *)
Adopts(r) == coder.status = "activating" /\ coder.asg = Approved(r)

(* freezeExact: the artifact has the revision in it, and an earlier one    *)
(* conflicts.                                                              *)
Freezes(r) == ~Adopts(r) /\ files[Approved(r)] # "earlier"

(* Another Goal is in flight (ACTIVATION_CONFLICT).                        *)
InFlight == coder.status = "activating"

(* applyPreflight, in the queue: the activation is staged.                 *)
StageApproved(h, r) ==
    /\ call[h] = NoCall /\ MayApply(r)
    /\ Adopts(r) \/ (Freezes(r) /\ ~InFlight)
    /\ Fits(Staged(Approved(r), coder.known))
    /\ Stage(h, "approve", Approved(r), coder.known)
    /\ UNCHANGED <<names, goal, saved, attached, start, trouble>>

(* The artifact is frozen, then the activation is refused.                 *)
RefuseApproved(r) ==
    /\ MayApply(r) /\ Freezes(r)
    /\ InFlight \/ ~Fits(Staged(Approved(r), coder.known))
    /\ files' = [files EXCEPT ![Approved(r)] = "now"]
    /\ UNCHANGED <<lab, names, goal, saved, attached, start, call, trouble>>

(* The second compare-and-set resolves the review.                         *)
CommitApproved(h) ==
    /\ call[h].kind = "approve" /\ call[h].at = "commit" /\ QueueFree
    /\ IF call[h].fresh
       THEN Transition([lab EXCEPT !.coder = [Working(@) EXCEPT !.blocked = FALSE],
                                   !.resolved = @ \cup {call[h].asg.review}],
                       Ended(h))
       ELSE call' = Ended(h) /\ UNCHANGED <<lab, files>>
    /\ UNCHANGED <<names, goal, saved, attached, start, trouble>>

-----------------------------------------------------------------------------
(* The Controller's fix of a candidate.                                    *)

MayFix(r) ==
    /\ QueueFree /\ Running
    /\ Applied /\ coder.phase = "paused" /\ ~coder.blocked
    /\ r \in lab.resolved /\ Captured(Approved(r))

(* assignCoderFix, in the queue.  The artifact has the time in it.         *)
StageFix(h, r, k, i) ==
    LET a == [review |-> r, fix |-> k]
    IN /\ call[h] = NoCall /\ MayFix(r) /\ files[a] = "none"
       /\ names' = [names EXCEPT ![a] = i]
       /\ IF Fits(Staged(a, None))
          THEN Stage(h, "fix", a, None)
          ELSE files' = [files EXCEPT ![a] = "now"] /\ UNCHANGED <<lab, call>>
       /\ UNCHANGED <<goal, saved, attached, start, trouble>>

CommitFix(h) ==
    /\ call[h].kind = "fix" /\ call[h].at = "commit" /\ QueueFree
    /\ IF call[h].fresh
       THEN Transition([lab EXCEPT !.coder = Working(@)], Ended(h))
       ELSE call' = Ended(h) /\ UNCHANGED <<lab, files>>
    /\ UNCHANGED <<names, goal, saved, attached, start, trouble>>

-----------------------------------------------------------------------------
(* installLocalGoal, in a maintenance of the Coder's Agent.                *)

Install(h) ==
    /\ call[h].at = "install" /\ Idle
    /\ IF Installable(call[h].asg, call[h].exp)
       THEN goal' = call[h].asg /\ call' = [call EXCEPT ![h].at = "flush"]
       ELSE call' = Ended(h) /\ UNCHANGED goal
    /\ UNCHANGED <<lab, names, files, saved, attached, start, trouble>>

(* Mutant: the Goal is not flushed. *)
FlushLater(h) ==
    /\ call[h].at = "flush"
    /\ call' = [call EXCEPT ![h].at = "commit"]
    /\ UNCHANGED <<lab, names, files, goal, saved, attached, start, trouble>>

Flush(h) ==
    /\ call[h].at = "flush"
    /\ saved' = goal /\ call' = [call EXCEPT ![h].at = "commit"]
    /\ UNCHANGED <<lab, names, files, goal, attached, start, trouble>>

(* The caller aborts, the Agent stays busy, or the flush fails.            *)
Abort(h) ==
    /\ call[h].at \in {"install", "flush", "commit", "capture"} /\ Spend
    /\ call' = Ended(h)
    /\ UNCHANGED <<lab, names, files, goal, saved, attached, start>>

-----------------------------------------------------------------------------
(* The Coder's candidate.                                                  *)

(* submitCoderImplementation: prepareCoderSubmission, then the capture.    *)
Submit(h) ==
    /\ call[h] = NoCall /\ QueueFree /\ Running /\ attached
    /\ coder.phase = "working" /\ OwnsGoal /\ Routed /\ lab.candidate # coder.asg
    /\ \A g \in Calls : call[g].at # "flush"
    /\ Outside(h, "submit", coder.asg)
    /\ UNCHANGED <<lab, names, files, goal, saved, attached, start, trouble>>

(* Mutant: only the slot of the Lane is looked at after the capture. *)
SameAssignmentUnchecked(h) == lab.candidate = None /\ Running

(* commitCoderSubmission compares the Assignment, not the revision.        *)
SameAssignment(h) ==
    /\ lab.candidate = None
    /\ Running /\ coder.phase = "working" /\ coder.asg = call[h].asg
    /\ OwnsGoal /\ Routed

CommitCandidate(h) ==
    /\ call[h].kind = "submit" /\ QueueFree
    /\ IF SameAssignment(h)
       THEN Transition([lab EXCEPT !.coder.phase = "paused",
                                   !.candidate = call[h].asg], Ended(h))
       ELSE call' = Ended(h) /\ UNCHANGED <<lab, files>>
    /\ UNCHANGED <<names, goal, saved, attached, start, trouble>>

-----------------------------------------------------------------------------
(* Trials and their Postflight reviews.                                    *)

(* launchAttempt reads the candidate outside of the queue.                 *)
Launch(h) ==
    /\ call[h] = NoCall /\ Running /\ lab.candidate # None
    /\ lab.candidate \notin lab.trials
    /\ Outside(h, "launch", lab.candidate)
    /\ UNCHANGED <<lab, names, files, goal, saved, attached, start, trouble>>

(* Mutant: the candidate is not compared after the preparation. *)
SameCandidateUnchecked(h) == Running /\ call[h].asg \notin lab.trials

SameCandidate(h) ==
    Running /\ lab.candidate = call[h].asg /\ call[h].asg \notin lab.trials

CommitTrial(h) ==
    /\ call[h].kind = "launch" /\ QueueFree
    /\ IF SameCandidate(h)
       THEN Transition([lab EXCEPT !.trials = @ \cup {call[h].asg}], Ended(h))
       ELSE call' = Ended(h) /\ UNCHANGED <<lab, files>>
    /\ UNCHANGED <<names, goal, saved, attached, start, trouble>>

(* requestPostflight: the Trial's generation and its APPROVED review.      *)
Resolves(t) ==
    IF Captured(t)
    THEN Routed /\ coder.asg.review = t.review
    ELSE Retired(t) /\ t.review \in lab.resolved

(* Mutant: a second review is requested of a Coder under review. *)
ReviewableTwice == coder.phase \in {"paused", "reviewing"} /\ ~coder.blocked

Reviewable == coder.phase = "paused" /\ ~coder.blocked

RequestPostflight(t) ==
    /\ QueueFree /\ Running /\ t \in lab.trials /\ Resolves(t)
    /\ lab.post[t] = NoPost /\ Reviewable /\ attached /\ OwnsGoal
    /\ Transition([lab EXCEPT !.coder.phase = "reviewing",
                              !.post[t] = [state |-> "pending", freeze |-> "asked",
                                           about |-> coder.asg]], call)
    /\ UNCHANGED <<names, goal, saved, attached, start, trouble>>

(* resolveReviewCapability asks for a Coder under review, not for which.   *)
Capable == coder.phase = "reviewing" /\ ~coder.blocked

(* The control freezes the Coder, or finds that its Goal is another one.   *)
FreezeCoder(t) ==
    /\ lab.post[t].freeze = "asked" /\ QueueFree /\ attached /\ Capable
    /\ Transition([lab EXCEPT !.post[t].freeze =
                       IF goal = lab.post[t].about THEN "done" ELSE "dead"], call)
    /\ UNCHANGED <<names, goal, saved, attached, start, trouble>>

(* The control is rejected for good.                                       *)
RejectControl(t) ==
    /\ lab.post[t].freeze = "asked" /\ attached /\ ~Capable
    /\ lab' = [lab EXCEPT !.post[t].freeze = "dead"]
    /\ UNCHANGED <<names, files, goal, saved, attached, start, call, trouble>>

(* submitPostflightResult: selectJudgeReview finds the only pending one; a *)
(* Coder that moved on keeps its phase.                                    *)
RecordResult(t) ==
    /\ QueueFree /\ Pending = {t} /\ lab.post[t].freeze = "done"
    /\ Transition([lab EXCEPT !.post[t].state = "recorded",
                       !.coder.phase = IF @ = "reviewing" THEN "paused" ELSE @],
                  call)
    /\ UNCHANGED <<names, goal, saved, attached, start, trouble>>

-----------------------------------------------------------------------------
(* The start of the Lab, after a restart of the Controller or on demand.   *)

Settled == attached /\ ~coder.blocked /\ coder.status # "activating"

(* The Coder's Agent is resumed; a working Coder's Goal is staged again.   *)
BeginStart ==
    /\ QueueFree /\ lab.lifecycle \in {"running", "starting"}
    /\ ~(Running /\ Settled)
    /\ attached' = TRUE
    /\ LET again == coder.phase = "working" /\ Applied
       IN /\ Transition([lab EXCEPT !.lifecycle = "starting", !.coder.blocked = FALSE,
                            !.coder.status = IF again THEN "activating" ELSE @],
                        call)
          /\ start' = IF again \/ coder.status = "activating" THEN "install" ELSE "done"
    /\ UNCHANGED <<names, goal, saved, trouble>>

(* Without a recorded GoalRef the live Goal is the expected one.           *)
StartExpects == IF coder.known = None THEN goal ELSE coder.known

StartInstall ==
    /\ start = "install" /\ Idle
    /\ IF Installable(coder.asg, StartExpects)
       THEN goal' = coder.asg /\ start' = "flush"
       ELSE start' = "failed" /\ UNCHANGED goal
    /\ UNCHANGED <<lab, names, files, saved, attached, call, trouble>>

StartFlush ==
    /\ start = "flush"
    /\ \/ saved' = goal /\ start' = "applied" /\ trouble' = trouble
       \/ Spend /\ start' = "failed" /\ UNCHANGED saved
    /\ UNCHANGED <<lab, names, files, goal, attached, call>>

EndStart ==
    /\ start \in {"applied", "failed", "done"}
    /\ Transition([lab EXCEPT !.lifecycle = "running",
                      !.coder = IF start = "applied" THEN Working(@)
                                ELSE [@ EXCEPT !.blocked = start = "failed"]],
                  call)
    /\ start' = "none"
    /\ UNCHANGED <<names, goal, saved, attached, trouble>>

-----------------------------------------------------------------------------
(* Disturbances.                                                           *)

(* The Lab changes for another reason.                                     *)
Touch ==
    /\ Spend /\ QueueFree /\ Transition(lab, call)
    /\ UNCHANGED <<names, goal, saved, attached, start>>

(* The Controller's process dies, and the next one adopts the Lab.         *)
Restart ==
    /\ Spend
    /\ files' = Aged(files) /\ goal' = saved /\ attached' = FALSE /\ start' = "none"
    /\ call' = [h \in Calls |-> NoCall]
    /\ UNCHANGED <<lab, names, saved>>

CallStep(h) ==
    \/ \E r \in Reviews : StageApproved(h, r)
    \/ \E r \in Reviews, k \in 1..MaxFixes, i \in Ids : StageFix(h, r, k, i)
    \/ Install(h) \/ Flush(h) \/ CommitApproved(h) \/ CommitFix(h) \/ Abort(h)
    \/ Submit(h) \/ CommitCandidate(h) \/ Launch(h) \/ CommitTrial(h)

LabStep ==
    \/ Approve \/ (\E r \in Reviews : RefuseApproved(r))
    \/ \E t \in Assignments : \/ RequestPostflight(t) \/ FreezeCoder(t)
                              \/ RejectControl(t) \/ RecordResult(t)
    \/ BeginStart \/ StartInstall \/ StartFlush \/ EndStart
    \/ Touch \/ Restart

Next == LabStep \/ \E h \in Calls : CallStep(h)

Spec == Init /\ [][Next]_vars

-----------------------------------------------------------------------------
(* Properties.                                                             *)

CoderState ==
    [phase : {"declared", "working", "paused", "reviewing"},
     asg : Assignments \cup {None}, status : {"none", "activating", "applied"},
     known : Assignments \cup {None}, blocked : BOOLEAN]

PostState ==
    [state : {"none", "pending", "recorded"},
     freeze : {"none", "asked", "done", "dead"}, about : Assignments \cup {None}]

LabState ==
    [lifecycle : {"running", "starting"}, coder : CoderState,
     candidate : Assignments \cup {None}, retired : [Ids -> Assignments \cup {None}],
     approved : 0..MaxReviews, resolved : SUBSET Reviews,
     trials : SUBSET Assignments, post : [Assignments -> PostState]]

CallState ==
    [kind : {"none", "approve", "fix", "submit", "launch"},
     at : {"none", "install", "flush", "commit", "capture"},
     asg : Assignments \cup {None}, exp : Assignments \cup {None}, fresh : BOOLEAN]

TypeOK ==
    /\ lab \in LabState
    /\ names \in [Assignments -> Ids \cup {"none"}]
    /\ files \in [Assignments -> {"none", "now", "earlier"}]
    /\ goal \in Assignments \cup {None} /\ saved \in Assignments \cup {None}
    /\ attached \in BOOLEAN
    /\ start \in {"none", "install", "flush", "applied", "failed", "done"}
    /\ call \in [Calls -> CallState]
    /\ trouble \in 0..MaxTrouble

(* The Trials whose retired generation a capture of the same candidate id   *)
(* would replace.                                                           *)
Overwritten ==
    {t \in lab.trials : lab.candidate # None /\ lab.retired[names[lab.candidate]] = t}

(* The state that is written always fits its schema: whatever happened      *)
(* before, applyPreflight and assignCoderFix compute one that keeps the     *)
(* generation of every Trial, except where a second generation of one       *)
(* candidate id is retired (there parseState refuses the transition).       *)
SchemaRefusesOnlyReuse ==
    /\ Fits(lab)
    /\ \A r \in Reviews :
          LET new == Staged(Approved(r), coder.known)
          IN MayApply(r) /\ (Adopts(r) \/ Freezes(r)) =>
                LineageFits(new) /\ Orphans(new) \subseteq Overwritten
    /\ \A r \in Reviews, k \in 1..MaxFixes :
          LET a == [review |-> r, fix |-> k]
          IN MayFix(r) /\ files[a] = "none" =>
                LineageFits(Staged(a, None)) /\ Orphans(Staged(a, None)) \subseteq Overwritten

(* A Trial is never left without a Postflight: whatever reviews, fixes,     *)
(* aborted activations and restarts came in between, requestPostflight      *)
(* finds its generation and the APPROVED review of it.                      *)
TrialsAreReviewable == \A t \in lab.trials : Resolves(t)

(* What the state calls applied survives a crash: the Coder's Goal is that  *)
(* of its Assignment, in memory and in the log of its Session, although     *)
(* calls of applyPreflight, assignCoderFix and start that install Goals     *)
(* overlap and are cut off.                                                 *)
AppliedGoalIsDurable == Applied => saved = coder.asg /\ goal = saved

(* A Postflight whose Coder still works on the Assignment that was reviewed *)
(* can end: its control is not lost and the Judge has no other.  Only a     *)
(* Coder that was given a later Assignment during a review leaves a         *)
(* Postflight without a result, or a Judge with two of them.                *)
PostflightLostOnlyBySupersede ==
    \A t \in Pending :
        lab.post[t].freeze = "dead" \/ Pending # {t} =>
            \E u \in Pending : lab.post[u].about # coder.asg

Gone(a) == \E i \in Ids : lab.retired[i] = a

(* A capture that took so long that its Assignment was superseded does not  *)
(* become the active candidate, nor does a retired generation come back:    *)
(* commitCoderSubmission activates the candidate of a live Assignment, once *)
(* and before any Trial of it.                                              *)
RetiredStaysRetired ==
    [][\A a \in Assignments : lab'.candidate = a /\ lab.candidate # a =>
          ~Gone(a) /\ lab.coder.asg = a /\ saved = a /\ a \notin lab.trials]_vars

=============================================================================
