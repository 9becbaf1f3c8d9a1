# DSH-AutoLab in TLA+

This directory holds TLA+ specifications of the two packages of the
repository, the TLC configurations that check them and proofs that TLAPS
checks.  `PROJECT.json` maps every definition to the lines it models and lists
the runs, hazards, findings and theorems.

## The system

**dsh-local-session-messaging** delivers messages between the DSH Sessions of
one machine.  Any number of provider processes share one SQLite file.

| Component | State | Operations | Correct when |
|---|---|---|---|
| SQLite mailbox (`database.ts`) | presence rows with a fence, policies, pair blocks, message rows with a lease, control outcomes | one transaction each: presence, policy, enqueue, claim, accept, mark, retry, fail, complete, sweep | strict FIFO per recipient; only the current owner acknowledges; schema constraints never fire; revoked text does not wait; outcome and row of a control agree |
| Session writer fence (`database.ts`, `local.ts`) | one row (owner, fence, active) per Session; a binding per process: reservations, agents, draining agents | reserve, acquire by compare-and-set after a probe, attach, dispose, drain, release, close | one writer at a time; released only when unused; taken only from the dead |
| Local provider (`local.ts`) | a binding per Session; the pump; checkpoints in flight; the DSH Inbox and the Session log | pump: reconcile, claim, insert, flush, acknowledge, retry; checkpoints; heartbeat; attach and detach | mailbox and log agree after any crash; nothing waits for ever; order kept |
| Control handlers (`local.ts`, `control.ts`) | registered and retired kinds | deliver a control at least once, record its outcome | one outcome per control |
| Poke notifier (`notifier.ts`) | a socket per process | poke, which may be lost | (wakes the pump only) |
| Contacts, domain, service, tool, command, prompt | none | resolve names, validate, adapt | |

**dsh-autolab** runs a laboratory of agents (Controller, Method, Coder, Judges,
Ops) over DSH Sessions.

| Component | State | Operations | Correct when |
|---|---|---|---|
| Controller lock (`lock.ts`) | the directory `controller.lock` | acquire, probe, take over, release | one Controller per root |
| Runtime Kernel (`index.ts`) | the runtimes it owns, a queue per Lab, armed timers | start, resume, pause, stop; every role's submission; projections; wake-ups | every durable event is acted on once, also after a restart |
| Lab state (`state.ts`, `config.ts`, `manifest.ts`) | one JSON file per Lab: revision, owner epoch, lifecycle, roles, reviews, run slots | compare-and-set under the owner fence | no lost update, no update by a former owner, legal transitions only |
| Attempts and Trials (`trial.ts`, `attempt-*.ts`, `local-attempt-reconcile.ts`, `runner.ts`, `attempt-wrapper.mjs`) | the run slot with its chain of Attempts; write-once receipts; a wrapper process in tmux; a consumer with a queue and timers | launch, inspect, reconcile, publish, wake, retry | the command runs at most once per Attempt; what is recorded happened; a retry never overlaps; the end is noticed and told |
| Reviews (`review*.ts`, `preflight-verdict.ts`, `postflight-*.ts`) | the active review: request, pause, freeze, resolution | freeze, acknowledge, record verdict, resolve | a verdict advances only while the workers are frozen under the present owner |
| Goals (`goal.ts`, `controller-goal.ts`, `role-goal-revision.ts`) | the Goal of a Session, holds in memory | install, replace, pause, resume under a hold | no Goal changes while held; a hold is given back |
| API recovery (`api-recovery*.ts`) | incident records, timers | classify, persist, probe, resume, retire | one timer per incident; resume exactly the interrupted turn |
| Roles and communication (`roles.ts`, `role-*.ts`, `binding.ts`, `communication.ts`) | role Sessions, bindings, access lists | create, resume, assign, reconcile access | bindings point to the Session they were made for |
| Candidates and Coder work (`candidate*.ts`, `coder-*.ts`, `approved-coder-*.ts`, `worktree.ts`, `run-checkout.ts`, `method-ticket.ts`) | frozen commits and receipts | freeze, verify, supersede | an approved candidate is the one that runs |
| Artifacts (`artifacts.ts`, `*-artifacts.ts`, `dialogue.ts`, `fact-registry.ts`, `packet.ts`, `integrity.ts`) | write-once files | write, read, verify | an artifact never changes |

The two packages meet in two places: AutoLab's freeze requests are *control*
messages of the mailbox, and AutoLab reserves the *writer fence* of every role
Session before it creates or resumes it.

What is hard here: two stores with no common commit (SQLite and the Session
log; the Lab state file and the receipts), processes that die at any time and
are replaced under a fence, awaits between a read and its use, callbacks that
run while a flush is awaited, wake-ups that may be lost, and timers that race
with late answers.  `PROJECT.json` lists each place under "hazards".

## Modules

| Module | Models | State and actions |
|---|---|---|
| `Mailbox` | the transactions of `database.ts` | `row`, `presence`, `policy`, `blocks`, `outcome`, `lastSeq`, `now`; an action per transaction |
| `MessageLifecycle` | what a sender is promised: queued, then accepted and consumed or dropped, never back | `status`, `tries`; abstract specification that `Mailbox` implements |
| `RelayDelivery` | a provider serving the texts of one Session; EXTENDS `Mailbox` | the pump's `phase`, `todo`, `job`; Inbox facts in memory (`mem`) and on disk (`log`); checkpoints in flight (`marks`) |
| `SessionWriter` | the writer fence | the row; `bind[p]`; `plan[p]`: what p read and concluded before its compare-and-set |
| `RuntimeLock` | `lock.ts` | the record at the lock's path; the place of each call |
| `AttemptRun` | the local Attempts of one RunSlot: kernel, consumer, inspection, reconciliation, wrapper, tmux | `slot` (RuntimeState), `files` (log and receipts), `wrapper`, `command`, `tmux`, `ctl`, `queue`, `timers`, `job` (the edge at hand), `told` |
| `RunSlot` | what a RunSlot promises: one Attempt after another, each runs once, the record claims no more than what happened | `ordinal`, `phase`, `run`; abstract specification that `AttemptRun` implements |
| `ApiRecovery` | the recovery of one Controller Session after a failed turn (`api-recovery.ts`, its store, the callers in `index.ts`) | `store` and its `queue`, `pending`, `timer`, `inFlight`; `task[h]`: the handlers that run; `agent`, `log`, `goal`, `saved`; `install` (the Goal in the RuntimeState) |
| `ReviewFreeze` | one Preflight review: submission, controls, pause, freeze and hold, wake of the Judge, verdict, `assignMethod`; start, shutdown, crash and the next owner (`review.ts`, `goal.ts`, parts of `index.ts`, `state.ts`) | `lab` (role and review in the RuntimeState), `kernel`, `ctl` (the controls in the mailbox), `worker` and `judge` (their Agents), `goal` in memory and `saved` on disk, `edges` and `todo` (what waits to be handled), `acq`, `assign` |
| `CandidateLineage` | the Coder of one Lane: APPROVED Preflights and fixes, their Goals, candidates and retired candidates, Trials, Postflights (`index.ts`, `state.ts`, `approved-coder-*.ts`, `coder-*.ts`) | `lab` (role, candidates, reviews, Trials in the RuntimeState), `names` (the candidate id of an Assignment), `files` (Assignment artifacts), `goal` in memory and `saved` on disk, `attached`, `start`, `call[h]`: the calls that wait outside of the queue |
| `LabLifecycle` | the life of one Lab: start, pause, `AutoLabWait`, resume, stop, attach and detach of the Controller, init and teardown, one worker's Assignments and their results (`index.ts`, `goal.ts`, `state.ts`, `role-goal-revision.ts`) | `lab` (the RuntimeState), `kernel` (mode, recovery of init), `op` (the operation in the Lab's queue), `ctrl` and `worker` (Agent and Goal), `saved` (their disk), `told`, `assign` and `sub` (calls between their queue operations), `pend` |
| `MC*` | instances for TLC | sets, symmetry, bounds |
| `DeliveryProofs` | theorems about `Mailbox` and `RelayDelivery` | |
| `WriterProofs`, `LockProofs`, `AttemptProofs`, `ApiProofs`, `ReviewProofs`, `LineageProofs`, `LabProofs` | theorems about `SessionWriter`, `RuntimeLock`, `AttemptRun`, `ApiRecovery`, `ReviewFreeze`, `CandidateLineage` and `LabLifecycle` | |

### How the models correspond to the code

*Mailbox.*  A transaction is one action: SQLite's write lock serialises them.
The clock is read before the lock is granted, so a transaction works with any
of the `Readings` of the last `MaxLag` units.  A lease token is random in the
code; since each lease adds one to `attempt_count`, the attempt number stands
for it.  Texts are governed by policies and pair blocks, controls by policies
alone.  An `enqueue` of an id that exists changes no row.

*RelayDelivery.*  JavaScript runs to the next await, so a phase is a place
where the pump awaits something and other callbacks may run; `reconciling` and
`leased` have no await and only other processes step there.  `mem` is what the
Session events say in memory and `log` what was flushed.  Insertion is
idempotent by message id (the DSH Inbox is external, modelled from how
`deliverToAgent` and the reconciliation rely on it).  One process hosts a
Session at a time: this is what `SessionWriter` establishes.  When a Session
is detached the presence is released first, which advances the fence, so what
a pump still does after that changes nothing and is dropped.  Pair blocks are
represented by flips of the recipient's receive switch, which has the same
effect on the envelopes.  `terminalizeDue`, the global sweep, is never called by
`local.ts` and takes no part.  Several Sessions of a provider do not share
state but the database, whose rows `Mailbox` treats per recipient.

*SessionWriter.*  `acquireSessionWriterBinding` reads the row, probes the
owner's process and then tries the compare-and-set: `ReadRow`, `Judge`,
`Acquire`.  A process has a pid, a start identity and the boot it was started
in; a pid may be used again.  The probe may say "cannot tell" for a process of
another machine only.

*RuntimeLock.*  The candidate directory is private until it is renamed to the
lock's path, which fails while something is there; the rename of a stale lock
and that of a release move whatever is at the path by then.  Every await is a
step.  `ps` and `kill` may fail for any process.

*AttemptRun.*  One edge of the consumer is a chain of steps, each at an await
that reads or writes something shared: `TakeEdge` reads RuntimeState;
`ReadExit`, `ReadStarted`, `ReadLog`, `ProbeTmux`, `ProbeProcess` and
`SettleExit` are `inspectLocalTmuxAttempt`, run once by the consumer and twice
more by `launchLocalTmuxAttempt` around `LaunchTmux`; `Reconcile` freezes
receipts and projects; `Publish` is the compare-and-set in the Lab's queue;
`TellController` puts the event into the Controller's Session and sets the
timers.  A wrapper goes through `boot`, `bound`, `logged`, `stamped`,
`started`, `ready`, `running` and `exited`, and may die at each stage; a
command outlives its wrapper.  Of the contents of receipts the model keeps who
wrote them and, for the uncertain receipt, whether it was observed before the
start that the wrapper stamped.  A reference to an Attempt artifact is written
once per RunSlot revision, so `rev` stands for path and hash.  `attending`
says that the Lab runs, the Controller's Goal is applied and its Agent is
attached; without it no event is delivered.  A datagram from a wrapper reaches
the queue only while the process accepts, and may be lost always.  A new
Attempt or an unrelated change of the Lab makes the edge at hand stale
(`fresh`).  Receipts that are corrupt or belong to another launch need a writer
outside the system; of them the model keeps only what `ProbeProcess` may find:
the wrapper's pid used by another process.

*ApiRecovery.*  A handler (a request error, the end of a turn, a timer, an
idle edge, an adapter update, a reconciliation at start) is a task that stands
at an await and keeps what it read before; what the code does between two
awaits is one action.  The durable store serialises its operations per Session
in a promise chain: `queue` holds them in order, `Commit` executes the first,
and its handler goes on in a step of its own.  A record carries what the schema
of its phase demands (`FitsSchema`), since `put` parses before it writes.  The
maintenance claim of the Agent is a lock that another maintenance may hold;
`resumeExact` claims it with an await, looks again, and resumes the Goal.
`edges` are the lifecycle events emitted and not handled yet, and the jobs of
the Lab's queue that concern the Goal: `trackControllerGoalChange`,
`armControllerGoal` and `applyControllerGoal`, `wakeControllerForEvent`.
Between a change of the Session and its checkpoint (`saved`) a crash may lose
it.  Of the clock the model keeps whole retry delays, and a delay is longer
than a write of the store (the default is five seconds).

*ReviewFreeze.*  The operations of a Lab run one after the other in its queue
(`QueueFree`); the start of the Lab and a submission wait inside of it, so they
have a place (`kernel.start`, `kernel.dispatch`), the others are single
actions.  Outside of the queue run the control handlers (`HandleRequest` to
`FailAck`), the status tasks (`todo`), `acquireReviewHold` (`acq`) and the
installation of `assignMethod` (`assign`); each stops where the code awaits
something that another may change.  A control is leased, handled and given an
outcome, or given back and counted; the mailbox below it is `Mailbox`.  A
maintenance hold is `worker.maint = "hold"` together with `kernel.hold`, the
entry of `reviewHolds` that can release it; a crash loses both.  Turns are
numbered, since a freeze names the turn it cancels.  `saved` is the Goal that a
reload of the Session finds; the Session stores may write at any time
(`Persist`), and must on a flush.  A Goal change is projected later, in the
queue (`edges`, `TrackGoal`).  `touched` remembers that a user changed the Goal
or cancelled the hold after the submission: the code lets them.

*CandidateLineage.*  `applyPreflight` and `assignCoderFix` stage an activation
in the queue (`StageApproved`, `StageFix`), install the Goal in a maintenance
outside of it (`Install`, `Flush`) and commit in the queue with a second
compare-and-set (`CommitApproved`, `CommitFix`); `call[h]` says where each
stands, and `Abort` ends it at any of these places.  A transition of the
RuntimeState (`Transition`) makes every call that compares the revision stale
and ages the artifacts that contain it, so that freezing them again conflicts.
`submitCoderImplementation` and `launchAttempt` prepare outside of the queue
what they read before, and compare the Assignment or the candidate again
(`CommitCandidate`, `CommitTrial`).  The start of the Lab stages, installs and
records a working Coder's Goal inside of the queue (`BeginStart` to
`EndStart`).  A capture belongs to one Assignment, so an Assignment,
`[review, fix]`, stands for the generation it freezes, and `names` gives the
candidate id of its ticket or mandate; `lab.retired` has one record per id, as
the code has.  A Goal stands for all its revisions.  `Fits` is the part of the
schema that ties candidates, Assignments and Trials together.  An Attempt is
`AttemptRun`'s subject: here a Trial has one that ended.

*LabLifecycle.*  `op` is the operation at the head of the Lab's queue and the
await it stands at (`arm` and `apply`: the Controller's Goal; `activate`,
`install`, `fail`: the rest of `start`; `attach`, `roles`, `controller`:
`pause`; `replay`, `wake`, `deliver`: what follows an attach or an event);
nothing of the Lab enters before it ends.  `pend` holds what another operation
or an Agent queued behind it: `reconcileControllerAgent`, the start that
`resume` asks for, the second half of `stop`.  `assignRole` and
`submitAutoLabRoleResult` leave the queue between reading and committing
(`assign`, `sub`); `fresh` says whether the revision they read is still the
present one.  `kernel.boot` is how far the loop of `[Service.init]` is with
this Lab.  A change of a Goal and the flush of its Session are one step, since
nothing reads the Goal in between; a reload finds `saved`.  The Lab is
committed, its worker takes Assignments of the Controller, and every call of
the tools comes from an Agent that is attached.  `marks` remembers which of the
exceptions listed below happened.

## Runs

| Run | Shows | Bounds |
|---|---|---|
| `mailbox` | order, acknowledgements, outcomes, revocation, refinement of `MessageLifecycle` | one recipient, a text and a control, two processes, three fences, two attempts, time up to 2, a clock lag of 1. A second message is what order needs, a second process what fencing needs, and the third fence is the return of the first process |
| `relay_live` | liveness, revocation, expiry across a crash | one message, a revocable recipient, one failed flush |
| `writer` | one writer, kept in use, taken only from the dead, given up by the dead | three processes, two share a pid, one reboot, two Agents |
| `lock` | the holder keeps the lock, a dead owner's lock gives way | a mortal process that calls twice and its only possible successor, two tries |
| `lock_race` | **violation**: a take-over from a live process | three processes on one machine |
| `attempt` | a command runs once, refinement of `RunSlot` | two Attempts (a retry), two tmux sessions (a second launch of one Attempt), one disturbance (a crash, a lost session, an unreadable probe, an unrelated change, a replayed call), one waiting poke |
| `attempt_live` | the end and the loss of an Attempt reach the Controller | one Attempt and one session, two disturbances (one to make the first look fail, one to crash or to win the race after it) |
| `api` | one resume at a time, for the current incident; newer incidents kept; one continuation of an unknown failure; a failure that a retry may repair resumes; an incident for a person is told | two handlers at a time, two turns (the failure and the one that follows its resume), one code of each class, two delays, and one disturbance of any kind: failed write, flush or timer, crash or disposal, Goal edit, Controller event or foreign maintenance, adapter update |
| `api_spent` | **violation**: an incident whose Goal is used up is never handed to a person | one turn, no disturbance |
| `review` | the Judge judges work that stands still; a hold lasts until the resolution; a resolution is recorded after its effect; the review goes on, also across a crash | two deliveries of a control, three turns of the worker (the reviewed one, the one that is joined, the one that overrides), two disturbances of any kind: a failed flush or activation, an act of the user, an event of another role, a repeated submission, a start, a shutdown, a crash |
| `lane` | an applied Goal is on disk; the state always fits its schema; every Trial keeps its generation and its review; a Postflight is lost only when the Coder moved on; late and retired candidates stay out | two APPROVED reviews (the second supersedes), one fix of each, two candidate ids (one is used twice), two calls at a time, two disturbances of any kind: an abort, a failed flush, an unrelated change of the Lab, a restart |
| `lab` | what was put to rest (by a wait, a pause, a stop, a recorded result) stays at rest; a running Lab has an awake Controller; the Controller is told of every recorded result; no Lab stays starting or pausing | one Assignment (it is given, installed, recorded and repeated; a second one adds no new step), two disturbances of any kind: a failed flush or activation, a lost Agent, an unrelated change of the Lab, a shutdown, a crash. One crash alone leaves nothing to recover from, so a fault and a restart are needed |

Bounds are constants: `MaxTime`, `MaxFence`, `MaxLag`, `MaxFailures`,
`MaxBoot`, `MaxTries`, `Mortal`, `MaxAttempts`, `MaxLaunches`, `MaxTrouble`,
`MaxWaiting` (beyond which a poke counts as lost), `MaxTurns`, `MaxFaults`,
`MaxRestarts`, `MaxEdits`, `MaxUpdates` and `MaxEvents` (the sum of the last
four kinds), `MaxReviews`, `MaxFixes`, `MaxOrders`.  `CHECK_DEADLOCK FALSE` stands where a run
ends with time, fences or processes used up.

### Fairness

`FairRelaySpec`: the pump, once it may step, does (WF): a poll interval starts
it again (`local.ts`, init) and the event loop runs its continuations.  The
session store at last writes what it has (WF).  A checkpoint or a heartbeat
may find the loop busy again and again but gets one of the awaits (SF).  Time
passes.  No fairness is assumed of agents, users, crashes or restarts, and a
liveness property asks for nothing once the provider stops serving.

`SessionWriter!FairSpec`: a process that wants the Session keeps trying.
`RuntimeLock!FairSpec`: an acquire that has begun runs on.

`AttemptRun!FairSpec`: the Controller's process goes on with the edge at hand,
takes the next, dispatches its startup edges, and an armed timer fires (all
WF: `enqueue` chains promises, `setTimeout` fires).  Nothing is assumed of
wrappers, commands, tmux, pokes or restarts.  `EndIsTold` and `LossIsTold`
therefore speak of what is already on disk when an edge is due, and exempt an
Attempt whose Controller is down, away or has moved on.

`ApiRecovery!FairSpec`: handlers go on after their awaits, the store's queue
moves, emitted events are handled, an armed timer fires, a turn that runs ends,
a foreign maintenance is released, and a plugin or Session that is down comes
back (all WF).  Nothing is assumed of users, of new turns, failures or adapter
updates.  The last two assumptions, on release and return, are about the
surroundings; without them no recovery can be promised at all.

`ReviewFreeze!FairSpec`: a turn ends (the freeze cancels it, and every turn of
a model ends some time), a request is enqueued, the pump delivers the controls,
the status tasks and the acquisition of the hold go on when what they await is
there, and so does a start of the Lab (all WF).  Nothing is assumed of the
Judge, the Controller, users or new owners: `ReviewProceeds` asks for the wake
of the Judge only, and for nothing once the kernel ends.

`LabLifecycle!FairSpec`: the Lab's queue runs what is in it, and init, resume
and stop go on with what they queued (WF): `enqueue` chains promises, and every
promise in it settles.  Nothing is assumed of agents, users or restarts;
`NoLimbo` asks for nothing once the runtime closes.

`CandidateLineage` assumes none: its properties are about safety, since every
step of it is begun by an agent or by a start that an operator may not give.

### What the violations say

* `lock_race`: `lock.ts:80` renames away whatever is at the path; two
  contenders that proved the same owner dead may end with two Controllers.
  `HolderKeepsLock` therefore holds only where a dead owner has one possible
  successor on its machine, which is what the run `lock` has.
* `api_spent`: `promoteOperator` (`api-recovery.ts:812`) copies the incident
  with its `dueAt`; the schema of the durable store refuses an operator record
  that has one.  A scheduled incident whose Goal has no round left therefore
  stays scheduled without a timer, and the Controller is not told.  The test
  that covers the case uses a store without the schema.

### What else the models showed

These are limits of the code the properties had to be stated around.

* `retryLeased` (`local.ts:1132`) gives the lease back after a failed flush
  although the message is pending in the Inbox.  The row is no longer a
  candidate for reconciliation, so a sweep may expire or fail what the agent
  has; the package's README, line 273, promises that it is terminated only after
  the log showed no admission.  Without a failed flush the promise holds
  (`ExpiryNeedsFailedFlush`).
* `reconcileDurableInbox` (`local.ts:1225`) records a claim that it read from
  memory; line 52 of the package's README says that a flush comes first.
* A poke clears the timer that watches a launch whether or not the launch has
  finished (`attempt-runtime.ts:254`); a wrapper that then dies before its log
  is noticed at the next external edge only.
* tmux no longer finds the session of a wrapper that still lives (its socket is
  gone, say: `has-session` answers 1, which counts as absent), while the
  wrapper is between opening its log and stamping its start.  An inspection
  then freezes `uncertain.json`.  The wrapper goes on and its started receipt
  appears.  When the process is later gone without an exit receipt,
  `assertExistingUncertain` (`local-attempt-reconcile.ts:562`) refuses the
  frozen receipt because it is older than the start.  That edge and every later
  one end with an error, nothing is recorded and nobody is told (`LossIsTold`
  says so in its premise).
* One candidate id has one retired record (`index.ts:1735`).  When a second
  generation of the id is retired, it replaces the first; if a Trial descends
  from the first, `parseState` refuses the state and with it the Assignment,
  now and for ever, while the comment at `state.ts:579` says that an id "may
  have several generations" and line 86 of the README that a superseded
  candidate keeps the lineage of its Trials checkable.
  (`SchemaRefusesOnlyReuse` shows that it is the only such case.)
* An `applyPreflight` that is cut off after staging is meant to be repeated.
  If a start of the Lab applies the staged Goal first, the repetition compiles
  its artifacts anew with the present `runtimeRevision` and conflicts with
  those on disk; the review is never resolved and the Coder, which works, can
  submit nothing (`Routed`).  The same happens to an APPROVED review whose
  first attempt met another activation in flight: the artifacts were frozen
  before it was refused.
* `requestPostflight` of a Trial whose Coder was given another Assignment before
  the freeze was handled: the control is dead and the review stays pending; the
  next Postflight of the same Judge makes two of them, and
  `selectJudgeReview` finds none for good.  The comment at `index.ts:3134`
  expects that the Judge can still commit its receipt.
* A fix cannot be fixed: `assignCoderFix` asks for the candidate of
  `coder:<reviewId>` itself (`index.ts:2285`), while the tool speaks of any
  "paused Coder that owns its Lane active candidate"
  (`controller-surface.ts:471`).
* API recovery after a failed store write: the handler of an older incident
  may arm its timer behind a newer failure and its `recovering` record then
  replaces that failure (`NewerIncidentKept` and `ResumesTheLast` speak of runs
  without failed writes).
* API recovery across a restart: an unknown failure that was recorded and whose
  turn fails again after a crash is continued a second time (`OneFallback`); a
  settlement queued before the stop may replace a newer candidate
  (`NewerIncidentKept`); a crash between the record for a person and its
  publication leaves the person untold (`OperatorIsTold`); a crash between the
  record and the end of the turn leaves an incident that waits for an event
  that does not come (`TurnLost`).
* An unknown failure is continued twice when it overtakes the settlement of the
  turn before.  The comment at `api-recovery.ts:91` says that exactly one
  conservative continuation is allowed for one unknown code, but
  `carryUnknownFallback` (`api-recovery.ts:763`) looks for the spent one in a
  `recovering` record only: turn 1 fails and is resumed, turn 2 fails with the
  same code and its `awaiting` record carries the flag, and before that record
  is settled a user's turn 3 fails with the code again; its record replaces the
  second one and counts as a first failure.  It takes three turns and three
  handlers at once, beyond the run `api`.  `OneFallback` therefore speaks of the
  very next turn.
* `wakeControllerForEvent` asks the store who owns the Goal; while the candidate
  is in memory only, it resumes the Goal, and the recovery drops the incident.
  While `armControllerGoal` is at work, `resolveApiRecoveryAssignment` finds no
  Goal and a due incident is dropped as stale.
* A Goal that the pause finds complete is not flushed (`review.ts:484`); after
  a crash the disk says active while the Judge reviews
  (`JudgeSeesFrozenWork` leaves this outcome out).
* A freeze that ends as `stale` or `user-override` is final: nothing takes the
  review out of it.  A control is rejected for good while a role of the review
  is blocked, and fails when its attempts are used up (`ReviewProceeds` exempts
  both).
* A crash or a shutdown between a change of the Goal and its projection leaves
  the old revision in `goalInstall`; the next `assignMethod` for that review
  then finds "another live Goal" every time.
* After a crash between the installation of the next Goal and the commit, the
  start of the Lab installs it again and records it as applied, but the
  review stays unresolved until the Controller repeats `assignMethod`.

* `wakeControllerForEvent` (`index.ts:5486`) looks at the Controller's Goal but
  not at the Lab's lifecycle, unlike `index.ts:5241`: an event that reaches the
  queue after a pause or a stop resumes the Controller's Goal in a Lab that is
  at rest.  (`restart-recovery.test.ts:1078` asks that a paused Lab stays dormant
  across a restart, without events.)  `Dormant` names it `woken`.
* `assignRole` installs the worker's Goal outside of the queue
  (`index.ts:2690`); when the Lab was paused meanwhile, the late installation
  arms a worker of a paused Lab and the commit is refused.  `Dormant` names it
  `late`.
* The init that resumes a Lab has no Agent for the Controller, and so leaves
  the status of its Goal at `pending`; until the Controller attaches, events return at
  `index.ts:5492`, and a Controller that waits is not woken by them before an
  explicit resume (`controller-goal.ts:52`).
* A pause between the record of a result and its notice, then a crash: the
  attach of a paused Lab skips the replay, and resume does not repeat it
  (`missed` in `ResultIsTold`).  Nor is a result told that a start finds
  recorded but not told: the activations that it stages (`index.ts:3548`) have
  no receipt, and the replay (`index.ts:5360`) looks at receipts only.
* A flush that fails in `armControllerGoal` leaves its status at `activating`;
  when the Controller waits later, no event wakes it.  One that fails in
  `AutoLabWait` leaves the Goal paused without `waiting`, and nobody wakes the
  Controller (`halfway` in `AwakeWhenRunning`).  A start that fails after the
  Controller was armed leaves it armed in a blocked Lab.
* A user's pause while init looks at a Lab is overridden by the start that init
  had decided on.  A shutdown during the recovery blocks the Lab, and the next
  attach arms its Controller.
* A Goal whose first flush failed has no name in the RuntimeState, and a pause
  does not find it (`lab.named` in `Dormant`).

## Proofs

The type invariants of all modules are proved; all but that of `RuntimeLock` are
no longer part of a run, and so are the safety properties of `RelayDelivery`, whose run
asks for liveness only.

`DeliveryProofs` proves every property of the run `mailbox`, and that no
transaction breaks a CHECK constraint (`SchemaHolds`), that a fence means one
owner (`PresenceFencing`) and that a lease is granted only where the policy
allows it (`GrantAuthorized`), for all values of the constants that satisfy `MailboxAssumption`: any number of sessions,
processes, principals and messages, any time-outs.

The properties are not inductive one by one.  The strengthening adds what the
transactions rely on: sequence numbers are positive, distinct and below
`lastSeq`; a row that was attempted has no earlier queued row of its recipient;
a lease carries a fence that was issued, and if it is the present one, the
present owner; times of rows stay below what the lag allows; a recorded
outcome agrees with its row.  One lemma per action shows that it preserves
each conjunct it can disturb, the sweeps have lemmas of their own since four
actions share them, and each theorem ends with the step that combines
`Init => Inv`, the step lemma and `Inv => Property` by PTL.  `LifecycleCorrect`
maps each action to a step or a stutter of `MessageLifecycle`.

`WriterProofs` proves every safety property of `SessionWriter` for any number
of processes, agents, pids and boots: `TypeOK`, `HolderOwnsRow`,
`TakeoverNeedsDeath`, `KeptWhileInUse` and `FenceGrows`.  The invariant `WInv`
adds to the properties what a plan made before its compare-and-set is worth:
it names a process that was started once, and one that was proved dead is dead
still (`ProofIsSound`); a process that does not run has nothing in memory, and
an agent whose log is drained is disposed.  The compare-and-set compares the
whole row, so whoever it replaces is the owner that was probed.

Its second part proves the safety properties of `RelayDelivery` on top of the
invariant of the mailbox: `RelayTypeOK`, `UsesMailbox` (every step of a
provider is a step of the database or none), `DeliveryKeepsLease`,
`AdmittedInOrder` and `AcknowledgedIsLogged`, and, separately,
`ExpiryNeedsFailedFlush`.  The chain of the argument for
`AcknowledgedIsLogged`: what the pump acknowledges was in its list or in its
hand (`TodoIsLogged`, `LeasedIsLogged`) and in the log before.  This theorem alone
assumes `MaxLag = 0`: a provider that lost its presence and reads a clock from
before that moment would pass as the owner; the run that checks the property
has no lag either.  The invariant of `ExpiryNeedsFailedFlush` says that while
no flush failed, what the Inbox remembers is leased or being recorded, so no
sweep can reach it.

`LockProofs` proves `TypeOK` of `RuntimeLock` for any number of calls, processes
and machines, and `HolderKeepsLock` and `TakesOverOnlyTheDead` under
`OneSuccessor`: whoever may judge a mortal owner dead (it runs on the same
machine) makes the only call that is not of that owner's process.  The
condition holds where no process dies, whatever number of calls contend, and in
the instance of the run `lock`; the code does not establish it, and `lock_race`
shows what happens without it.  The code lets a call
judge a dead owner and rename the lock later, whatever is there by then: `Judged` says that
its verdict is still one about a dead process of its machine, so under
`OneSuccessor` no other call can run (`OnlySuccessorRuns`), and
`RecordOfPublisher` that the record in the way cannot be its own.

`AttemptProofs` proves `TypeOK` and `CommandRunsOnce` of `AttemptRun` for any
number of Attempts, launches and disturbances.  Two conjuncts make them
inductive.  `HasAttempt`: while an edge waits, a timer is armed or a job is at
hand, the RunSlot has an Attempt, and a projection is about the Attempt that
was inspected; without it the files a job reads would have no owner.
`ReceiptNamesRunner`: a wrapper past its started receipt, and one whose
command was ever spawned, is the one the receipt names, and a name that was
never used has no command; since a receipt is linked once, two wrappers of one
Attempt cannot both run the command.  `RefinesRunSlot` proves that `AttemptRun`
implements `RunSlot`: initial states map to initial states, and every step maps
to a step of `RunSlot` or a stutter.  Its invariant `SlotInv` adds four parts.
`RecordInv`: what was retried failed for certain, and what the record calls
terminal has an exit receipt.  `ExitInv`: an exit receipt is that of the one
wrapper that ran the command, which has ended.  `BornInv`: a wrapper belongs to
an Attempt that was ordered and spawns once.  `JobInv`: what a job has read
stays true, because ordinals grow and receipts stay, so a projection published
late claims nothing that has become false.

`ApiProofs` proves `TypeOK`, `OneInFlight`, `ResumesTheLast`,
`NewerIncidentKept` and `OneFallback`, every safety property of the run `api`,
for any number of handlers, turns, codes and disturbances.  The inductive
invariant adds four facts.  `QueueShape`: an operation of the store's queue is
the only one of its handler, which waits for exactly that kind.
`ClaimShape`: who is in `resumeExact` holds the maintenance claim of an idle
Agent, or has given it back and waits for the removal of a stale incident;
since `inFlight` stays set until then, no second handler enters.
`PendingShape`: while no write fails, a candidate is in memory only until the
request-error handler of its turn returns, so it cannot hide the incident that
is resumed.  `TurnFits`: a turn that runs has its place in the log.

The order of incidents (`NewerIncidentKept`) rests on a second invariant, of
runs in which no write failed and the plugin ran on (`OrderShape`).
`RequestShape`: one candidate at a time is in memory, and it is the newest
incident.  `ChainShape`: a queued write is that of the candidate, with no write
behind it, or of the stored incident in another phase; so a handler that waited
writes in front of a newer failure or finds that it no longer waits for the
incident that counts.  `WaitShape`: a handler waits for the checkpoint of a turn
that its incident is about.  `FailShape`: the failure of the turn that ends is
recorded, or its assignment has no incident.  `Known` says of every incident
that no turn of its assignment failed after it, unless a newer one stands in
its place; without it the settlement of a resumed Goal could number an older
failure above a newer one.  The assumption on constants that `None` is no
incident is what a record of the store being distinct from `null` is in the
code; that no code is both automatic and unknown is `classifyApiFailure`, which
gives a code one class.

`OneFallback` rests on a third invariant of the same runs (`FShape`), which says
where the revision of the Goal may be between a resume and the failure of the
turn that it opened.  `EndedShape`: an incident past its first phase is about a
turn that ended, and only a resume in a new revision arms the Goal again.
`LiveShape`: the Goal of a `recovering` incident is the one that was resumed for
it, and it runs.  `PhaseShape`: the writes behind one another are the phases of
an incident in their order, and only a request error writes an `awaiting` one.
`RemovalShape`: what is taken away is an incident that the Goal went on
without.  `FallbackShape` puts them together: until the turn after a resume
fails, the resumed incident stays stored as `recovering`, so
`carryUnknownFallback` finds it, and an incident of the next turn with the same
code is `used`.  `RevisionShape`, `DueShape` and `FaultShape` are what these need
of the RuntimeState, of a handler that resumes and of a turn that fails.  An
attempt to prove the property for every later turn is what led to the overtaking
above; TLC confirmed it with three handlers and three turns.

`LineageProofs` proves `TypeOK` and every property of the run `lane` for any
number of calls, candidate ids, reviews, fixes and disturbances.  The
Assignments are ordered (`AtMost`): a review after everything of the reviews
before it, a fix after the APPROVED Assignment that it continues.  `RouteInv`
says that reviews are resolved one after the other, so a review that is not
resolved is the last one and nothing that the Coder has is newer; `CallInv`,
that a call carries an Assignment that is not newer than the Coder's and may
replace only an older one.  Hence no late installation replaces an applied
Goal (`NeverReplaced`), which is what `AppliedGoalIsDurable` needs.  `LineageInv`
says that whatever was captured belongs to a resolved review, and that a Trial
has its own generation, active or retired; a staged Assignment is of a review
without any capture, or has no artifact yet, so it cannot be among the retired
ones (`StagedFits`).  `PostInv` says that a pending Postflight of the present
Assignment has the Coder under review, and that there is one at most.  The
only assumption is that the bounds are numbers.

`ReviewProofs` proves `TypeOK` and all three safety properties of
`ReviewFreeze` (`JudgeSeesFrozenWork`, `HeldMeansHeld`, `ResolutionHasEffect`)
for any number of deliveries, turns, owners and disturbances.  The inductive
invariant is `ReviewInv`.  `OutcomeInv` ties the freeze of the review to the
outcome of the acknowledgement, and `NewInv` says that nothing of a review is
there before its request.  `TurnInv` is the argument of the turn: once an
outcome says that the reviewed turn is over it is never open again, since turns
are numbered and only the last one is open; a hold is acquired only for a
review that is `hold-pending`, and the acquisition that joins the turn has seen
it end.  `RestInv` is that of the Goal: as long as the install of the
RuntimeState is still the reviewed Assignment, the role is under review, so no
start of the Lab installs the Goal again, and the pause wrote it both in memory
and to disk before its outcome was recorded.  `HoldInv`: only a hold of the
present owner counts, and one is released only after the resolution, which
ends the freeze.  `EffectInv`: the Assignment in the install only grows, it
reaches memory before the disk and the disk before it is called applied, and
the commit of `assignMethod` follows the flush.  A runtime that is closing or down
has no start, acquisition or status task (`DownInv`), so nothing of a former
owner acts for the next one.

`LabProofs` proves `TypeOK`, `Dormant`, `AwakeWhenRunning`, `ResultIsTold`,
`WaitIsKept` (only an event and an
explicit resume end an `AutoLabWait`) and `TransitionsAreLegal` of
`LabLifecycle` for any number of Assignments and disturbances.  Whether an
operation may arm a Goal depends on what the Lab looked like when it entered
the queue, so the inductive invariant `LabInv` says for every place of an
operation what is still true there: a start is in a Lab that is not at rest
(`StartInv`), a pause finds its Controller or its Goal is not armed
(`PauseInv`), a Controller that waits is not about to be armed (`WaitInv`), and
an installation whose revision is still the present one is in a running Lab
(`AssignInv`).  `AwakeInv` says who arms the Controller of a Lab that runs or
starts while it is not armed: an attach or a resume that waits, or an operation
of its Agent; `GoalInv`, that a Goal the Lab calls applied survives a reload, so
that the event that ends a wait finds it; `PendInv`, that an attach whose Agent
went away is of no live Agent; `ToldInv`, who is about to tell of a result that
was not told.

Every safety property that a passing run checks is proved.  Liveness
(`QueueSettles`, `ClaimIsRecorded`, `RevokedLeavesInbox`,
`DeadWriterGivesWay`, `StaleLockGivesWay`, `EndIsTold`, `LossIsTold`,
`AutomaticFailureResumes`, `OperatorIsTold`, `ReviewProceeds`, `NoLimbo`) is
checked by TLC only: it is out of the prover's reach.

## Not modelled

Opening, migrating and securing the database file, list queries, name
resolution, rendering, schema validation, hashing and git plumbing are pure
functions or I/O without interleaving that matters to the properties.
Generated bundles (`lib/`) repeat `src/`.

Of a Preflight review: the hold of a borrowed Agent, REVIEW_ERROR, a second review of the same worker,
the retired control kinds that the provider keeps in memory, a shutdown during
a start of the Lab and the lifecycle "blocked" that follows.  Goals with the
same objective count as one.  Of API recovery: the review of a Judge as the
turn to continue, which takes the same path with an idempotent wake, and
several Sessions, which share no state.  Of the Coder's lineage: git objects
and worktrees, the bytes of receipts and captures that fail halfway, several
Lanes (which share the revision of the Lab only), the freeze of a Postflight in
detail (it is that of `ReviewFreeze`), a Method that submits while an APPROVED
review waits.  Of a Lab's life: its creation and revision (`configuring`,
`draft_ready`), Goals that users edit or that complete, several workers (which
share the queue and the lifecycle), roles that other roles coordinate, Smoke
and Packet tools.

## Plan

1. `LabState`: the compare-and-set on the revision under the owner epoch, and
   ownership adopted at startup; abstract specification: a sequence of updates
   by successive owners.
2. `ControlDelivery`: registration and retired kinds; composed with `Mailbox`
   as `RelayDelivery` is.
3. Role Sessions: bindings, creation and access lists.

A new module gets one run that answers both its safety and its liveness
questions, on an instance small enough for both.
