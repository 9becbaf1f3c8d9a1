------------------------------ MODULE Mailbox ------------------------------
(***************************************************************************)
(* The SQLite mailbox of dsh-local-session-messaging (src/database.ts):    *)
(* presence rows with a TTL and a fence, message rows with a delivery      *)
(* lease, the principal access policy, and the outcomes of typed controls. *)
(*                                                                         *)
(* Every mutation of the class MessagingDatabase is one BEGIN IMMEDIATE    *)
(* transaction, so every operation is one action.  A call that throws      *)
(* (FENCE_LOST, LEASE_LOST, INVALID_TRANSITION, PERMISSION_DENIED, ...)    *)
(* rolls back and changes nothing: such calls are the states in which the  *)
(* action is not enabled.                                                  *)
(*                                                                         *)
(* The callers are left unconstrained: any process may present any claim   *)
(* and any lease token at any time, so whatever holds here holds for every *)
(* provider, including one that was suspended for an hour and then goes    *)
(* on.  Module RelayDelivery composes this module with the real provider.  *)
(***************************************************************************)
EXTENDS Integers, FiniteSets

CONSTANTS
    Sessions,       \* addressable DSH sessions
    Instances,      \* provider processes (instance_id)
    NoInstance,     \* owner of a presence row that was never inserted
    Principals,     \* policy principals
    Messages,       \* caller-supplied message UUIDs
    Recipient,      \* envelope of a message: recipient_session_id
    SentBy,         \* envelope of a message: sender_principal_session_id
    SentTo,         \* envelope of a message: recipient_principal_session_id
    Texts,          \* the messages on channel 'text'; the rest are controls
    PresenceTtl,    \* presence leaseMs
    LeaseTtl,       \* delivery leaseMs
    MessageTtl,     \* ttlMs of an envelope
    MaxAttempts,    \* max_attempts of an envelope
    RetryDelay,     \* retryDelayMs
    MaxLag,         \* bound: how stale the clock reading of a transaction is
    MaxTime,        \* bound on the clock
    MaxFence        \* bound on presence fences

ASSUME EnvelopeAssumption ==
    /\ NoInstance \notin Instances
    /\ Recipient \in [Messages -> Sessions]
    /\ SentBy \in [Messages -> Principals]
    /\ SentTo \in [Messages -> Principals]
    /\ Texts \subseteq Messages

ASSUME TimingAssumption ==
    /\ PresenceTtl \in Nat \ {0}
    /\ LeaseTtl \in Nat \ {0}
    /\ MessageTtl \in Nat \ {0}
    /\ MaxAttempts \in Nat \ {0}
    /\ RetryDelay \in Nat
    /\ MaxLag \in Nat
    /\ MaxTime \in Nat
    /\ MaxFence \in Nat

VARIABLES
    now,        \* the wall clock all processes of the machine read
    presence,   \* presence[s]: the presence row of session s (fence 0: absent)
    policy,     \* policy[p]: the send and receive switches of principal p
    blocks,     \* the blocked pairs of principals
    row,        \* row[m]: the message row of m
    lastSeq,    \* the AUTOINCREMENT counter behind enqueue_seq
    outcome     \* outcome[m]: the control_outcomes row of control m

vars == <<now, presence, policy, blocks, row, lastSeq, outcome>>

Controls == Messages \ Texts

PolicyPairs == {pair \in SUBSET Principals : Cardinality(pair) = 2}

(* A claim as providers present it: the session, and who owns it since when. *)
Claims == [session : Sessions, instance : Instances, fence : 1..MaxFence]

(* The lease_* columns.  Each lease has a fresh random token; since each lease
   also adds one to attempt_count, the attempt number stands for the token. *)
Leases == [token : 1..MaxAttempts, instance : Instances, fence : Nat, until : Nat]

NoLease == [token |-> 0, instance |-> NoInstance, fence |-> 0, until |-> 0]

Statuses == {"absent", "queued", "accepted", "claimed", "failed", "expired"}

Rows == [status : Statuses, seq : Nat, availableAt : Nat, expiresAt : Nat,
         attempts : 0..MaxAttempts, lease : Leases \cup {NoLease},
         acceptedBy : Nat, claimedBy : Nat]

AbsentRow == [status |-> "absent", seq |-> 0, availableAt |-> 0, expiresAt |-> 0,
              attempts |-> 0, lease |-> NoLease, acceptedBy |-> 0, claimedBy |-> 0]

PresenceRows == [instance : Instances \cup {NoInstance}, fence : 0..MaxFence,
                 active : BOOLEAN, expiresAt : Nat]

Later(a, b) == IF a > b THEN a ELSE b

-----------------------------------------------------------------------------
(* Reading the tables                                                        *)

(* resolveNow() reads the clock before BEGIN IMMEDIATE is granted: the time a
   transaction works with may be older than the time at which it commits. *)
Readings == {t \in (now - MaxLag)..now : t >= 0}

Live(s, t) == presence[s].active /\ presence[s].expiresAt > t

(* requireCurrentPresence: the claim is the live owner of its session. *)
Current(c, t) ==
    /\ Live(c.session, t)
    /\ presence[c.session].instance = c.instance
    /\ presence[c.session].fence = c.fence

(* The envelope passes the directional policy; a text also the pair blocks. *)
DirectionAllowed(m) ==
    /\ policy[SentBy[m]].send
    /\ policy[SentTo[m]].receive

EnvelopeAllowed(m) ==
    /\ DirectionAllowed(m)
    /\ {SentBy[m], SentTo[m]} \notin blocks

Allowed(m) == IF m \in Texts THEN EnvelopeAllowed(m) ELSE DirectionAllowed(m)

Leased(m) == row[m].lease # NoLease

QueuedFor(s) == {m \in Messages : row[m].status = "queued" /\ Recipient[m] = s}

(* The lease of a queued row no longer protects a delivery in progress. *)
LeaseOver(m, t) ==
    LET lease == row[m].lease IN
    \/ ~Leased(m)
    \/ lease.until <= t
    \/ ~Current([session |-> Recipient[m], instance |-> lease.instance,
                 fence |-> lease.fence], t)

(* assertLease: the caller holds the delivery lease of m by its exact token.
   The elapsed time of the lease is not consulted. *)
HoldsLease(c, m, token) ==
    /\ row[m].status = "queued"
    /\ row[m].lease.token = token
    /\ row[m].lease.instance = c.instance
    /\ row[m].lease.fence = c.fence

-----------------------------------------------------------------------------
(* Presence                                                                  *)

Extend(s, t) == Later(presence[s].expiresAt, t + PresenceTtl)

(* upsertPresence by the live owner itself: the lease is extended in place. *)
RenewPresence(s, i, t) ==
    /\ Live(s, t)
    /\ presence[s].instance = i
    /\ presence' = [presence EXCEPT ![s].expiresAt = Extend(s, t)]
    /\ UNCHANGED <<now, policy, blocks, row, lastSeq, outcome>>

(* Mutant: the new owner goes on under the fence of the old one. *)
TakePresenceKeepingFence(s, i, t) ==
    /\ ~Live(s, t)
    /\ presence' = [presence EXCEPT ![s] =
           [instance |-> i, fence |-> Later(@.fence, 1), active |-> TRUE,
            expiresAt |-> t + PresenceTtl]]
    /\ UNCHANGED <<now, policy, blocks, row, lastSeq, outcome>>

(* upsertPresence of a session nobody owns any more: the fence advances. *)
TakePresence(s, i, t) ==
    /\ ~Live(s, t)
    /\ presence[s].fence < MaxFence
    /\ presence' = [presence EXCEPT ![s] =
           [instance |-> i, fence |-> @.fence + 1, active |-> TRUE,
            expiresAt |-> t + PresenceTtl]]
    /\ UNCHANGED <<now, policy, blocks, row, lastSeq, outcome>>

HeartbeatPresence(c, t) ==
    /\ Current(c, t)
    /\ presence' = [presence EXCEPT ![c.session].expiresAt = Extend(c.session, t)]
    /\ UNCHANGED <<now, policy, blocks, row, lastSeq, outcome>>

(* Mutant: the release leaves the fence to the released owner. *)
ReleasePresenceKeepingFence(c, t) ==
    /\ Current(c, t)
    /\ presence' = [presence EXCEPT ![c.session].active = FALSE,
                                    ![c.session].expiresAt = t]
    /\ UNCHANGED <<now, policy, blocks, row, lastSeq, outcome>>

(* releasePresence: late callbacks of the released owner fail on the fence. *)
ReleasePresence(c, t) ==
    /\ Current(c, t)
    /\ presence[c.session].fence < MaxFence
    /\ LET owned == presence[c.session] IN
          presence' = [presence EXCEPT ![c.session] =
              [owned EXCEPT !.fence = owned.fence + 1, !.active = FALSE, !.expiresAt = t]]
    /\ UNCHANGED <<now, policy, blocks, row, lastSeq, outcome>>

(* expirePresence: one statement deactivates every elapsed row. *)
ExpirePresence(t) ==
    LET due == {s \in Sessions : presence[s].active /\ presence[s].expiresAt <= t} IN
    /\ due # {}
    /\ \A s \in due : presence[s].fence < MaxFence
    /\ presence' = [s \in Sessions |->
           IF s \in due
           THEN [presence[s] EXCEPT !.active = FALSE, !.fence = @ + 1]
           ELSE presence[s]]
    /\ UNCHANGED <<now, policy, blocks, row, lastSeq, outcome>>

-----------------------------------------------------------------------------
(* Access policy                                                             *)

Settle(r, status) == [r EXCEPT !.status = status, !.lease = NoLease]

(* The rows with the members of S settled as status. *)
SettleAll(S, status) ==
    [m \in Messages |-> IF m \in S THEN Settle(row[m], status) ELSE row[m]]

(* Mutant: a revocation settles leased rows too. *)
QueuedText == {m \in Texts : row[m].status = "queued"}

(* Queued text that no delivery lease covers: what a revocation cuts off. *)
UnleasedText == {m \in Texts : row[m].status = "queued" /\ ~Leased(m)}

(* Mutant: only the sender's direction is cut off. *)
CutOffSent(p, send, receive) == {m \in UnleasedText : ~send /\ SentBy[m] = p}

CutOff(p, send, receive) ==
    {m \in UnleasedText : \/ ~send /\ SentBy[m] = p
                          \/ ~receive /\ SentTo[m] = p}

SetSessionPolicy(p, send, receive) ==
    /\ policy' = [policy EXCEPT ![p] = [send |-> send, receive |-> receive]]
    /\ row' = SettleAll(CutOff(p, send, receive), "failed")
    /\ UNCHANGED <<now, presence, blocks, lastSeq, outcome>>

Between(pair) == {m \in UnleasedText : {SentBy[m], SentTo[m]} = pair}

(* setPairBlocked(true): the block is symmetric, so both directions are cut. *)
BlockPair(pair) ==
    /\ blocks' = blocks \cup {pair}
    /\ row' = SettleAll(Between(pair), "failed")
    /\ UNCHANGED <<now, presence, policy, lastSeq, outcome>>

UnblockPair(pair) ==
    /\ blocks' = blocks \ {pair}
    /\ UNCHANGED <<now, presence, policy, row, lastSeq, outcome>>

-----------------------------------------------------------------------------
(* Message rows                                                              *)

NewRow(t) == [status |-> "queued", seq |-> lastSeq + 1,
              availableAt |-> t, expiresAt |-> t + MessageTtl,
              attempts |-> 0, lease |-> NoLease, acceptedBy |-> 0, claimedBy |-> 0]

(* enqueue of a fresh id.  A repeat of the id changes nothing, whether it is
   answered as a duplicate or refused as a collision. *)
Enqueue(m, t) ==
    /\ Allowed(m)
    /\ row[m].status = "absent"
    /\ lastSeq' = lastSeq + 1
    /\ row' = [row EXCEPT ![m] = NewRow(t)]
    /\ UNCHANGED <<now, presence, policy, blocks, outcome>>

(* Mutant: the sweep forgets the TTL. *)
NeverOverdue(s, t) == {}

(* terminalizeDueForRecipientInTransaction, first statement: leased or not. *)
Overdue(s, t) == {m \in QueuedFor(s) : row[m].expiresAt <= t}

(* ... second statement: no attempt is left and none is in progress. *)
Exhausted(s, t) ==
    {m \in QueuedFor(s) : /\ row[m].expiresAt > t
                          /\ row[m].attempts >= MaxAttempts
                          /\ LeaseOver(m, t)}

(* Mutant: an elapsed lease still protects a revoked row. *)
UnauthorizedUnleased(s, t) ==
    {m \in QueuedFor(s) \cap Texts : ~Leased(m) /\ ~EnvelopeAllowed(m)}

(* terminalizeUnauthorizedForRecipientInTransaction: text only. *)
Unauthorized(s, t) ==
    {m \in QueuedFor(s) \cap Texts : LeaseOver(m, t) /\ ~EnvelopeAllowed(m)}

(* The rows after the due sweep of one recipient ... *)
SweptDue(s, t) ==
    [m \in Messages |->
        CASE m \in Overdue(s, t)   -> Settle(row[m], "expired")
          [] m \in Exhausted(s, t) -> Settle(row[m], "failed")
          [] OTHER                 -> row[m]]

(* ... and after both sweeps that precede a delivery claim. *)
Swept(s, t) ==
    [m \in Messages |->
        IF m \in Unauthorized(s, t) \ Overdue(s, t)
        THEN Settle(row[m], "failed")
        ELSE SweptDue(s, t)[m]]

(* Mutant: ORDER BY available_at, so that a row backing off is overtaken. *)
HeadByAvailability(rows, m) ==
    /\ rows[m].status = "queued"
    /\ \A n \in Messages :
           rows[n].status = "queued" /\ Recipient[n] = Recipient[m]
               => rows[m].availableAt <= rows[n].availableAt

(* m is the queued row of its recipient with the least enqueue_seq. *)
Head(rows, m) ==
    /\ rows[m].status = "queued"
    /\ \A n \in Messages :
           rows[n].status = "queued" /\ Recipient[n] = Recipient[m]
               => rows[m].seq <= rows[n].seq

(* The head may be leased to the claimer: it is due, it is not backing off,
   and the claimer does not already hold a running lease on it. *)
Claimable(rows, c, m, t) ==
    /\ Recipient[m] = c.session
    /\ Head(rows, m)
    /\ rows[m].availableAt <= t
    /\ rows[m].expiresAt > t
    /\ rows[m].attempts < MaxAttempts
    /\ \/ rows[m].lease = NoLease
       \/ rows[m].lease.until <= t
       \/ rows[m].lease.instance # c.instance
       \/ rows[m].lease.fence # c.fence

Grant(r, c, t) ==
    [r EXCEPT !.attempts = @ + 1,
              !.lease = [token |-> r.attempts + 1, instance |-> c.instance,
                         fence |-> c.fence, until |-> t + LeaseTtl]]

(* claimNextDelivery: sweep, then lease the strict FIFO head if it is free. *)
ClaimNextDelivery(c, t) ==
    LET swept == Swept(c.session, t)
        ready == {m \in Messages : Claimable(swept, c, m, t)} IN
    /\ QueuedFor(c.session) # {}
    /\ Current(c, t)
    /\ row' = [m \in Messages |-> IF m \in ready THEN Grant(swept[m], c, t)
                                                ELSE swept[m]]
    /\ UNCHANGED <<now, presence, policy, blocks, lastSeq, outcome>>

(* Mutant: the acknowledged row keeps its lease columns. *)
AcceptKeepingLease(r, c) == [r EXCEPT !.status = "accepted", !.acceptedBy = c.fence]

Accept(r, c) == [r EXCEPT !.status = "accepted", !.lease = NoLease,
                          !.acceptedBy = c.fence]

(* COALESCE(accepted_by, ...): an admission already acknowledged stays so. *)
Claim(r, c) == [r EXCEPT !.status = "claimed", !.lease = NoLease,
                         !.acceptedBy = IF @ = 0 THEN c.fence ELSE @,
                         !.claimedBy = c.fence]

(* The guard every mutation of a delivered message starts with. *)
Addressed(c, m, t) == Current(c, t) /\ Recipient[m] = c.session

ChangeRow(m, r) ==
    /\ row' = [row EXCEPT ![m] = r]
    /\ UNCHANGED <<now, presence, policy, blocks, lastSeq>>

(* acceptDelivery: Inbox admission is durable, acknowledge it. *)
AcceptDelivery(c, m, token, t) ==
    /\ m \in Texts
    /\ Addressed(c, m, t)
    /\ HoldsLease(c, m, token)
    /\ ChangeRow(m, Accept(row[m], c))
    /\ UNCHANGED outcome

(* recoverAccepted: the session log proves admission; no lease is needed. *)
RecoverAccepted(c, m, t) ==
    /\ m \in Texts
    /\ Addressed(c, m, t)
    /\ row[m].status = "queued"
    /\ ChangeRow(m, Accept(row[m], c))
    /\ UNCHANGED outcome

(* markClaimed: the agent took the message out of its Inbox. *)
MarkClaimed(c, m, t) ==
    /\ m \in Texts
    /\ Addressed(c, m, t)
    /\ row[m].status \in {"queued", "accepted"}
    /\ ChangeRow(m, Claim(row[m], c))
    /\ UNCHANGED outcome

(* Mutant: a late discard overrides a recorded claim. *)
DiscardAnyway(c, m, t) ==
    /\ m \in Texts
    /\ Addressed(c, m, t)
    /\ row[m].status \in {"queued", "accepted", "claimed"}
    /\ ChangeRow(m, Settle(row[m], "failed"))
    /\ UNCHANGED outcome

(* markDiscarded: the Inbox dropped the message. *)
MarkDiscarded(c, m, t) ==
    /\ m \in Texts
    /\ Addressed(c, m, t)
    /\ row[m].status \in {"queued", "accepted"}
    /\ ChangeRow(m, Settle(row[m], "failed"))
    /\ UNCHANGED outcome

BackOff(r, t) == [r EXCEPT !.lease = NoLease,
                           !.availableAt = Later(@, t + RetryDelay)]

(* retryDelivery and retryControlDelivery: back off, or fail the exhausted
   head; a control that fails this way gets its outcome with it. *)
RetryDelivery(c, m, token, t) ==
    /\ Addressed(c, m, t)
    /\ HoldsLease(c, m, token)
    /\ \/ /\ row[m].attempts < MaxAttempts
          /\ ChangeRow(m, BackOff(row[m], t))
          /\ UNCHANGED outcome
       \/ /\ row[m].attempts >= MaxAttempts
          /\ ChangeRow(m, Settle(row[m], "failed"))
          /\ outcome' = IF m \in Controls THEN [outcome EXCEPT ![m] = "failed"]
                                          ELSE outcome

(* failDelivery and failControlDelivery: fail at once, without a retry. *)
FailDelivery(c, m, token, t) ==
    /\ Addressed(c, m, t)
    /\ HoldsLease(c, m, token)
    /\ ChangeRow(m, Settle(row[m], "failed"))
    /\ outcome' = IF m \in Controls THEN [outcome EXCEPT ![m] = "failed"]
                                    ELSE outcome

(* Mutant: the outcome is a transaction of its own. *)
RecordOutcomeOnly(c, m, token, result, t) ==
    /\ m \in Controls
    /\ Addressed(c, m, t)
    /\ outcome[m] = "none"
    /\ HoldsLease(c, m, token)
    /\ outcome' = [outcome EXCEPT ![m] = result]
    /\ UNCHANGED <<now, presence, policy, blocks, row, lastSeq>>

(* completeControlDelivery: the handler's result and the end of the row are
   one transaction.  With an outcome on record the call only reads. *)
CompleteControlDelivery(c, m, token, result, t) ==
    /\ m \in Controls
    /\ Addressed(c, m, t)
    /\ outcome[m] = "none"
    /\ HoldsLease(c, m, token)
    /\ ChangeRow(m, Claim(row[m], c))
    /\ outcome' = [outcome EXCEPT ![m] = result]

(* terminalizeDue: the sweep over all recipients, unleased rows only. *)
TerminalizeDue(t) ==
    /\ row' = [m \in Messages |->
           IF row[m].status # "queued" \/ Leased(m) THEN row[m]
           ELSE IF row[m].expiresAt <= t THEN Settle(row[m], "expired")
           ELSE IF row[m].attempts >= MaxAttempts THEN Settle(row[m], "failed")
           ELSE row[m]]
    /\ UNCHANGED <<now, presence, policy, blocks, lastSeq, outcome>>

(* terminalizeDueForRecipient: the sweep of one recipient by its owner. *)
TerminalizeDueForRecipient(c, t) ==
    /\ Current(c, t)
    /\ row' = SweptDue(c.session, t)
    /\ UNCHANGED <<now, presence, policy, blocks, lastSeq, outcome>>

-----------------------------------------------------------------------------
(* Specification                                                             *)

Init ==
    /\ now = 0
    /\ presence = [s \in Sessions |-> [instance |-> NoInstance, fence |-> 0,
                                       active |-> FALSE, expiresAt |-> 0]]
    /\ policy = [p \in Principals |-> [send |-> TRUE, receive |-> TRUE]]
    /\ blocks = {}
    /\ row = [m \in Messages |-> AbsentRow]
    /\ lastSeq = 0
    /\ outcome = [m \in Messages |-> "none"]

Tick ==
    /\ now < MaxTime
    /\ now' = now + 1
    /\ UNCHANGED <<presence, policy, blocks, row, lastSeq, outcome>>

PresenceStep(t) ==
    \/ \E s \in Sessions, i \in Instances : RenewPresence(s, i, t) \/ TakePresence(s, i, t)
    \/ \E c \in Claims : HeartbeatPresence(c, t) \/ ReleasePresence(c, t)
    \/ ExpirePresence(t)

PolicyStep ==
    \/ \E p \in Principals, send, receive \in BOOLEAN : SetSessionPolicy(p, send, receive)
    \/ \E pair \in PolicyPairs : BlockPair(pair) \/ UnblockPair(pair)

DeliveryStep(c, m, t) ==
    \/ RecoverAccepted(c, m, t)
    \/ MarkClaimed(c, m, t)
    \/ MarkDiscarded(c, m, t)
    \/ \E token \in 1..MaxAttempts :
          \/ AcceptDelivery(c, m, token, t)
          \/ RetryDelivery(c, m, token, t)
          \/ FailDelivery(c, m, token, t)
          \/ \E result \in {"completed", "rejected"} :
                CompleteControlDelivery(c, m, token, result, t)

MessageStep(t) ==
    \/ \E m \in Messages : Enqueue(m, t)
    \/ \E c \in Claims : ClaimNextDelivery(c, t) \/ TerminalizeDueForRecipient(c, t)
    \/ \E c \in Claims, m \in Messages : DeliveryStep(c, m, t)
    \/ TerminalizeDue(t)

Next ==
    \/ Tick
    \/ PolicyStep
    \/ \E t \in Readings : PresenceStep(t) \/ MessageStep(t)

Spec == Init /\ [][Next]_vars

-----------------------------------------------------------------------------
(* Properties                                                                *)

(* Every table holds rows of the schema's shape (database.ts, initialize). *)
TypeOK ==
    /\ now \in 0..MaxTime
    /\ presence \in [Sessions -> PresenceRows]
    /\ policy \in [Principals -> [send : BOOLEAN, receive : BOOLEAN]]
    /\ blocks \in SUBSET PolicyPairs
    /\ row \in [Messages -> Rows]
    /\ lastSeq \in Nat
    /\ outcome \in [Messages -> {"none", "completed", "rejected", "failed"}]

(* The CHECK constraints and the unique index messages_one_recipient_lease
   are never what stops a transaction: rows are numbered apart, only queued
   rows are leased, under the token of their latest attempt, a row is
   acknowledged exactly in the states that say so, and no recipient ever has
   two leased rows, although a lease is granted without looking at the other
   rows' leases. *)
RowConsistent(m) ==
    /\ row[m].status = "absent" => row[m] = AbsentRow
    /\ row[m].status # "absent" => row[m].seq \in 1..lastSeq
    /\ Leased(m) => row[m].status = "queued" /\ row[m].lease.token = row[m].attempts
    /\ row[m].status \in {"accepted", "claimed"} => row[m].acceptedBy > 0
    /\ row[m].status \in {"queued", "expired"} => row[m].acceptedBy = 0
    /\ row[m].status = "claimed" <=> row[m].claimedBy > 0

SchemaHolds ==
    /\ \A m \in Messages : RowConsistent(m)
    /\ \A m, n \in Messages :
          row[m].seq = row[n].seq /\ row[m].status # "absent" => m = n
    /\ \A m, n \in Messages :
          Leased(m) /\ Leased(n) /\ Recipient[m] = Recipient[n] => m = n

(* Strict FIFO per recipient across retries, owner changes and sweeps: a
   message is never attempted while an earlier one of the same recipient is
   still queued, even if the earlier one is backing off. *)
StrictFifo ==
    \A m, n \in Messages :
        /\ Recipient[m] = Recipient[n]
        /\ row[m].attempts > 0
        /\ row[n].status = "queued"
        => row[m].seq <= row[n].seq

(* Owners acknowledge in fence order: a claim is never recorded under an
   older fence than the admission, no acknowledgement or lease carries a
   fence that was not issued yet, and a lease under the current fence belongs
   to the current owner, so a former owner's lease cannot pass for his. *)
AckFencing ==
    \A m \in Messages :
        LET owner == presence[Recipient[m]] IN
        /\ row[m].acceptedBy <= owner.fence
        /\ row[m].claimedBy <= owner.fence
        /\ row[m].status = "claimed" => row[m].acceptedBy <= row[m].claimedBy
        /\ row[m].lease.fence <= owner.fence
        /\ Leased(m) /\ row[m].lease.fence = owner.fence
              => owner.active /\ owner.instance = row[m].lease.instance

(* A control is consumed if and only if a handler result is on record, and a
   recorded failure means the row failed: the two never disagree, whichever
   sweep, retry or repeated completion comes in between.  No control waits in
   an Inbox. *)
OutcomeMatchesRow ==
    \A m \in Controls :
        /\ row[m].status # "accepted"
        /\ outcome[m] \in {"completed", "rejected"} <=> row[m].status = "claimed"
        /\ outcome[m] = "failed" => row[m].status = "failed"

(* A revocation leaves no backlog: text that was never attempted waits only
   while its envelope is allowed, whatever was switched off, blocked and
   switched on again in between. *)
NoRevokedBacklog ==
    \A m \in Texts :
        row[m].status = "queued" /\ row[m].attempts = 0 => EnvelopeAllowed(m)

(* The fence of a session never goes back, it moves on whenever the session
   changes hands or comes back to life, and so one fence means one owner. *)
PresenceFencing ==
    [][\A s \in Sessions :
          /\ presence'[s].fence >= presence[s].fence
          /\ presence'[s].fence = presence[s].fence =>
                /\ presence'[s].instance = presence[s].instance
                /\ presence'[s].active = presence[s].active]_vars

(* Lease acquisition is the linearization point of the access policy: no
   attempt starts for a text whose envelope is not allowed at that moment,
   not even for a row that was leased, given back or taken over before. *)
GrantAuthorized ==
    [][\A m \in Texts : row'[m].attempts > row[m].attempts => EnvelopeAllowed(m)]_vars

(* The mailbox implements the life cycle promised to senders. *)
Lifecycle == INSTANCE MessageLifecycle WITH
    status <- [m \in Messages |-> row[m].status],
    tries  <- [m \in Messages |-> row[m].attempts]

ImplementsLifecycle == Lifecycle!LSpec

=============================================================================
