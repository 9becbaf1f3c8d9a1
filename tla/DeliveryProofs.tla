--------------------------- MODULE DeliveryProofs ---------------------------
(***************************************************************************)
(* Theorems about the delivery of messages, for every number of sessions,  *)
(* processes, principals and messages and every duration and bound: about  *)
(* the database (module Mailbox), then about a provider that delivers from *)
(* it (module RelayDelivery).  The provider uses the mailbox only in ways  *)
(* that Mailbox allows, so the theorems of the first part carry over; the  *)
(* second adds the order in which messages enter the Session, and that     *)
(* none is acknowledged before it is in the Session log.                   *)
(***************************************************************************)
EXTENDS RelayDelivery, TLAPS

USE EnvelopeAssumption, TimingAssumption

-----------------------------------------------------------------------------
(* What the operators on a message row do to its fields.                     *)

LEMMA NoLeaseIsNoLease ==
    ASSUME NEW lease \in Leases
    PROVE  lease # NoLease /\ lease.token # 0
BY DEF Leases, NoLease

LEMMA AbsentRowType == AbsentRow \in Rows
BY DEF AbsentRow, Rows, Statuses

LEMMA SettleRow ==
    ASSUME NEW r \in Rows, NEW status \in Statuses
    PROVE  /\ Settle(r, status) \in Rows
           /\ Settle(r, status).status = status
           /\ Settle(r, status).lease = NoLease
           /\ Settle(r, status).seq = r.seq
           /\ Settle(r, status).attempts = r.attempts
           /\ Settle(r, status).expiresAt = r.expiresAt
           /\ Settle(r, status).acceptedBy = r.acceptedBy
           /\ Settle(r, status).claimedBy = r.claimedBy
BY DEF Settle, Rows

LEMMA GrantRow ==
    ASSUME NEW r \in Rows, NEW c \in Claims, NEW t \in Nat, r.attempts < MaxAttempts
    PROVE  /\ Grant(r, c, t) \in Rows
           /\ Grant(r, c, t).status = r.status
           /\ Grant(r, c, t).lease # NoLease
           /\ Grant(r, c, t).lease.token = r.attempts + 1
           /\ Grant(r, c, t).lease.fence = c.fence
           /\ Grant(r, c, t).lease.instance = c.instance
           /\ Grant(r, c, t).seq = r.seq
           /\ Grant(r, c, t).attempts = r.attempts + 1
           /\ Grant(r, c, t).acceptedBy = r.acceptedBy
           /\ Grant(r, c, t).claimedBy = r.claimedBy
<1> DEFINE lease == [token |-> r.attempts + 1, instance |-> c.instance,
                     fence |-> c.fence, until |-> t + LeaseTtl]
<1>1. r.attempts + 1 \in 1..MaxAttempts /\ r.attempts + 1 \in 0..MaxAttempts
  BY DEF Rows
<1>2. lease \in Leases /\ lease.token = r.attempts + 1
      /\ lease.fence = c.fence /\ lease.instance = c.instance
  <2>1. c.instance \in Instances /\ c.fence \in Nat
    BY DEF Claims
  <2>2. t + LeaseTtl \in Nat
    OBVIOUS
  <2> QED
    BY <1>1, <2>1, <2>2 DEF Leases
<1>3. lease # NoLease
  BY <1>2, NoLeaseIsNoLease
<1>4. Grant(r, c, t) = [r EXCEPT !.attempts = r.attempts + 1, !.lease = lease]
  BY DEF Grant, Rows
<1> HIDE DEF lease
<1> QED
  BY <1>1, <1>2, <1>3, <1>4 DEF Rows

LEMMA AcceptRow ==
    ASSUME NEW r \in Rows, NEW c \in Claims
    PROVE  /\ Accept(r, c) \in Rows
           /\ Accept(r, c).status = "accepted"
           /\ Accept(r, c).lease = NoLease
           /\ Accept(r, c).seq = r.seq
           /\ Accept(r, c).attempts = r.attempts
           /\ Accept(r, c).acceptedBy = c.fence
           /\ Accept(r, c).claimedBy = r.claimedBy
<1>1. c.fence \in Nat
  BY DEF Claims
<1> QED
  BY <1>1 DEF Accept, Rows, Statuses

LEMMA ClaimRow ==
    ASSUME NEW r \in Rows, NEW c \in Claims
    PROVE  /\ Claim(r, c) \in Rows
           /\ Claim(r, c).status = "claimed"
           /\ Claim(r, c).lease = NoLease
           /\ Claim(r, c).seq = r.seq
           /\ Claim(r, c).attempts = r.attempts
           /\ Claim(r, c).acceptedBy = IF r.acceptedBy = 0 THEN c.fence ELSE r.acceptedBy
           /\ Claim(r, c).claimedBy = c.fence
<1> DEFINE first == IF r.acceptedBy = 0 THEN c.fence ELSE r.acceptedBy
<1>1. c.fence \in Nat
  BY DEF Claims
<1>2. first \in Nat
  BY <1>1 DEF Rows
<1>3. Claim(r, c) = [r EXCEPT !.status = "claimed", !.lease = NoLease,
                              !.acceptedBy = first, !.claimedBy = c.fence]
  BY DEF Claim, Rows
<1> HIDE DEF first
<1>4. /\ Claim(r, c) \in Rows
      /\ Claim(r, c).status = "claimed"
      /\ Claim(r, c).lease = NoLease
      /\ Claim(r, c).seq = r.seq
      /\ Claim(r, c).attempts = r.attempts
      /\ Claim(r, c).acceptedBy = first
      /\ Claim(r, c).claimedBy = c.fence
  BY <1>1, <1>2, <1>3 DEF Rows, Statuses
<1> QED
  BY <1>4 DEF first

LEMMA BackOffRow ==
    ASSUME NEW r \in Rows, NEW t \in Nat
    PROVE  /\ BackOff(r, t) \in Rows
           /\ BackOff(r, t).status = r.status
           /\ BackOff(r, t).lease = NoLease
           /\ BackOff(r, t).seq = r.seq
           /\ BackOff(r, t).attempts = r.attempts
           /\ BackOff(r, t).acceptedBy = r.acceptedBy
           /\ BackOff(r, t).claimedBy = r.claimedBy
<1> DEFINE due == Later(r.availableAt, t + RetryDelay)
<1>1. due \in Nat
  BY DEF Rows, Later
<1>2. BackOff(r, t) = [r EXCEPT !.lease = NoLease, !.availableAt = due]
  BY DEF BackOff, Rows
<1> HIDE DEF due
<1> QED
  BY <1>1, <1>2 DEF Rows

LEMMA NewRowRow ==
    ASSUME NEW t \in Nat, lastSeq \in Nat
    PROVE  /\ NewRow(t) \in Rows
           /\ NewRow(t).status = "queued"
           /\ NewRow(t).lease = NoLease
           /\ NewRow(t).seq = lastSeq + 1
           /\ NewRow(t).attempts = 0
           /\ NewRow(t).acceptedBy = 0
           /\ NewRow(t).claimedBy = 0
<1>1. lastSeq + 1 \in Nat /\ t + MessageTtl \in Nat
  OBVIOUS
<1> QED
  BY <1>1 DEF NewRow, Rows, Statuses

-----------------------------------------------------------------------------
(* Every transaction changes a message row in one of these ways.  The proofs *)
(* below argue about them instead of about the operations one by one.        *)

Entered(m) ==
    /\ outcome'[m] = outcome[m]
    /\ row[m].status = "absent"
    /\ Allowed(m)
    /\ lastSeq' = lastSeq + 1
    /\ UNCHANGED <<policy, blocks>>
    /\ \A n \in Messages : n # m => row'[n] = row[n]
    /\ \E t \in Nat : row'[m] = NewRow(t)

Settled(m) ==
    /\ \/ row[m].status = "queued"
       \/ row[m].status = "accepted" /\ row'[m].status = "failed"
    /\ row'[m].status \in {"failed", "expired"}
    /\ row'[m] = Settle(row[m], row'[m].status)
    /\ \/ outcome'[m] = outcome[m]
       \/ row'[m].status = "failed" /\ outcome'[m] = "failed"

LeaseGranted(m) ==
    /\ outcome'[m] = outcome[m]
    /\ row[m].status = "queued"
    /\ row[m].attempts < MaxAttempts
    /\ m \in Texts => EnvelopeAllowed(m)
    /\ \A n \in Messages :
          row'[n].status = "queued" /\ Recipient[n] = Recipient[m]
              => row[m].seq <= row[n].seq
    /\ \E c \in Claims, t \in Nat :
          /\ c.session = Recipient[m]
          /\ Current(c, t)
          /\ row'[m] = Grant(row[m], c, t)

Admitted(m) ==
    /\ outcome'[m] = outcome[m]
    /\ m \in Texts
    /\ row[m].status = "queued"
    /\ \E c \in Claims, t \in Nat :
          /\ c.session = Recipient[m]
          /\ Current(c, t)
          /\ row'[m] = Accept(row[m], c)

Consumed(m) ==
    /\ row[m].status \in {"queued", "accepted"}
    /\ m \in Texts \/ Leased(m)
    /\ m \in Controls => outcome'[m] \in {"completed", "rejected"}
    /\ \E c \in Claims, t \in Nat :
          /\ c.session = Recipient[m]
          /\ Current(c, t)
          /\ row'[m] = Claim(row[m], c)

BackedOff(m) ==
    /\ outcome'[m] = outcome[m]
    /\ row[m].status = "queued"
    /\ Leased(m)
    /\ \E t \in Nat : row'[m] = BackOff(row[m], t)

RowStep(m) ==
    \/ row'[m] = row[m] /\ outcome'[m] = outcome[m]
    \/ Entered(m) \/ Settled(m) \/ LeaseGranted(m)
    \/ Admitted(m) \/ Consumed(m) \/ BackedOff(m)

(* The transactions that change one row at most leave the others alone. *)
LEMMA ChangeRowStep ==
    ASSUME TypeOK, NEW m \in Messages, NEW r, ChangeRow(m, r),
           outcome' = outcome \/ \E v : outcome' = [outcome EXCEPT ![m] = v]
    PROVE  /\ row'[m] = r
           /\ \A n \in Messages : n # m => row'[n] = row[n] /\ outcome'[n] = outcome[n]
           /\ row' = [n \in Messages |-> row'[n]]
BY DEF ChangeRow, TypeOK

LEMMA ReadingsAreTimes == TypeOK => Readings \subseteq Nat
BY DEF TypeOK, Readings

(* A statement that fails a set of queued rows and does nothing else. *)
SettlesQueued(S) ==
    /\ \A m \in S : row[m].status = "queued"
    /\ row' = SettleAll(S, "failed")
    /\ outcome' = outcome

LEMMA SettleAllSteps ==
    ASSUME TypeOK, NEW S, SettlesQueued(S)
    PROVE  /\ \A m \in Messages : RowStep(m)
           /\ row' = [m \in Messages |-> row'[m]]
<1> SUFFICES ASSUME NEW m \in Messages
             PROVE  RowStep(m)
  BY DEF SettlesQueued, SettleAll
<1>1. row[m] \in Rows
  BY DEF TypeOK
<1>2. row'[m] = (IF m \in S THEN Settle(row[m], "failed") ELSE row[m])
  BY DEF SettlesQueued, SettleAll
<1>3. Settle(row[m], "failed").status = "failed"
  BY <1>1, SettleRow DEF Statuses
<1> QED
  BY <1>2, <1>3 DEF RowStep, Settled, SettlesQueued

LEMMA PolicyRowSteps ==
    ASSUME TypeOK, PolicyStep
    PROVE  /\ \A m \in Messages : RowStep(m)
           /\ row' = [m \in Messages |-> row'[m]]
<1>1. ASSUME NEW p \in Principals, NEW send \in BOOLEAN, NEW receive \in BOOLEAN,
             SetSessionPolicy(p, send, receive)
      PROVE  SettlesQueued(CutOff(p, send, receive))
  <2>1. CutOff(p, send, receive) \subseteq UnleasedText
    BY DEF CutOff
  <2> QED
    BY <1>1, <2>1 DEF SetSessionPolicy, SettlesQueued, UnleasedText
<1>2. ASSUME NEW pair \in PolicyPairs, BlockPair(pair)
      PROVE  SettlesQueued(Between(pair))
  BY <1>2 DEF BlockPair, SettlesQueued, UnleasedText, Between
<1>3. ASSUME NEW pair \in PolicyPairs, UnblockPair(pair)
      PROVE  row' = row /\ outcome' = outcome
  BY <1>3 DEF UnblockPair
<1> QED
  BY <1>1, <1>2, <1>3, SettleAllSteps DEF PolicyStep, RowStep, TypeOK

-----------------------------------------------------------------------------
(* The sweeps before a claim settle queued rows and leave the others alone.  *)

SweptTo(m, r) ==
    \/ r = row[m]
    \/ /\ row[m].status = "queued"
       /\ r.status \in {"failed", "expired"}
       /\ r = Settle(row[m], r.status)

LEMMA SweptDueRow ==
    ASSUME TypeOK, NEW s, NEW t \in Nat, NEW m \in Messages
    PROVE  SweptTo(m, SweptDue(s, t)[m])
<1>1. row[m] \in Rows
  BY DEF TypeOK
<1>2. /\ Settle(row[m], "failed").status = "failed"
      /\ Settle(row[m], "expired").status = "expired"
  BY <1>1, SettleRow DEF Statuses
<1>3. m \in Overdue(s, t) \/ m \in Exhausted(s, t) => row[m].status = "queued"
  BY DEF Overdue, Exhausted, QueuedFor
<1>4. CASE m \in Overdue(s, t)
  <2>1. SweptDue(s, t)[m] = Settle(row[m], "expired")
    <3>1. m \notin Exhausted(s, t)
      BY <1>1, <1>4 DEF Overdue, Exhausted, Rows
    <3> QED
      BY <1>4, <3>1 DEF SweptDue
  <2> QED
    BY <1>2, <1>3, <1>4, <2>1 DEF SweptTo
<1>5. CASE m \notin Overdue(s, t) /\ m \in Exhausted(s, t)
  <2>1. SweptDue(s, t)[m] = Settle(row[m], "failed")
    BY <1>5 DEF SweptDue
  <2> QED
    BY <1>2, <1>3, <1>5, <2>1 DEF SweptTo
<1>6. CASE m \notin Overdue(s, t) /\ m \notin Exhausted(s, t)
  BY <1>6 DEF SweptDue, SweptTo
<1> QED
  BY <1>4, <1>5, <1>6

LEMMA SweptRow ==
    ASSUME TypeOK, NEW s, NEW t \in Nat, NEW m \in Messages
    PROVE  SweptTo(m, Swept(s, t)[m])
<1>1. row[m] \in Rows
  BY DEF TypeOK
<1>2. CASE m \in Unauthorized(s, t) \ Overdue(s, t)
  <2>1. Swept(s, t)[m] = Settle(row[m], "failed")
    BY <1>2 DEF Swept
  <2>2. row[m].status = "queued"
    BY <1>2 DEF Unauthorized, QueuedFor
  <2> QED
    BY <1>1, <2>1, <2>2, SettleRow DEF SweptTo, Statuses
<1>3. CASE m \notin Unauthorized(s, t) \ Overdue(s, t)
  <2>1. Swept(s, t)[m] = SweptDue(s, t)[m]
    BY <1>3 DEF Swept
  <2> QED
    BY <2>1, SweptDueRow
<1> QED
  BY <1>2, <1>3

(* What is still queued after the sweeps was not touched by them, and if it is
   text that nobody is delivering, its envelope is allowed. *)
LEMMA SweptQueued ==
    ASSUME TypeOK, NEW s, NEW t \in Nat, NEW m \in Messages,
           Swept(s, t)[m].status = "queued"
    PROVE  /\ Swept(s, t)[m] = row[m]
           /\ m \in Texts /\ Recipient[m] = s /\ LeaseOver(m, t) => EnvelopeAllowed(m)
<1>1. Swept(s, t)[m] = row[m]
  BY SweptRow DEF SweptTo
<1>2. row[m] \in Rows
  BY DEF TypeOK
<1>3. ASSUME m \in Unauthorized(s, t) PROVE FALSE
  <2>1. CASE m \in Overdue(s, t)
    <3>1. m \notin Exhausted(s, t)
      BY <1>2, <2>1 DEF Overdue, Exhausted, Rows
    <3>2. Swept(s, t)[m] = Settle(row[m], "expired")
      BY <2>1, <3>1 DEF Swept, SweptDue
    <3> QED
      BY <1>2, <3>2, SettleRow DEF Statuses
  <2>2. CASE m \notin Overdue(s, t)
    <3>1. Swept(s, t)[m] = Settle(row[m], "failed")
      BY <1>3, <2>2 DEF Swept
    <3> QED
      BY <1>2, <3>1, SettleRow DEF Statuses
  <2> QED
    BY <2>1, <2>2
<1> QED
  BY <1>1, <1>3 DEF Unauthorized, QueuedFor

LEMMA ClaimRowSteps ==
    ASSUME TypeOK, NEW c \in Claims, NEW t \in Nat, ClaimNextDelivery(c, t)
    PROVE  /\ \A m \in Messages : RowStep(m)
           /\ row' = [m \in Messages |-> row'[m]]
<1> DEFINE swept == Swept(c.session, t)
           ready == {m \in Messages : Claimable(swept, c, m, t)}
<1>1. /\ Current(c, t)
      /\ row' = [m \in Messages |-> IF m \in ready THEN Grant(swept[m], c, t)
                                                  ELSE swept[m]]
      /\ outcome' = outcome
  BY DEF ClaimNextDelivery
<1> SUFFICES ASSUME NEW m \in Messages
             PROVE  RowStep(m)
  BY <1>1
<1>2. row[m] \in Rows
  BY DEF TypeOK
<1>3. CASE m \notin ready
  <2>1. row'[m] = swept[m]
    BY <1>1, <1>3
  <2> QED
    BY <1>1, <2>1, SweptRow DEF SweptTo, RowStep, Settled
<1>4. CASE m \in ready
  <2>1. Claimable(swept, c, m, t)
    BY <1>4
  <2>2. swept[m].status = "queued"
    BY <2>1 DEF Claimable, Head
  <2>3. swept[m] = row[m]
    BY <2>2, SweptQueued
  <2> HIDE DEF swept
  <2>4. row[m].status = "queued" /\ Recipient[m] = c.session
        /\ row[m].attempts < MaxAttempts
    BY <2>1, <2>2, <2>3 DEF Claimable
  <2>5. row'[m] = Grant(row[m], c, t)
    BY <1>1, <1>4, <2>3
  <2>6. m \in Texts => EnvelopeAllowed(m)
    <3>1. LeaseOver(m, t)
      BY <1>1, <2>1, <2>3 DEF Claimable, LeaseOver, Leased, Current
    <3> QED
      BY <2>2, <2>4, <3>1, SweptQueued DEF swept
  <2>7. ASSUME NEW n \in Messages, row'[n].status = "queued", Recipient[n] = Recipient[m]
        PROVE  row[m].seq <= row[n].seq
    <3>1. swept[n].status = "queued"
      <4>1. CASE n \in ready
        BY <4>1 DEF Claimable, Head
      <4>2. CASE n \notin ready
        BY <1>1, <2>7, <4>2
      <4> QED
        BY <4>1, <4>2
    <3>2. swept[n] = row[n]
      BY <3>1, SweptQueued DEF swept
    <3> QED
      BY <2>1, <2>3, <2>7, <3>1, <3>2 DEF Claimable, Head
  <2>8. LeaseGranted(m)
    BY <1>1, <2>4, <2>5, <2>6, <2>7 DEF LeaseGranted
  <2> QED
    BY <2>8 DEF RowStep
<1> QED
  BY <1>3, <1>4

LEMMA HeldLease ==
    ASSUME NEW c \in Claims, NEW m \in Messages, NEW token \in 1..MaxAttempts,
           HoldsLease(c, m, token)
    PROVE  row[m].status = "queued" /\ Leased(m)
BY DEF HoldsLease, Leased, NoLease

LEMMA DeliveryRowSteps ==
    ASSUME TypeOK, NEW c \in Claims, NEW n \in Messages, NEW t \in Nat,
           DeliveryStep(c, n, t)
    PROVE  /\ \A m \in Messages : RowStep(m)
           /\ row' = [m \in Messages |-> row'[m]]
<1> USE DEF Addressed
<1>0. row[n] \in Rows
  BY DEF TypeOK
<1>1. CASE RecoverAccepted(c, n, t)
  <2>1. ChangeRow(n, Accept(row[n], c)) /\ outcome' = outcome /\ Admitted(n)
    BY <1>1, ChangeRowStep DEF RecoverAccepted, Admitted
  <2> QED
    BY <2>1, ChangeRowStep DEF RowStep
<1>2. CASE MarkClaimed(c, n, t)
  <2>1. ChangeRow(n, Claim(row[n], c)) /\ outcome' = outcome /\ Consumed(n)
    BY <1>2, ChangeRowStep DEF MarkClaimed, Consumed, Controls
  <2> QED
    BY <2>1, ChangeRowStep DEF RowStep
<1>3. CASE MarkDiscarded(c, n, t)
  <2>1. ChangeRow(n, Settle(row[n], "failed")) /\ outcome' = outcome /\ Settled(n)
    BY <1>0, <1>3, ChangeRowStep, SettleRow DEF MarkDiscarded, Settled, Statuses
  <2> QED
    BY <2>1, ChangeRowStep DEF RowStep
<1>4. ASSUME NEW token \in 1..MaxAttempts, AcceptDelivery(c, n, token, t)
      PROVE  (\A m \in Messages : RowStep(m)) /\ row' = [m \in Messages |-> row'[m]]
  <2>1. ChangeRow(n, Accept(row[n], c)) /\ outcome' = outcome /\ Admitted(n)
    BY <1>4, ChangeRowStep, HeldLease DEF AcceptDelivery, Admitted
  <2> QED
    BY <2>1, ChangeRowStep DEF RowStep
<1>5. ASSUME NEW token \in 1..MaxAttempts, RetryDelivery(c, n, token, t)
      PROVE  (\A m \in Messages : RowStep(m)) /\ row' = [m \in Messages |-> row'[m]]
  <2>1. row[n].status = "queued" /\ Leased(n)
    BY <1>5, HeldLease DEF RetryDelivery
  <2>2. CASE ChangeRow(n, BackOff(row[n], t)) /\ outcome' = outcome
    <3>1. BackedOff(n)
      BY <2>1, <2>2, ChangeRowStep DEF BackedOff
    <3> QED
      BY <2>2, <3>1, ChangeRowStep DEF RowStep
  <2>3. CASE /\ ChangeRow(n, Settle(row[n], "failed"))
             /\ outcome' = IF n \in Controls THEN [outcome EXCEPT ![n] = "failed"]
                                             ELSE outcome
    <3>1. outcome' = outcome \/ outcome' = [outcome EXCEPT ![n] = "failed"]
      BY <2>3
    <3>2. row'[n] = Settle(row[n], "failed") /\ row'[n].status = "failed"
      <4>1. ChangeRow(n, Settle(row[n], "failed"))
        BY <2>3
      <4> QED
        BY <1>0, <3>1, <4>1, ChangeRowStep, SettleRow DEF Statuses
    <3>3. outcome'[n] = outcome[n] \/ outcome'[n] = "failed"
      BY <3>1 DEF TypeOK
    <3>4. Settled(n)
      BY <2>1, <3>2, <3>3 DEF Settled
    <3> QED
      BY <2>3, <3>1, <3>4, ChangeRowStep DEF RowStep
  <2> QED
    BY <1>5, <2>2, <2>3 DEF RetryDelivery
<1>6. ASSUME NEW token \in 1..MaxAttempts, FailDelivery(c, n, token, t)
      PROVE  (\A m \in Messages : RowStep(m)) /\ row' = [m \in Messages |-> row'[m]]
  <2>1. row[n].status = "queued" /\ Leased(n)
    BY <1>6, HeldLease DEF FailDelivery
  <2>2. /\ ChangeRow(n, Settle(row[n], "failed"))
        /\ outcome' = outcome \/ outcome' = [outcome EXCEPT ![n] = "failed"]
    BY <1>6 DEF FailDelivery
  <2>3. row'[n] = Settle(row[n], "failed") /\ row'[n].status = "failed"
    BY <1>0, <2>2, ChangeRowStep, SettleRow DEF Statuses
  <2>4. outcome'[n] = outcome[n] \/ outcome'[n] = "failed"
    BY <2>2 DEF TypeOK
  <2>5. Settled(n)
    BY <2>1, <2>3, <2>4 DEF Settled
  <2> QED
    BY <2>2, <2>5, ChangeRowStep DEF RowStep
<1>7. ASSUME NEW token \in 1..MaxAttempts, NEW result \in {"completed", "rejected"},
             CompleteControlDelivery(c, n, token, result, t)
      PROVE  (\A m \in Messages : RowStep(m)) /\ row' = [m \in Messages |-> row'[m]]
  <2>1. row[n].status = "queued" /\ Leased(n)
    BY <1>7, HeldLease DEF CompleteControlDelivery
  <2>2. /\ ChangeRow(n, Claim(row[n], c))
        /\ outcome' = [outcome EXCEPT ![n] = result]
        /\ Consumed(n)
    BY <1>7, <2>1, ChangeRowStep DEF CompleteControlDelivery, Consumed, TypeOK
  <2> QED
    BY <2>2, ChangeRowStep DEF RowStep
<1> QED
  BY <1>1, <1>2, <1>3, <1>4, <1>5, <1>6, <1>7 DEF DeliveryStep

LEMMA SweepRowSteps ==
    ASSUME TypeOK, NEW t \in Nat,
           TerminalizeDue(t) \/ \E c \in Claims : TerminalizeDueForRecipient(c, t)
    PROVE  /\ \A m \in Messages : RowStep(m)
           /\ row' = [m \in Messages |-> row'[m]]
<1>1. CASE TerminalizeDue(t)
  <2> SUFFICES ASSUME NEW m \in Messages
               PROVE  RowStep(m)
    BY <1>1 DEF TerminalizeDue
  <2>1. row[m] \in Rows
    BY DEF TypeOK
  <2>2. outcome' = outcome
    BY <1>1 DEF TerminalizeDue
  <2>3. \/ row'[m] = row[m]
        \/ /\ row[m].status = "queued"
           /\ row'[m] \in {Settle(row[m], "failed"), Settle(row[m], "expired")}
    BY <1>1 DEF TerminalizeDue
  <2> QED
    BY <2>1, <2>2, <2>3, SettleRow DEF RowStep, Settled, Statuses
<1>2. ASSUME NEW c \in Claims, TerminalizeDueForRecipient(c, t)
      PROVE  (\A m \in Messages : RowStep(m)) /\ row' = [m \in Messages |-> row'[m]]
  <2>1. row' = SweptDue(c.session, t) /\ outcome' = outcome
    BY <1>2 DEF TerminalizeDueForRecipient
  <2>2. row' = [m \in Messages |-> row'[m]]
    BY <2>1 DEF SweptDue
  <2> QED
    BY <2>1, <2>2, SweptDueRow DEF SweptTo, RowStep, Settled
<1> QED
  BY <1>1, <1>2

(* Every step of the mailbox is a row step for every message. *)
LEMMA RowSteps ==
    ASSUME TypeOK, Next
    PROVE  /\ \A m \in Messages : RowStep(m)
           /\ row' = [m \in Messages |-> row'[m]]
<1>1. ASSUME row' = row, outcome' = outcome
      PROVE  (\A m \in Messages : RowStep(m)) /\ row' = [m \in Messages |-> row'[m]]
  BY <1>1 DEF RowStep, TypeOK
<1>2. CASE Tick
  BY <1>1, <1>2 DEF Tick
<1>3. CASE PolicyStep
  BY <1>3, PolicyRowSteps
<1>4. ASSUME NEW t \in Readings, PresenceStep(t)
      PROVE  row' = row /\ outcome' = outcome
  BY <1>4 DEF PresenceStep, RenewPresence, TakePresence, HeartbeatPresence,
              ReleasePresence, ExpirePresence
<1>5. ASSUME NEW t \in Readings, MessageStep(t)
      PROVE  (\A m \in Messages : RowStep(m)) /\ row' = [m \in Messages |-> row'[m]]
  <2>1. t \in Nat
    BY ReadingsAreTimes
  <2>2. ASSUME NEW n \in Messages, Enqueue(n, t)
        PROVE  (\A m \in Messages : RowStep(m)) /\ row' = [m \in Messages |-> row'[m]]
    <3>1. /\ row'[n] = NewRow(t)
          /\ \A m \in Messages : m # n => row'[m] = row[m]
          /\ row' = [m \in Messages |-> row'[m]]
          /\ outcome' = outcome
      BY <2>2 DEF Enqueue, TypeOK
    <3>2. Entered(n)
      BY <2>1, <2>2, <3>1 DEF Enqueue, Entered
    <3> QED
      BY <3>1, <3>2 DEF RowStep
  <2> QED
    BY <1>5, <2>1, <2>2, ClaimRowSteps, DeliveryRowSteps, SweepRowSteps DEF MessageStep
<1> QED
  BY <1>1, <1>2, <1>3, <1>4, <1>5 DEF Next

-----------------------------------------------------------------------------
(* What a step does to presence: a row keeps its owner and its fence, or its *)
(* fence advances.  A step that touches presence leaves the messages alone.  *)

OwnerKept(s) ==
    /\ presence'[s].fence = presence[s].fence
    /\ presence'[s].instance = presence[s].instance
    /\ presence'[s].active = presence[s].active

FenceAdvanced(s) == presence'[s].fence = presence[s].fence + 1

LEMMA DeactivatedRow ==
    ASSUME NEW p \in PresenceRows, p.fence < MaxFence, NEW t \in Nat
    PROVE  LET lapsed   == [p EXCEPT !.active = FALSE, !.fence = @ + 1]
               released == [p EXCEPT !.fence = p.fence + 1, !.active = FALSE, !.expiresAt = t]
           IN  /\ lapsed \in PresenceRows /\ lapsed.fence = p.fence + 1
               /\ released \in PresenceRows /\ released.fence = p.fence + 1
<1> DEFINE next == p.fence + 1
<1>1. next \in 0..MaxFence
  BY DEF PresenceRows
<1> HIDE DEF next
<1>2. LET lapsed   == [p EXCEPT !.active = FALSE, !.fence = next]
          released == [p EXCEPT !.fence = next, !.active = FALSE, !.expiresAt = t]
      IN  /\ lapsed \in PresenceRows /\ lapsed.fence = next
          /\ released \in PresenceRows /\ released.fence = next
  BY <1>1 DEF PresenceRows
<1> QED
  BY <1>2 DEF next, PresenceRows

LEMMA PresenceRowSteps ==
    ASSUME TypeOK, NEW t \in Nat, PresenceStep(t)
    PROVE  /\ presence' \in [Sessions -> PresenceRows]
           /\ \A s \in Sessions : OwnerKept(s) \/ FenceAdvanced(s)
<1> DEFINE Goal == /\ presence' \in [Sessions -> PresenceRows]
                   /\ \A s \in Sessions : OwnerKept(s) \/ FenceAdvanced(s)
<1>1. presence \in [Sessions -> PresenceRows]
  BY DEF TypeOK
<1>2. ASSUME NEW s \in Sessions, presence' = [presence EXCEPT ![s].expiresAt = Extend(s, t)]
      PROVE  Goal
  <2>1. presence[s].expiresAt \in Nat
    BY <1>1 DEF PresenceRows
  <2>2. Extend(s, t) \in Nat
    BY <2>1 DEF Extend, Later
  <2> QED
    BY <1>1, <1>2, <2>2 DEF PresenceRows, OwnerKept
<1>3. ASSUME NEW s \in Sessions, NEW i \in Instances, TakePresence(s, i, t)
      PROVE  Goal
  <2> DEFINE taken == [instance |-> i, fence |-> presence[s].fence + 1, active |-> TRUE,
                       expiresAt |-> t + PresenceTtl]
  <2>1. presence' = [presence EXCEPT ![s] = taken]
    BY <1>3 DEF TakePresence
  <2>2. presence[s].fence + 1 \in 0..MaxFence
    BY <1>1, <1>3 DEF TakePresence, PresenceRows
  <2>3. t + PresenceTtl \in Nat
    OBVIOUS
  <2>4. taken \in PresenceRows /\ taken.fence = presence[s].fence + 1
    BY <2>2, <2>3 DEF PresenceRows
  <2> HIDE DEF taken
  <2> QED
    BY <1>1, <2>1, <2>4 DEF OwnerKept, FenceAdvanced
<1>4. ASSUME NEW c \in Claims, ReleasePresence(c, t)
      PROVE  Goal
  <2> DEFINE s == c.session
             released == [presence[s] EXCEPT !.fence = presence[s].fence + 1, !.active = FALSE, !.expiresAt = t]
  <2>1. s \in Sessions
    BY DEF Claims
  <2>2. presence' = [presence EXCEPT ![s] = released]
    BY <1>4 DEF ReleasePresence
  <2>3. presence[s] \in PresenceRows /\ presence[s].fence < MaxFence
    BY <1>1, <1>4, <2>1 DEF ReleasePresence
  <2>4. released \in PresenceRows /\ released.fence = presence[s].fence + 1
    BY <2>3, DeactivatedRow
  <2> HIDE DEF s, released
  <2> QED
    BY <1>1, <2>1, <2>2, <2>4 DEF OwnerKept, FenceAdvanced
<1>5. CASE ExpirePresence(t)
  <2> DEFINE due == {s \in Sessions : presence[s].active /\ presence[s].expiresAt <= t}
             lapsed(s) == [presence[s] EXCEPT !.active = FALSE, !.fence = @ + 1]
  <2>1. presence' = [s \in Sessions |-> IF s \in due THEN lapsed(s) ELSE presence[s]]
    BY <1>5 DEF ExpirePresence
  <2>2. ASSUME NEW s \in due
        PROVE  s \in Sessions /\ lapsed(s) \in PresenceRows
               /\ lapsed(s).fence = presence[s].fence + 1
    <3>1. presence[s] \in PresenceRows /\ presence[s].fence < MaxFence
      BY <1>1, <1>5, <2>2 DEF ExpirePresence
    <3> QED
      BY <2>2, <3>1, DeactivatedRow
  <2> HIDE DEF due, lapsed
  <2> QED
    BY <1>1, <2>1, <2>2 DEF OwnerKept, FenceAdvanced
<1>6. ASSUME NEW c \in Claims, HeartbeatPresence(c, t)
      PROVE  Goal
  BY <1>2, <1>6 DEF HeartbeatPresence, Claims
<1>7. ASSUME NEW s \in Sessions, NEW i \in Instances, RenewPresence(s, i, t)
      PROVE  Goal
  BY <1>2, <1>7 DEF RenewPresence
<1> QED
  BY <1>3, <1>4, <1>5, <1>6, <1>7 DEF PresenceStep

LEMMA PresenceSteps ==
    ASSUME TypeOK, Next
    PROVE  /\ presence' \in [Sessions -> PresenceRows]
           /\ \/ presence' = presence
              \/ /\ \A s \in Sessions : OwnerKept(s) \/ FenceAdvanced(s)
                 /\ UNCHANGED <<policy, blocks, row, lastSeq, outcome>>
<1>1. ASSUME presence' = presence
      PROVE  presence' \in [Sessions -> PresenceRows]
  BY <1>1 DEF TypeOK
<1>2. CASE Tick \/ PolicyStep
  BY <1>1, <1>2 DEF Tick, PolicyStep, SetSessionPolicy, BlockPair, UnblockPair
<1>3. ASSUME NEW t \in Readings, MessageStep(t)
      PROVE  presence' = presence
  BY <1>3 DEF MessageStep, Enqueue, ClaimNextDelivery, TerminalizeDueForRecipient,
              TerminalizeDue, DeliveryStep, RecoverAccepted, MarkClaimed, MarkDiscarded,
              AcceptDelivery, RetryDelivery, FailDelivery, CompleteControlDelivery, ChangeRow
<1>4. ASSUME NEW t \in Readings, PresenceStep(t)
      PROVE  UNCHANGED <<policy, blocks, row, lastSeq, outcome>>
  BY <1>4 DEF PresenceStep, RenewPresence, TakePresence, HeartbeatPresence,
              ReleasePresence, ExpirePresence
<1> QED
  BY <1>1, <1>2, <1>3, <1>4, PresenceRowSteps, ReadingsAreTimes DEF Next

-----------------------------------------------------------------------------
(* Type correctness                                                          *)

LEMMA RowStepTypes ==
    ASSUME TypeOK, NEW m \in Messages, RowStep(m)
    PROVE  row'[m] \in Rows
<1>1. row[m] \in Rows /\ lastSeq \in Nat
  BY DEF TypeOK
<1>2. CASE Entered(m)
  BY <1>1, <1>2, NewRowRow DEF Entered
<1>3. CASE Settled(m)
  BY <1>1, <1>3, SettleRow DEF Settled, Statuses
<1>4. CASE LeaseGranted(m)
  BY <1>1, <1>4, GrantRow DEF LeaseGranted
<1>5. CASE Admitted(m)
  BY <1>1, <1>5, AcceptRow DEF Admitted
<1>6. CASE Consumed(m)
  BY <1>1, <1>6, ClaimRow DEF Consumed
<1>7. CASE BackedOff(m)
  BY <1>1, <1>7, BackOffRow DEF BackedOff
<1> QED
  BY <1>1, <1>2, <1>3, <1>4, <1>5, <1>6, <1>7 DEF RowStep

LEMMA PolicyTypes ==
    ASSUME TypeOK, PolicyStep
    PROVE  /\ policy' \in [Principals -> [send : BOOLEAN, receive : BOOLEAN]]
           /\ blocks' \in SUBSET PolicyPairs
<1>1. ASSUME NEW p \in Principals, NEW send \in BOOLEAN, NEW receive \in BOOLEAN,
             SetSessionPolicy(p, send, receive)
      PROVE  /\ policy' \in [Principals -> [send : BOOLEAN, receive : BOOLEAN]]
             /\ blocks' \in SUBSET PolicyPairs
  <2>1. [send |-> send, receive |-> receive] \in [send : BOOLEAN, receive : BOOLEAN]
    OBVIOUS
  <2> QED
    BY <1>1, <2>1 DEF SetSessionPolicy, TypeOK
<1> QED
  BY <1>1 DEF PolicyStep, BlockPair, UnblockPair, TypeOK

LEMMA CounterAndOutcomeTypes ==
    ASSUME TypeOK, Next
    PROVE  /\ lastSeq' \in {lastSeq, lastSeq + 1}
           /\ outcome' \in [Messages -> {"none", "completed", "rejected", "failed"}]
<1>1. ASSUME NEW c \in Claims, NEW m \in Messages, NEW t \in Readings, DeliveryStep(c, m, t)
      PROVE  /\ lastSeq' = lastSeq
             /\ \/ outcome' = outcome
                \/ \E result \in {"completed", "rejected", "failed"} :
                      outcome' = [outcome EXCEPT ![m] = result]
  BY <1>1 DEF DeliveryStep, RecoverAccepted, MarkClaimed, MarkDiscarded, AcceptDelivery,
              RetryDelivery, FailDelivery, CompleteControlDelivery, ChangeRow
<1>2. ASSUME NEW c \in Claims, NEW m \in Messages, NEW t \in Readings, DeliveryStep(c, m, t)
      PROVE  /\ lastSeq' = lastSeq
             /\ outcome' \in [Messages -> {"none", "completed", "rejected", "failed"}]
  BY <1>1, <1>2 DEF TypeOK
<1>3. ASSUME NEW m \in Messages, NEW t \in Readings, Enqueue(m, t)
      PROVE  /\ lastSeq' = lastSeq + 1 /\ outcome' = outcome
  BY <1>3 DEF Enqueue
<1>4. ASSUME NEW t \in Readings,
             \/ \E c \in Claims : ClaimNextDelivery(c, t) \/ TerminalizeDueForRecipient(c, t)
             \/ TerminalizeDue(t)
      PROVE  /\ lastSeq' = lastSeq /\ outcome' = outcome
  BY <1>4 DEF ClaimNextDelivery, TerminalizeDueForRecipient, TerminalizeDue
<1>5. ASSUME NEW t \in Readings, PresenceStep(t)
      PROVE  /\ lastSeq' = lastSeq /\ outcome' = outcome
  BY <1>5 DEF PresenceStep, RenewPresence, TakePresence, HeartbeatPresence,
              ReleasePresence, ExpirePresence
<1>6. CASE Tick \/ PolicyStep
  BY <1>6 DEF Tick, PolicyStep, SetSessionPolicy, BlockPair, UnblockPair, TypeOK
<1> QED
  BY <1>2, <1>3, <1>4, <1>5, <1>6 DEF Next, MessageStep, TypeOK

LEMMA ClockAndPolicyTypes ==
    ASSUME TypeOK, Next
    PROVE  /\ now' \in 0..MaxTime
           /\ policy' \in [Principals -> [send : BOOLEAN, receive : BOOLEAN]]
           /\ blocks' \in SUBSET PolicyPairs
<1>1. CASE Tick
  BY <1>1 DEF Tick, TypeOK
<1>2. CASE PolicyStep
  <2>1. now' = now
    BY <1>2 DEF PolicyStep, SetSessionPolicy, BlockPair, UnblockPair
  <2> QED
    BY <1>2, <2>1, PolicyTypes DEF TypeOK
<1>3. ASSUME NEW t \in Readings, PresenceStep(t)
      PROVE  UNCHANGED <<now, policy, blocks>>
  BY <1>3 DEF PresenceStep, RenewPresence, TakePresence, HeartbeatPresence,
              ReleasePresence, ExpirePresence
<1>4. ASSUME NEW t \in Readings, MessageStep(t)
      PROVE  UNCHANGED <<now, policy, blocks>>
  BY <1>4 DEF MessageStep, Enqueue, ClaimNextDelivery, TerminalizeDueForRecipient,
              TerminalizeDue, DeliveryStep, RecoverAccepted, MarkClaimed, MarkDiscarded,
              AcceptDelivery, RetryDelivery, FailDelivery, CompleteControlDelivery, ChangeRow
<1> QED
  BY <1>1, <1>2, <1>3, <1>4 DEF Next, TypeOK

LEMMA InitTypes == Init => TypeOK
<1> SUFFICES ASSUME Init PROVE TypeOK
  OBVIOUS
<1>1. [instance |-> NoInstance, fence |-> 0, active |-> FALSE, expiresAt |-> 0] \in PresenceRows
  BY DEF PresenceRows
<1> QED
  BY <1>1, AbsentRowType DEF Init, TypeOK

LEMMA NextTypes == TypeOK /\ [Next]_vars => TypeOK'
<1>1. CASE UNCHANGED vars
  BY <1>1 DEF vars, TypeOK
<1>2. ASSUME TypeOK, Next
      PROVE  TypeOK'
  <2>1. row' \in [Messages -> Rows]
    BY <1>2, RowSteps, RowStepTypes
  <2> QED
    BY <1>2, <2>1, PresenceSteps, CounterAndOutcomeTypes, ClockAndPolicyTypes DEF TypeOK
<1> QED
  BY <1>1, <1>2

(* Every table keeps rows of the schema's shape, whatever the processes call. *)
THEOREM TypeCorrect == Spec => []TypeOK
<1> QED
  BY InitTypes, NextTypes, PTL DEF Spec

-----------------------------------------------------------------------------
(* Safety.  The invariants of the specification are inductive together.      *)

IInv ==
    /\ TypeOK
    /\ SchemaHolds
    /\ StrictFifo
    /\ AckFencing
    /\ OutcomeMatchesRow
    /\ NoRevokedBacklog

LEMMA InitIInv == Init => IInv
<1> SUFFICES ASSUME Init PROVE IInv
  OBVIOUS
<1>1. \A m \in Messages : row[m] = AbsentRow /\ outcome[m] = "none"
  BY DEF Init
<1>2. /\ AbsentRow.status = "absent" /\ AbsentRow.lease = NoLease /\ AbsentRow.attempts = 0
      /\ AbsentRow.acceptedBy = 0 /\ AbsentRow.claimedBy = 0
  BY DEF AbsentRow
<1>3. NoLease.fence = 0
  BY DEF NoLease
<1>4. \A m \in Messages : presence[Recipient[m]].fence = 0
  BY DEF Init
<1>5. SchemaHolds
  BY <1>1, <1>2 DEF SchemaHolds, RowConsistent, Leased
<1>6. StrictFifo /\ NoRevokedBacklog /\ OutcomeMatchesRow
  BY <1>1, <1>2 DEF StrictFifo, NoRevokedBacklog, OutcomeMatchesRow, Controls
<1>7. AckFencing
  BY <1>1, <1>2, <1>3, <1>4 DEF AckFencing, Leased
<1> QED
  BY <1>5, <1>6, <1>7, InitTypes DEF IInv

(* The fields a row step may change, and how. *)
LEMMA RowStepFields ==
    ASSUME IInv, NEW m \in Messages, RowStep(m)
    PROVE  \/ Entered(m) /\ row'[m].seq = lastSeq + 1 /\ row'[m].attempts = 0
                         /\ row'[m].status = "queued" /\ row'[m].lease = NoLease
                         /\ row'[m].acceptedBy = 0 /\ row'[m].claimedBy = 0
           \/ /\ row'[m].seq = row[m].seq
              /\ row[m].status = "absent" => row'[m] = row[m]
              /\ row'[m].status = "absent" => row'[m] = row[m]
              /\ row'[m].status = "queued" => row[m].status = "queued"
              /\ \/ row'[m].attempts = row[m].attempts
                 \/ LeaseGranted(m) /\ row'[m].attempts = row[m].attempts + 1
<1>1. row[m] \in Rows /\ lastSeq \in Nat
  BY DEF IInv, TypeOK
<1>2. CASE Entered(m)
  BY <1>1, <1>2, NewRowRow DEF Entered
<1>3. CASE Settled(m)
  BY <1>1, <1>3, SettleRow DEF Settled, Statuses
<1>4. CASE LeaseGranted(m)
  BY <1>1, <1>4, GrantRow DEF LeaseGranted
<1>5. CASE Admitted(m)
  BY <1>1, <1>5, AcceptRow DEF Admitted
<1>6. CASE Consumed(m)
  BY <1>1, <1>6, ClaimRow DEF Consumed
<1>7. CASE BackedOff(m)
  <2>1. PICK t \in Nat : row'[m] = BackOff(row[m], t)
    BY <1>7 DEF BackedOff
  <2>2. /\ row'[m].seq = row[m].seq /\ row'[m].attempts = row[m].attempts
        /\ row'[m].status = row[m].status
    BY <1>1, <2>1, BackOffRow
  <2>3. row[m].status = "queued"
    BY <1>7 DEF BackedOff
  <2> QED BY <2>2, <2>3
<1>8. CASE row'[m] = row[m] /\ outcome'[m] = outcome[m]
  BY <1>8
<1> QED
  BY <1>2, <1>3, <1>4, <1>5, <1>6, <1>7, <1>8 DEF RowStep

(* A leased row was attempted: its token is the number of its last attempt. *)
LEMMA LeasedAttempts ==
    ASSUME TypeOK, NEW m \in Messages, RowConsistent(m), Leased(m)
    PROVE  row[m].status = "queued" /\ row[m].attempts > 0
<1>1. row[m].lease \in Leases
  BY DEF TypeOK, Rows, Leased
<1> QED
  BY <1>1 DEF RowConsistent, Leases

LEMMA SeqBound ==
    ASSUME NEW m \in Messages, RowConsistent(m), lastSeq \in Nat
    PROVE  row[m].seq <= lastSeq
<1>1. CASE row[m] = AbsentRow
  BY <1>1 DEF AbsentRow
<1>2. CASE row[m] # AbsentRow
  BY <1>2 DEF RowConsistent
<1> QED
  BY <1>1, <1>2

LEMMA NextFifo ==
    ASSUME IInv, Next
    PROVE  StrictFifo'
<1> SUFFICES ASSUME NEW m \in Messages, NEW n \in Messages,
                    Recipient[m] = Recipient[n],
                    row'[m].attempts > 0,
                    row'[n].status = "queued"
             PROVE  row'[m].seq <= row'[n].seq
  BY DEF StrictFifo
<1>1. row[m] \in Rows /\ row[n] \in Rows /\ lastSeq \in Nat
  BY DEF IInv, TypeOK
<1>2. RowStep(m) /\ RowStep(n) /\ RowConsistent(m)
  BY RowSteps DEF IInv, SchemaHolds
<1>3. ~Entered(m) /\ row'[m].seq = row[m].seq
  BY <1>1, <1>2, RowStepFields, NewRowRow DEF Entered
<1>4. row[m].seq <= lastSeq
  BY <1>1, <1>2, SeqBound
<1>5. CASE Entered(n)
  BY <1>1, <1>2, <1>3, <1>4, <1>5, NewRowRow DEF Entered, Rows
<1>6. CASE ~Entered(n)
  <2>1. row'[n].seq = row[n].seq /\ row[n].status = "queued"
    BY <1>2, <1>6, RowStepFields
  <2>2. CASE LeaseGranted(m)
    BY <1>3, <2>1, <2>2 DEF LeaseGranted
  <2>3. CASE row'[m].attempts = row[m].attempts
    BY <1>3, <2>1, <2>3 DEF IInv, StrictFifo
  <2> QED
    BY <1>2, <1>3, <2>2, <2>3, RowStepFields
<1> QED
  BY <1>5, <1>6

LEMMA NextRowConsistent ==
    ASSUME IInv, Next, NEW m \in Messages
    PROVE  RowConsistent(m)'
<1>1. /\ row[m] \in Rows /\ lastSeq \in Nat
      /\ lastSeq' \in {lastSeq, lastSeq + 1}
      /\ RowStep(m) /\ RowConsistent(m)
  BY RowSteps, CounterAndOutcomeTypes DEF IInv, TypeOK, SchemaHolds
<1>s. row[m].status # "absent" /\ row'[m].seq = row[m].seq /\ row'[m].status # "absent"
        => row'[m].seq \in 1..lastSeq'
  BY <1>1 DEF RowConsistent
<1>2. CASE row'[m] = row[m]
  BY <1>1, <1>2 DEF RowConsistent, Leased
<1>3. CASE Entered(m)
  <2>1. /\ row'[m].status = "queued" /\ row'[m].lease = NoLease
        /\ row'[m].seq = lastSeq + 1 /\ lastSeq' = lastSeq + 1
        /\ row'[m].acceptedBy = 0 /\ row'[m].claimedBy = 0
    BY <1>1, <1>3, NewRowRow DEF Entered
  <2>2. row'[m].seq \in 1..lastSeq'
    BY <1>1, <2>1
  <2> QED
    BY <2>1, <2>2 DEF RowConsistent, Leased
<1>4. CASE Settled(m)
  <2>1. /\ row'[m].status \in {"failed", "expired"}
        /\ row'[m].seq = row[m].seq
        /\ row'[m].lease = NoLease
        /\ row'[m].acceptedBy = row[m].acceptedBy
        /\ row'[m].claimedBy = row[m].claimedBy
    BY <1>1, <1>4, SettleRow DEF Settled, Statuses
  <2>2. row'[m].status = "expired" => row[m].status = "queued"
    BY <1>4 DEF Settled
  <2>3. row[m].status \in {"queued", "accepted"}
    BY <1>4 DEF Settled
  <2> QED
    BY <1>1, <2>1, <2>2, <2>3 DEF RowConsistent, Leased, Rows
<1>5. CASE LeaseGranted(m)
  <2>1. PICK c \in Claims, t \in Nat : row'[m] = Grant(row[m], c, t)
    BY <1>5 DEF LeaseGranted
  <2>2. row[m].status = "queued" /\ row[m].attempts < MaxAttempts
    BY <1>5 DEF LeaseGranted
  <2>3. /\ row'[m].status = "queued" /\ row'[m].seq = row[m].seq
        /\ row'[m].attempts = row[m].attempts + 1
        /\ row'[m].lease.token = row[m].attempts + 1
        /\ row'[m].acceptedBy = row[m].acceptedBy /\ row'[m].claimedBy = row[m].claimedBy
    BY <1>1, <2>1, <2>2, GrantRow
  <2> QED
    BY <1>1, <1>s, <2>2, <2>3 DEF RowConsistent, Leased
<1>6. CASE Admitted(m)
  <2>1. PICK c \in Claims : row'[m] = Accept(row[m], c)
    BY <1>6 DEF Admitted
  <2>2. c.fence \in Nat /\ c.fence > 0
    BY DEF Claims
  <2> QED
    BY <1>1, <1>6, <2>1, <2>2, AcceptRow DEF Admitted, RowConsistent, Leased, Rows
<1>7. CASE Consumed(m)
  <2>1. PICK c \in Claims : row'[m] = Claim(row[m], c)
    BY <1>7 DEF Consumed
  <2>2. c.fence \in Nat /\ c.fence > 0
    BY DEF Claims
  <2> QED
    BY <1>1, <1>7, <2>1, <2>2, ClaimRow DEF Consumed, RowConsistent, Leased, Rows
<1>8. CASE BackedOff(m)
  <2>1. /\ row[m].status = "queued" /\ row'[m].status = "queued"
        /\ row'[m].seq = row[m].seq /\ row'[m].lease = NoLease
        /\ row'[m].acceptedBy = row[m].acceptedBy /\ row'[m].claimedBy = row[m].claimedBy
    <3>1. PICK t \in Nat : row'[m] = BackOff(row[m], t)
      BY <1>8 DEF BackedOff
    <3>2. row[m].status = "queued"
      BY <1>8 DEF BackedOff
    <3>3. /\ BackOff(row[m], t).status = row[m].status
          /\ BackOff(row[m], t).seq = row[m].seq
          /\ BackOff(row[m], t).lease = NoLease
          /\ BackOff(row[m], t).acceptedBy = row[m].acceptedBy
          /\ BackOff(row[m], t).claimedBy = row[m].claimedBy
      BY <1>1, BackOffRow
    <3> QED
      BY <3>1, <3>2, <3>3
  <2> QED
    BY <1>1, <1>s, <2>1 DEF RowConsistent, Leased
<1> QED
  BY <1>1, <1>2, <1>3, <1>4, <1>5, <1>6, <1>7, <1>8 DEF RowStep

LEMMA NextSchema ==
    ASSUME IInv, Next
    PROVE  SchemaHolds'
<1>1. \A m \in Messages : RowConsistent(m)'
  BY NextRowConsistent
<1>2. TypeOK'
  BY NextTypes DEF IInv
<1>3. ASSUME NEW m \in Messages, NEW n \in Messages,
             row'[m].seq = row'[n].seq, row'[m].status # "absent"
      PROVE  m = n
  <2>1. /\ row[m] \in Rows /\ row[n] \in Rows /\ lastSeq \in Nat
        /\ RowStep(m) /\ RowStep(n) /\ RowConsistent(m) /\ RowConsistent(n)
    BY RowSteps DEF IInv, TypeOK, SchemaHolds
  <2>2. row[m].seq <= lastSeq /\ row[n].seq <= lastSeq
    BY <2>1, SeqBound
  <2>3. CASE Entered(m) \/ Entered(n)
    <3>1. \A x \in Messages : Entered(x) => row'[x].seq = lastSeq + 1
      BY <2>1, NewRowRow DEF Entered
    <3>2. row[m].seq < lastSeq + 1 /\ row[n].seq < lastSeq + 1
      BY <2>1, <2>2 DEF Rows
    <3>3. \A x, y \in Messages : Entered(x) /\ x # y => row'[y].seq = row[y].seq
      BY DEF Entered
    <3> QED
      BY <1>3, <2>1, <2>3, <3>1, <3>2, <3>3 DEF Rows
  <2>4. CASE ~Entered(m) /\ ~Entered(n)
    <3>1. row'[m].seq = row[m].seq /\ row'[n].seq = row[n].seq /\ row[m].status # "absent"
      BY <1>3, <2>1, <2>4, RowStepFields
    <3> QED
      BY <1>3, <3>1 DEF IInv, SchemaHolds
  <2> QED
    BY <2>3, <2>4
<1>4. ASSUME NEW m \in Messages, NEW n \in Messages,
             Leased(m)', Leased(n)', Recipient[m] = Recipient[n]
      PROVE  m = n
  <2>1. /\ row'[m].status = "queued" /\ row'[m].attempts > 0
        /\ row'[n].status = "queued" /\ row'[n].attempts > 0
    <3>1. row'[m].lease \in Leases /\ row'[n].lease \in Leases
      BY <1>2, <1>4 DEF TypeOK, Rows, Leased
    <3> QED
      BY <1>1, <1>4, <3>1 DEF RowConsistent, Leases
  <2>2. row'[m].seq <= row'[n].seq /\ row'[n].seq <= row'[m].seq
    BY <1>4, <2>1, NextFifo DEF StrictFifo
  <2>3. row'[m].seq = row'[n].seq
    <3>1. row'[m].seq \in Nat /\ row'[n].seq \in Nat
      BY <1>2 DEF TypeOK, Rows
    <3> QED
      BY <2>2, <3>1
  <2> QED
    BY <1>3, <2>1, <2>3
<1> QED
  BY <1>1, <1>3, <1>4 DEF SchemaHolds

(* The owner column of a live claim, as the acknowledgements see it. *)
LEMMA CurrentFence ==
    ASSUME NEW c \in Claims, NEW t, Current(c, t)
    PROVE  /\ presence[c.session].fence = c.fence
           /\ presence[c.session].instance = c.instance
           /\ presence[c.session].active
           /\ c.fence \in Nat
BY DEF Current, Live, Claims

AckOrder(m) ==
    /\ row[m].acceptedBy <= presence[Recipient[m]].fence
    /\ row[m].claimedBy <= presence[Recipient[m]].fence
    /\ row[m].status = "claimed" => row[m].acceptedBy <= row[m].claimedBy

LeaseOwnership(m) ==
    /\ row[m].lease.fence <= presence[Recipient[m]].fence
    /\ Leased(m) /\ row[m].lease.fence = presence[Recipient[m]].fence
          => /\ presence[Recipient[m]].active
             /\ presence[Recipient[m]].instance = row[m].lease.instance

LEMMA AckFencingParts ==
    AckFencing <=> \A m \in Messages : AckOrder(m) /\ LeaseOwnership(m)
BY DEF AckFencing, AckOrder, LeaseOwnership

(* While presence stands still, the rows keep the acknowledgement order. *)
LEMMA RowStepAcks ==
    ASSUME IInv, presence' = presence, NEW m \in Messages, RowStep(m)
    PROVE  AckOrder(m)' /\ LeaseOwnership(m)'
<1> DEFINE current == presence[Recipient[m]].fence
<1>1. /\ row[m] \in Rows /\ lastSeq \in Nat /\ current \in Nat
      /\ AckOrder(m) /\ LeaseOwnership(m)
  BY AckFencingParts DEF IInv, TypeOK, PresenceRows
<1>2. NoLease.fence = 0
  BY DEF NoLease
<1>3. ASSUME row'[m].lease = NoLease PROVE LeaseOwnership(m)'
  BY <1>1, <1>2, <1>3 DEF LeaseOwnership, Leased
<1>4. CASE row'[m] = row[m]
  BY <1>1, <1>4 DEF AckOrder, LeaseOwnership, Leased
<1>5. CASE Entered(m)
  BY <1>1, <1>3, <1>5, NewRowRow DEF Entered, AckOrder
<1>6. CASE Settled(m)
  <2>1. /\ row'[m].lease = NoLease /\ row'[m].status \in {"failed", "expired"}
        /\ row'[m].acceptedBy = row[m].acceptedBy /\ row'[m].claimedBy = row[m].claimedBy
    BY <1>1, <1>6, SettleRow DEF Settled, Statuses
  <2> QED
    BY <1>1, <1>3, <2>1 DEF AckOrder
<1>7. CASE LeaseGranted(m)
  <2>1. PICK c \in Claims, t \in Nat : /\ c.session = Recipient[m]
                                      /\ Current(c, t)
                                      /\ row'[m] = Grant(row[m], c, t)
    BY <1>7 DEF LeaseGranted
  <2>2. /\ row'[m].status = "queued"
        /\ row'[m].lease.fence = c.fence /\ row'[m].lease.instance = c.instance
        /\ row'[m].acceptedBy = row[m].acceptedBy /\ row'[m].claimedBy = row[m].claimedBy
    BY <1>1, <1>7, <2>1, GrantRow DEF LeaseGranted
  <2>3. AckOrder(m)'
    BY <1>1, <2>2 DEF AckOrder
  <2> QED
    BY <2>1, <2>2, <2>3, CurrentFence DEF LeaseOwnership
<1>8. CASE Admitted(m)
  <2>1. PICK c \in Claims, t \in Nat : /\ c.session = Recipient[m]
                                      /\ Current(c, t)
                                      /\ row'[m] = Accept(row[m], c)
    BY <1>8 DEF Admitted
  <2>2. c.fence = current
    BY <2>1, CurrentFence
  <2> QED
    BY <1>1, <1>3, <2>1, <2>2, AcceptRow DEF AckOrder
<1>9. CASE Consumed(m)
  <2>1. PICK c \in Claims, t \in Nat : /\ c.session = Recipient[m]
                                      /\ Current(c, t)
                                      /\ row'[m] = Claim(row[m], c)
    BY <1>9 DEF Consumed
  <2>2. c.fence = current
    BY <2>1, CurrentFence
  <2> QED
    BY <1>1, <1>3, <2>1, <2>2, ClaimRow DEF AckOrder
<1>10. CASE BackedOff(m)
  BY <1>1, <1>3, <1>10, BackOffRow DEF BackedOff, AckOrder
<1> QED
  BY <1>4, <1>5, <1>6, <1>7, <1>8, <1>9, <1>10 DEF RowStep

LEMMA NextAcks ==
    ASSUME IInv, Next
    PROVE  AckFencing'
<1>1. CASE presence' = presence
  BY <1>1, RowSteps, RowStepAcks, AckFencingParts DEF IInv, AckOrder, LeaseOwnership, AckFencing
<1>2. CASE /\ \A s \in Sessions : OwnerKept(s) \/ FenceAdvanced(s)
           /\ UNCHANGED <<policy, blocks, row, lastSeq, outcome>>
  <2> SUFFICES ASSUME NEW m \in Messages
               PROVE  AckOrder(m)' /\ LeaseOwnership(m)'
    BY AckFencingParts, <1>2 DEF AckFencing, AckOrder, LeaseOwnership
  <2> DEFINE s == Recipient[m]
  <2>1. /\ AckOrder(m) /\ LeaseOwnership(m) /\ row'[m] = row[m] /\ row[m] \in Rows
        /\ s \in Sessions /\ presence[s].fence \in Nat /\ row[m].lease.fence \in Nat
    <3>1. NoLease.fence \in Nat
      BY DEF NoLease
    <3> QED
      BY <1>2, <3>1, AckFencingParts DEF IInv, TypeOK, PresenceRows, Rows, Leases
  <2>2. CASE OwnerKept(s)
    BY <2>1, <2>2 DEF OwnerKept, AckOrder, LeaseOwnership, Leased
  <2>3. CASE FenceAdvanced(s)
    BY <2>1, <2>3 DEF FenceAdvanced, AckOrder, LeaseOwnership, Leased, Rows
  <2> QED
    BY <1>2, <2>1, <2>2, <2>3
<1> QED
  BY <1>1, <1>2, PresenceSteps DEF IInv

LEMMA NextOutcomes ==
    ASSUME IInv, Next
    PROVE  OutcomeMatchesRow'
<1> SUFFICES ASSUME NEW m \in Controls
             PROVE  /\ row'[m].status # "accepted"
                    /\ outcome'[m] \in {"completed", "rejected"} <=> row'[m].status = "claimed"
                    /\ outcome'[m] = "failed" => row'[m].status = "failed"
  BY DEF OutcomeMatchesRow
<1>1. /\ m \in Messages /\ m \notin Texts
      /\ row[m] \in Rows /\ lastSeq \in Nat
      /\ RowStep(m)
      /\ row[m].status # "accepted"
      /\ outcome[m] \in {"completed", "rejected"} <=> row[m].status = "claimed"
      /\ outcome[m] = "failed" => row[m].status = "failed"
  BY RowSteps DEF IInv, TypeOK, Controls, OutcomeMatchesRow
<1>2. CASE row'[m] = row[m] /\ outcome'[m] = outcome[m]
  BY <1>1, <1>2
<1>3. CASE Entered(m)
  BY <1>1, <1>3, NewRowRow DEF Entered
<1>4. CASE Settled(m)
  BY <1>1, <1>4 DEF Settled
<1>5. CASE LeaseGranted(m)
  BY <1>1, <1>5, GrantRow DEF LeaseGranted
<1>6. CASE Admitted(m)
  BY <1>1, <1>6 DEF Admitted
<1>7. CASE Consumed(m)
  BY <1>1, <1>7, ClaimRow DEF Consumed
<1>8. CASE BackedOff(m)
  <2>1. PICK t \in Nat : row'[m] = BackOff(row[m], t)
    BY <1>8 DEF BackedOff
  <2>2. BackOff(row[m], t).status = row[m].status
    BY <1>1, BackOffRow
  <2>3. row[m].status = "queued" /\ row'[m].status = row[m].status
    BY <1>8, <2>1, <2>2 DEF BackedOff
  <2> QED
    BY <1>1, <1>8, <2>3 DEF BackedOff
<1> QED
  BY <1>1, <1>2, <1>3, <1>4, <1>5, <1>6, <1>7, <1>8 DEF RowStep

(* A policy change spares a queued unleased text only if it stays allowed. *)
LEMMA PolicySpares ==
    ASSUME IInv, PolicyStep, NEW m \in UnleasedText, row'[m].status = "queued",
           EnvelopeAllowed(m)
    PROVE  EnvelopeAllowed(m)'
<1>1. /\ m \in Messages /\ row[m] \in Rows /\ SentBy[m] \in Principals /\ SentTo[m] \in Principals
      /\ policy \in [Principals -> [send : BOOLEAN, receive : BOOLEAN]]
  BY DEF IInv, TypeOK, UnleasedText
<1>2. \A S : m \in S /\ row' = SettleAll(S, "failed") => FALSE
  BY <1>1, SettleRow DEF SettleAll, Statuses
<1>3. ASSUME NEW p \in Principals, NEW send \in BOOLEAN, NEW receive \in BOOLEAN,
             SetSessionPolicy(p, send, receive)
      PROVE  EnvelopeAllowed(m)'
  <2>1. m \notin CutOff(p, send, receive)
    BY <1>2, <1>3 DEF SetSessionPolicy
  <2>2. (SentBy[m] = p => send) /\ (SentTo[m] = p => receive)
    BY <2>1 DEF CutOff
  <2>3. /\ blocks' = blocks
        /\ policy' = [policy EXCEPT ![p] = [send |-> send, receive |-> receive]]
    BY <1>3 DEF SetSessionPolicy
  <2>4. policy'[SentBy[m]].send /\ policy'[SentTo[m]].receive
    <3>1. policy[SentBy[m]].send /\ policy[SentTo[m]].receive
      BY DEF EnvelopeAllowed, DirectionAllowed
    <3> QED
      BY <1>1, <2>2, <2>3, <3>1
  <2> QED
    BY <2>3, <2>4 DEF EnvelopeAllowed, DirectionAllowed
<1>4. ASSUME NEW pair \in PolicyPairs, BlockPair(pair)
      PROVE  EnvelopeAllowed(m)'
  <2>1. m \notin Between(pair)
    BY <1>2, <1>4 DEF BlockPair
  <2> QED
    BY <1>4, <2>1 DEF BlockPair, Between, EnvelopeAllowed, DirectionAllowed
<1>5. ASSUME NEW pair \in PolicyPairs, UnblockPair(pair)
      PROVE  EnvelopeAllowed(m)'
  BY <1>5 DEF UnblockPair, EnvelopeAllowed, DirectionAllowed
<1> QED
  BY <1>3, <1>4, <1>5 DEF PolicyStep

LEMMA NextBacklog ==
    ASSUME IInv, Next
    PROVE  NoRevokedBacklog'
<1> SUFFICES ASSUME NEW m \in Texts, row'[m].status = "queued", row'[m].attempts = 0
             PROVE  EnvelopeAllowed(m)'
  BY DEF NoRevokedBacklog
<1>1. m \in Messages /\ row[m] \in Rows /\ RowStep(m) /\ RowConsistent(m)
  BY RowSteps DEF IInv, TypeOK, SchemaHolds
<1>2. CASE Entered(m)
  BY <1>2 DEF Entered, Allowed, EnvelopeAllowed, DirectionAllowed
<1>3. CASE ~Entered(m)
  <2>1. row[m].status = "queued" /\ row[m].attempts = 0
    BY <1>1, <1>3, RowStepFields DEF Rows
  <2>2. EnvelopeAllowed(m)
    BY <2>1 DEF IInv, NoRevokedBacklog
  <2>3. CASE PolicyStep
    <3>1. m \in UnleasedText
      BY <1>1, <2>1, LeasedAttempts DEF UnleasedText, IInv
    <3> QED
      BY <2>2, <2>3, <3>1, PolicySpares
  <2>4. CASE ~PolicyStep
    <3>1. UNCHANGED <<policy, blocks>>
      <4>1. ASSUME NEW t \in Readings, PresenceStep(t)
            PROVE  UNCHANGED <<policy, blocks>>
        BY <4>1 DEF PresenceStep, RenewPresence, TakePresence, HeartbeatPresence,
                    ReleasePresence, ExpirePresence
      <4>2. ASSUME NEW t \in Readings, MessageStep(t)
            PROVE  UNCHANGED <<policy, blocks>>
        BY <4>2 DEF MessageStep, Enqueue, ClaimNextDelivery, TerminalizeDueForRecipient,
                    TerminalizeDue, DeliveryStep, RecoverAccepted, MarkClaimed,
                    MarkDiscarded, AcceptDelivery, RetryDelivery, FailDelivery,
                    CompleteControlDelivery, ChangeRow
      <4> QED
        BY <2>4, <4>1, <4>2 DEF Next, Tick
    <3> QED
      BY <2>2, <3>1 DEF EnvelopeAllowed, DirectionAllowed
  <2> QED
    BY <2>3, <2>4
<1> QED
  BY <1>2, <1>3

LEMMA NextIInv == IInv /\ [Next]_vars => IInv'
<1>1. ASSUME IInv, Next
      PROVE  IInv'
  BY <1>1, NextTypes, NextSchema, NextFifo, NextAcks, NextOutcomes, NextBacklog DEF IInv
<1>2. ASSUME IInv, UNCHANGED vars
      PROVE  IInv'
  BY <1>2 DEF vars, IInv, TypeOK, SchemaHolds, RowConsistent, Leased, StrictFifo, AckFencing,
              OutcomeMatchesRow, NoRevokedBacklog, EnvelopeAllowed, DirectionAllowed
<1> QED
  BY <1>1, <1>2

LEMMA Inductive == Spec => []IInv
BY InitIInv, NextIInv, PTL DEF Spec

-----------------------------------------------------------------------------
(* The theorems about every behaviour of the mailbox.                        *)

(* No transaction ever runs into a CHECK constraint or into the unique index
   on leased rows (database.ts, initialize): the columns stay consistent. *)
THEOREM SchemaCorrect == Spec => []SchemaHolds
<1>1. IInv => SchemaHolds
  BY DEF IInv
<1> QED
  BY <1>1, Inductive, PTL

(* claimNextDelivery never attempts a message before an earlier queued one. *)
THEOREM FifoCorrect == Spec => []StrictFifo
<1>1. IInv => StrictFifo
  BY DEF IInv
<1> QED
  BY <1>1, Inductive, PTL

(* Acknowledgements follow the fences, and a lease under the current fence is
   the current owner's (requireCurrentPresence and assertLease). *)
THEOREM AckCorrect == Spec => []AckFencing
<1>1. IInv => AckFencing
  BY DEF IInv
<1> QED
  BY <1>1, Inductive, PTL

(* The row and the outcome of a control agree (completeControlDelivery,
   retryControlDelivery, failControlDelivery and the sweeps). *)
THEOREM OutcomeCorrect == Spec => []OutcomeMatchesRow
<1>1. IInv => OutcomeMatchesRow
  BY DEF IInv
<1> QED
  BY <1>1, Inductive, PTL

(* setSessionPolicy and setPairBlocked leave no forbidden backlog behind. *)
THEOREM BacklogCorrect == Spec => []NoRevokedBacklog
<1>1. IInv => NoRevokedBacklog
  BY DEF IInv
<1> QED
  BY <1>1, Inductive, PTL

(* Presence fences only advance, and one fence means one owner. *)
THEOREM FencingCorrect == Spec => PresenceFencing
<1> DEFINE Fenced ==
        \A s \in Sessions :
          /\ presence'[s].fence >= presence[s].fence
          /\ presence'[s].fence = presence[s].fence =>
                /\ presence'[s].instance = presence[s].instance
                /\ presence'[s].active = presence[s].active
<1>1. ASSUME TypeOK, Next
      PROVE  Fenced
  <2>1. \A s \in Sessions : presence[s].fence \in Nat
    BY <1>1 DEF TypeOK, PresenceRows
  <2> QED
    BY <1>1, <2>1, PresenceSteps DEF OwnerKept, FenceAdvanced
<1>2. TypeOK /\ [Next]_vars => [Fenced]_vars
  BY <1>1
<1> QED
  BY <1>2, TypeCorrect, PTL DEF Spec, PresenceFencing

(* No attempt is started for a text the access policy forbids. *)
THEOREM GrantCorrect == Spec => GrantAuthorized
<1> DEFINE Authorized ==
        \A m \in Texts : row'[m].attempts > row[m].attempts => EnvelopeAllowed(m)
<1>1. ASSUME IInv, Next
      PROVE  Authorized
  <2> SUFFICES ASSUME NEW m \in Texts, row'[m].attempts > row[m].attempts
               PROVE  EnvelopeAllowed(m)
    OBVIOUS
  <2>1. m \in Messages /\ row[m] \in Rows /\ RowStep(m) /\ RowConsistent(m)
    BY <1>1, RowSteps DEF IInv, TypeOK, SchemaHolds
  <2>2. LeaseGranted(m)
    <3>1. row[m].attempts \in Nat
      BY <2>1 DEF Rows
    <3> QED
      BY <1>1, <2>1, <3>1, RowStepFields
  <2> QED
    BY <2>2 DEF LeaseGranted
<1>2. IInv /\ [Next]_vars => [Authorized]_vars
  BY <1>1
<1> QED
  BY <1>2, Inductive, PTL DEF Spec, GrantAuthorized

-----------------------------------------------------------------------------
(* The mailbox implements the message life cycle.                            *)

LifecycleStep(m) ==
    \/ Lifecycle!Stay(m) \/ Lifecycle!Submit(m) \/ Lifecycle!Try(m)
    \/ Lifecycle!Admit(m) \/ Lifecycle!Consume(m) \/ Lifecycle!Drop(m)

LEMMA RowStepLifecycle ==
    ASSUME IInv, NEW m \in Messages, RowStep(m)
    PROVE  LifecycleStep(m)
<1>1. row[m] \in Rows /\ lastSeq \in Nat /\ RowConsistent(m)
  BY DEF IInv, TypeOK, SchemaHolds
<1> DEFINE before == row[m].status
           after  == row'[m].status
<1>2. CASE row'[m] = row[m]
  BY <1>2 DEF LifecycleStep, Lifecycle!Stay
<1>3. CASE Entered(m)
  <2>1. before = "absent" /\ after = "queued" /\ row'[m].attempts = 0
    BY <1>1, <1>3, NewRowRow DEF Entered
  <2> QED
    BY <2>1 DEF LifecycleStep, Lifecycle!Submit
<1>4. CASE Settled(m)
  <2>1. row'[m].attempts = row[m].attempts
    BY <1>1, <1>4, SettleRow DEF Settled, Statuses
  <2>2. \/ before \in {"queued", "accepted"} /\ after = "failed"
        \/ before = "queued" /\ after = "expired"
    BY <1>4 DEF Settled
  <2> QED
    BY <2>1, <2>2 DEF LifecycleStep, Lifecycle!Drop
<1>5. CASE LeaseGranted(m)
  <2>1. /\ before = "queued" /\ after = "queued" /\ row[m].attempts < MaxAttempts
        /\ row'[m].attempts = row[m].attempts + 1
    BY <1>1, <1>5, GrantRow DEF LeaseGranted
  <2> QED
    BY <2>1 DEF LifecycleStep, Lifecycle!Try
<1>6. CASE Admitted(m)
  <2>1. /\ m \in Texts /\ before = "queued" /\ after = "accepted"
        /\ row'[m].attempts = row[m].attempts
    BY <1>1, <1>6, AcceptRow DEF Admitted
  <2> QED
    BY <2>1 DEF LifecycleStep, Lifecycle!Admit
<1>7. CASE Consumed(m)
  <2>1. /\ before \in {"queued", "accepted"} /\ after = "claimed"
        /\ row'[m].attempts = row[m].attempts
    BY <1>1, <1>7, ClaimRow DEF Consumed
  <2>2. m \in Texts \/ row[m].attempts > 0
    BY <1>1, <1>7, LeasedAttempts DEF Consumed, IInv
  <2> QED
    BY <2>1, <2>2 DEF LifecycleStep, Lifecycle!Consume
<1>8. CASE BackedOff(m)
  <2>1. before = after /\ row'[m].attempts = row[m].attempts
    BY <1>1, <1>8, BackOffRow DEF BackedOff
  <2> QED
    BY <2>1 DEF LifecycleStep, Lifecycle!Stay
<1> QED
  BY <1>2, <1>3, <1>4, <1>5, <1>6, <1>7, <1>8 DEF RowStep

(* Whatever the processes do, a sender sees the life cycle of MessageLifecycle:
   bounded attempts, one settlement, no expiry after admission. *)
THEOREM LifecycleCorrect == Spec => ImplementsLifecycle
<1>1. Init => Lifecycle!LInit
  <2> SUFFICES ASSUME Init PROVE Lifecycle!LInit
    OBVIOUS
  <2>1. \A m \in Messages : row[m].status = "absent" /\ row[m].attempts = 0
    BY DEF Init, AbsentRow
  <2> QED
    BY <2>1 DEF Lifecycle!LInit
<1>2. IInv /\ [Next]_vars =>
         [Lifecycle!LNext]_<<[m \in Messages |-> row[m].status],
                             [m \in Messages |-> row[m].attempts]>>
  <2>1. ASSUME IInv, Next
        PROVE  Lifecycle!LNext
    <3>1. \A m \in Messages : LifecycleStep(m)
      BY <2>1, RowSteps, RowStepLifecycle DEF IInv
    <3> QED
      BY <3>1 DEF Lifecycle!LNext, LifecycleStep
  <2>2. ASSUME UNCHANGED vars
        PROVE  UNCHANGED <<[m \in Messages |-> row[m].status],
                           [m \in Messages |-> row[m].attempts]>>
    BY <2>2 DEF vars
  <2> QED
    BY <2>1, <2>2
<1> QED
  BY <1>1, <1>2, Inductive, PTL DEF Spec, ImplementsLifecycle, Lifecycle!LSpec

-----------------------------------------------------------------------------
(* The provider of module RelayDelivery                                    *)
-----------------------------------------------------------------------------

USE RelayAssumption

-----------------------------------------------------------------------------
(* Types, and who is at work                                                 *)

(* Only a process that has the Session loaded pumps, and it presents a fence
   that was issued. *)
HostAtWork ==
    /\ host # NoInstance => fence \in 1..MaxFence
    /\ phase # "idle" \/ todo # {} \/ job # {} \/ marks # {} \/ healthy => host # NoInstance

TInv == TypeOK /\ RelayTypeOK /\ HostAtWork

LEMMA MeIsClaim ==
    ASSUME TInv, host # NoInstance
    PROVE  Me \in Claims
BY DEF TInv, RelayTypeOK, HostAtWork, Me, Claims

(* Steps of the mailbox in the words of Next. *)
LEMMA DeliveryStepIsNext ==
    ASSUME NEW c \in Claims, NEW m \in Messages, NEW t \in Readings, DeliveryStep(c, m, t)
    PROVE  Next
BY DEF Next, MessageStep

LEMMA PresenceStepIsNext ==
    ASSUME NEW t \in Readings, PresenceStep(t)
    PROVE  Next
BY DEF Next

LEMMA MessageStepIsNext ==
    ASSUME NEW t \in Readings, MessageStep(t)
    PROVE  Next
BY DEF Next

LEMMA MarkIsStep ==
    ASSUME TInv, host # NoInstance, NEW m \in Messages, NEW fact, NEW t \in Readings,
           Mark(m, fact, t) \/ MarkRefused(m, fact, t)
    PROVE  [Next]_vars
<1>1. CASE MarkClaimed(Me, m, t) \/ MarkDiscarded(Me, m, t)
  <2>1. DeliveryStep(Me, m, t)
    BY <1>1 DEF DeliveryStep
  <2> QED
    BY <2>1, MeIsClaim, DeliveryStepIsNext
<1>2. CASE UNCHANGED vars
  BY <1>2
<1> QED
  BY <1>1, <1>2 DEF Mark, MarkRefused

LEMMA ElsewhereIsStep ==
    ASSUME TInv, Elsewhere
    PROVE  [Next]_vars
<1>1. CASE Tick
  BY <1>1 DEF Next
<1>2. CASE \E p \in Revocable, receive \in BOOLEAN :
              SetSessionPolicy(p, policy[p].send, receive)
  <2>1. PICK p \in Revocable, receive \in BOOLEAN :
                SetSessionPolicy(p, policy[p].send, receive)
    BY <1>2
  <2>2. p \in Principals /\ policy[p].send \in BOOLEAN
    BY DEF TInv, TypeOK
  <2>3. PolicyStep
    BY <2>1, <2>2 DEF PolicyStep
  <2> QED
    BY <2>3 DEF Next
<1>3. CASE \E t \in Readings : ExpirePresence(t)
  BY <1>3 DEF Next, PresenceStep
<1>4. CASE \E t \in Readings, m \in Messages : Enqueue(m, t)
  BY <1>4 DEF Next, MessageStep
<1> QED
  BY <1>1, <1>2, <1>3, <1>4 DEF Elsewhere

LEMMA ReconcileIsStep ==
    ASSUME TInv, NEW t \in Readings, Reconcile(t)
    PROVE  [Next]_vars
<1>1. CASE StartPump \/ EndReconcile \/ ReconcileFlushFails
  BY <1>1 DEF StartPump, EndReconcile, ReconcileFlushFails
<1>2. ASSUME NEW x \in todo, KeepCandidate(x) \/ RemoveRevoked(x) \/ Repaired(x)
      PROVE  [Next]_vars
  BY <1>2 DEF KeepCandidate, Keep, RemoveRevoked, Repaired
<1>3. ASSUME NEW x \in todo, RecordFact(x, t) \/ DropRevoked(x, t) \/ Discarded(x, t)
      PROVE  [Next]_vars
  <2>1. x.msg \in Messages /\ host # NoInstance
    BY DEF TInv, RelayTypeOK, HostAtWork
  <2>2. \E fact \in Facts : Mark(x.msg, fact, t) \/ MarkRefused(x.msg, fact, t)
    BY <1>3 DEF RecordFact, DropRevoked, Discarded, Facts
  <2> QED
    BY <2>1, <2>2, MarkIsStep
<1>4. ASSUME NEW x \in todo, RecordAdmission(x, t)
      PROVE  [Next]_vars
  <2>1. x.msg \in Messages /\ host # NoInstance
    BY DEF TInv, RelayTypeOK, HostAtWork
  <2>2. DeliveryStep(Me, x.msg, t) \/ UNCHANGED vars
    BY <1>4 DEF RecordAdmission, DeliveryStep
  <2> QED
    BY <2>1, <2>2, MeIsClaim, DeliveryStepIsNext
<1> QED
  BY <1>1, <1>2, <1>3, <1>4 DEF Reconcile

LEMMA DeliverIsStep ==
    ASSUME TInv, NEW t \in Readings, Deliver(t)
    PROVE  [Next]_vars
<1>1. CASE GiveUp
  BY <1>1 DEF GiveUp
<1>2. CASE ClaimNext(t)
  <2>1. host # NoInstance
    BY <1>2 DEF ClaimNext, TInv, HostAtWork
  <2>2. ClaimNextDelivery(Me, t) \/ UNCHANGED vars
    BY <1>2 DEF ClaimNext, LoseFence
  <2>3. ClaimNextDelivery(Me, t) => MessageStep(t)
    BY <2>1, MeIsClaim DEF MessageStep
  <2> QED
    BY <2>2, <2>3, MessageStepIsNext
<1>3. ASSUME NEW j \in job, Admit(j) PROVE [Next]_vars
  BY <1>3 DEF Admit
<1>4. ASSUME NEW j \in job, Refuse(j, t) \/ Acknowledge(j, t) \/ Retry(j, t)
      PROVE  [Next]_vars
  <2>1. /\ host # NoInstance /\ j.msg \in Messages
        /\ j.token \in 1..MaxAttempts
    BY DEF TInv, RelayTypeOK, HostAtWork
  <2>2. \/ FailDelivery(Me, j.msg, j.token, t)
        \/ AcceptDelivery(Me, j.msg, j.token, t)
        \/ RetryDelivery(Me, j.msg, j.token, t)
        \/ UNCHANGED vars
    BY <1>4 DEF Refuse, Acknowledge, Retry, LoseFence
  <2>3. DeliveryStep(Me, j.msg, t) \/ UNCHANGED vars
    BY <2>1, <2>2 DEF DeliveryStep
  <2> QED
    BY <2>1, <2>3, MeIsClaim, DeliveryStepIsNext
<1> QED
  BY <1>1, <1>2, <1>3, <1>4 DEF Deliver

LEMMA ProcessIsStep ==
    ASSUME TInv, ProcessStep
    PROVE  [Next]_vars
<1>1. CASE Crash
  BY <1>1 DEF Crash
<1>2. ASSUME NEW t \in Readings, Heartbeat(t) PROVE [Next]_vars
  <2>1. host # NoInstance
    BY <1>2 DEF Heartbeat, LoopFree
  <2>2. HeartbeatPresence(Me, t) \/ UNCHANGED vars
    BY <1>2 DEF Heartbeat
  <2>3. HeartbeatPresence(Me, t) => PresenceStep(t)
    BY <2>1, MeIsClaim DEF PresenceStep
  <2> QED
    BY <2>2, <2>3, PresenceStepIsNext
<1>3. ASSUME NEW t \in Readings, Detach(t) PROVE [Next]_vars
  <2>1. host # NoInstance
    BY <1>3 DEF Detach, LoopFree
  <2>2. ReleasePresence(Me, t) \/ UNCHANGED vars
    BY <1>3 DEF Detach
  <2>3. ReleasePresence(Me, t) => PresenceStep(t)
    BY <2>1, MeIsClaim DEF PresenceStep
  <2> QED
    BY <2>2, <2>3, PresenceStepIsNext
<1>4. ASSUME NEW t \in Readings, NEW i \in Instances, Attach(i, t) PROVE [Next]_vars
  BY <1>4, PresenceStepIsNext DEF Attach, PresenceStep
<1> QED
  BY <1>1, <1>2, <1>3, <1>4 DEF ProcessStep

(* Every step of the provider is a step of the mailbox, or none of its business. *)
LEMMA RelayStepIsStep == TInv /\ [RelayNext]_relayVars => [Next]_vars
<1> SUFFICES ASSUME TInv, [RelayNext]_relayVars PROVE [Next]_vars
  OBVIOUS
<1>1. CASE Pump
  BY <1>1, ReconcileIsStep, DeliverIsStep DEF Pump
<1>2. CASE AgentStep \/ Persist
  BY <1>2 DEF AgentStep, Take, Persist
<1>3. CASE CheckpointStep
  <2>1. PICK x \in marks : CheckpointFails(x) \/ \E t \in Readings : Checkpoint(x, t)
    BY <1>3 DEF CheckpointStep
  <2>2. x.msg \in Messages /\ host # NoInstance
    BY DEF TInv, RelayTypeOK, HostAtWork
  <2>3. CASE CheckpointFails(x)
    BY <2>3 DEF CheckpointFails
  <2>4. ASSUME NEW t \in Readings, Checkpoint(x, t) PROVE [Next]_vars
    BY <2>2, <2>4, MarkIsStep DEF Checkpoint
  <2> QED
    BY <2>1, <2>3, <2>4
<1>4. CASE UNCHANGED relayVars
  BY <1>4 DEF relayVars
<1> QED
  BY <1>1, <1>2, <1>3, <1>4, ElsewhereIsStep, ProcessIsStep DEF RelayNext

-----------------------------------------------------------------------------
(* Type correctness                                                          *)

(* The types and places that RelayTypeOK and HostAtWork speak of, all but     *)
(* what a step changes; a step is dealt with by what it does to the rest.     *)
LEMMA RelayInitTypes == RelayInit => TInv
<1> SUFFICES ASSUME RelayInit PROVE TInv
  OBVIOUS
<1>1. TypeOK
  BY InitTypes DEF RelayInit
<1>2. RelayTypeOK
  <2>1. /\ host = NoInstance /\ dead = {} /\ fence = 0 /\ healthy = FALSE /\ phase = "idle"
        /\ todo = {} /\ job = {} /\ marks = {} /\ failures = 0
    BY DEF RelayInit
  <2>2. mem \in [Messages -> Facts] /\ log \in [Messages -> Facts]
    BY DEF RelayInit, Facts
  <2>3. fence \in 0..MaxFence /\ failures \in 0..MaxFailures
    BY <2>1
  <2>4. /\ host \in Instances \cup {NoInstance} /\ dead \subseteq Instances
        /\ healthy \in BOOLEAN /\ phase \in Phases
    BY <2>1 DEF Phases
  <2>5. \A S : todo \subseteq S /\ job \subseteq S /\ marks \subseteq S
    BY <2>1
  <2> QED
    BY <2>2, <2>3, <2>4, <2>5, Zenon DEF RelayTypeOK
<1>3. HostAtWork
  BY DEF RelayInit, HostAtWork
<1> QED
  BY <1>1, <1>2, <1>3 DEF TInv

(* A step of the pump: the process stays, its memory is typed. *)
LEMMA PumpTypes ==
    ASSUME TInv, host # NoInstance,
           UNCHANGED <<host, dead, fence, log>>,
           healthy' \in BOOLEAN, phase' \in Phases, failures' \in 0..MaxFailures,
           mem' \in [Messages -> Facts],
           todo' \subseteq [msg : Messages, status : {"queued", "accepted"}, fact : Facts],
           job' \subseteq [msg : Messages, token : 1..MaxAttempts],
           marks' \subseteq [msg : Messages, fact : {"claimed", "canceled"}]
    PROVE  RelayTypeOK' /\ HostAtWork'
BY DEF TInv, RelayTypeOK, HostAtWork

LEMMA FlushFailsType == TInv /\ FlushFails => failures' \in 0..MaxFailures
BY DEF TInv, RelayTypeOK, FlushFails

LEMMA CandidateTypes ==
    ASSUME TInv
    PROVE  Candidates \subseteq [msg : Messages, status : {"queued", "accepted"}, fact : Facts]
<1> SUFFICES ASSUME NEW x \in Candidates
             PROVE  x \in [msg : Messages, status : {"queued", "accepted"}, fact : Facts]
  OBVIOUS
<1>1. PICK m \in Messages :
              /\ x = [msg |-> m, status |-> row[m].status, fact |-> mem[m]]
              /\ row[m].status \in {"queued", "accepted"}
  BY DEF Candidates, Snapshot
<1>2. mem[m] \in Facts
  BY DEF TInv, RelayTypeOK
<1> QED
  BY <1>1, <1>2

LEMMA ReconcileTypes ==
    ASSUME TInv, NEW t \in Readings, Reconcile(t)
    PROVE  RelayTypeOK' /\ HostAtWork'
<1> DEFINE Todos == [msg : Messages, status : {"queued", "accepted"}, fact : Facts]
<1>1. /\ healthy \in BOOLEAN /\ mem \in [Messages -> Facts] /\ failures \in 0..MaxFailures
      /\ todo \subseteq Todos /\ job \subseteq [msg : Messages, token : 1..MaxAttempts]
      /\ marks \subseteq [msg : Messages, fact : {"claimed", "canceled"}]
      /\ {} \subseteq Todos /\ {} \subseteq [msg : Messages, token : 1..MaxAttempts]
      /\ {"idle", "reconciling", "repairing", "discarding", "claiming"} \subseteq Phases
      /\ {"none", "pending", "claimed", "canceled"} = Facts
  BY DEF TInv, RelayTypeOK, Phases, Facts
<1> HIDE DEF Todos
<1>2. CASE StartPump
  <2>1. Candidates \subseteq Todos
    BY CandidateTypes DEF Todos
  <2>2. host # NoInstance
    BY <1>2 DEF StartPump, Serving
  <2> QED
    BY <1>1, <1>2, <2>1, <2>2, PumpTypes DEF StartPump, Goto, binding, Todos
<1>3. CASE EndReconcile
  <2>1. host # NoInstance
    BY <1>3 DEF EndReconcile, TInv, HostAtWork
  <2> QED
    BY <1>1, <1>3, <2>1, PumpTypes DEF EndReconcile, Goto, binding, Todos
<1>4. CASE ReconcileFlushFails
  <2>1. host # NoInstance
    BY <1>4 DEF ReconcileFlushFails, TInv, HostAtWork
  <2> QED
    BY <1>1, <1>4, <2>1, PumpTypes, FlushFailsType
    DEF ReconcileFlushFails, Stop, Goto, binding, Todos
<1>5. ASSUME NEW x \in todo,
             RecordFact(x, t) \/ DropRevoked(x, t) \/ Repaired(x) \/ Discarded(x, t)
      PROVE  RelayTypeOK' /\ HostAtWork'
  <2>1. host # NoInstance
    BY DEF TInv, HostAtWork
  <2>2. /\ UNCHANGED <<binding, mem, log, marks, failures>>
        /\ Done(x) \/ Stop
    BY <1>5 DEF RecordFact, DropRevoked, Repaired, Discarded
  <2> QED
    BY <1>1, <2>1, <2>2, PumpTypes DEF Done, Stop, Goto, binding, Todos
<1>6. ASSUME NEW x \in todo, RecordAdmission(x, t)
      PROVE  RelayTypeOK' /\ HostAtWork'
  <2>1. host # NoInstance
    BY DEF TInv, HostAtWork
  <2>2. (todo \ {x}) \cup {[x EXCEPT !.status = "accepted"]} \subseteq Todos
    BY <1>1 DEF Todos
  <2> DEFINE left == (todo \ {x}) \cup {[x EXCEPT !.status = "accepted"]}
  <2>3. /\ UNCHANGED <<binding, mem, log, marks, failures>>
        /\ Goto("reconciling", left, {}) \/ Stop
    BY <1>6 DEF RecordAdmission
  <2> HIDE DEF left
  <2>4. left \subseteq Todos
    BY <2>2 DEF left
  <2> QED
    BY <1>1, <2>1, <2>3, <2>4, PumpTypes DEF Stop, Goto, binding, Todos
<1>7. ASSUME NEW x \in todo, KeepCandidate(x)
      PROVE  RelayTypeOK' /\ HostAtWork'
  <2>1. host # NoInstance
    BY DEF TInv, HostAtWork
  <2>2. /\ UNCHANGED <<vars, binding, log, marks, failures>>
        /\ mem' = Inserted(x.msg) \/ mem' = mem
        /\ Goto("repairing", todo, {}) \/ Done(x)
    BY <1>7 DEF KeepCandidate, Keep
  <2>3. mem' \in [Messages -> Facts]
    BY <1>1, <2>2 DEF Inserted
  <2> QED
    BY <1>1, <2>1, <2>2, <2>3, PumpTypes DEF Done, Goto, binding, Todos
<1>8. ASSUME NEW x \in todo, RemoveRevoked(x)
      PROVE  RelayTypeOK' /\ HostAtWork'
  <2>1. host # NoInstance /\ x.msg \in Messages
    BY DEF TInv, RelayTypeOK, HostAtWork
  <2>2. /\ UNCHANGED <<vars, binding, log, failures>>
        /\ mem' = [mem EXCEPT ![x.msg] = "canceled"]
        /\ marks' = marks \cup {[msg |-> x.msg, fact |-> "canceled"]}
        /\ Goto("discarding", todo, {})
    BY <1>8 DEF RemoveRevoked
  <2>3. mem' \in [Messages -> Facts]
    BY <1>1, <2>2
  <2>4. marks' \subseteq [msg : Messages, fact : {"claimed", "canceled"}]
    BY <1>1, <2>1, <2>2
  <2> QED
    BY <1>1, <2>1, <2>2, <2>3, <2>4, PumpTypes DEF Goto, binding, Todos
<1> QED
  BY <1>2, <1>3, <1>4, <1>5, <1>6, <1>7, <1>8 DEF Reconcile

(* A transaction that grants attempts grants them under their numbers. *)
LEMMA GrantedTypes ==
    ASSUME TypeOK, TypeOK'
    PROVE  Granted \subseteq [msg : Messages, token : 1..MaxAttempts]
<1> SUFFICES ASSUME NEW x \in Granted
             PROVE  x \in [msg : Messages, token : 1..MaxAttempts]
  OBVIOUS
<1>1. PICK m \in Messages : /\ x = [msg |-> m, token |-> row'[m].attempts]
                            /\ row'[m].attempts > row[m].attempts
  BY DEF Granted
<1>2. row[m].attempts \in Nat /\ row'[m].attempts \in 0..MaxAttempts
  BY DEF TypeOK, Rows
<1>3. row'[m].attempts \in 1..MaxAttempts
  BY <1>1, <1>2
<1> QED
  BY <1>1, <1>3

LEMMA DeliverTypes ==
    ASSUME TInv, TypeOK', NEW t \in Readings, Deliver(t)
    PROVE  RelayTypeOK' /\ HostAtWork'
<1> DEFINE Todos == [msg : Messages, status : {"queued", "accepted"}, fact : Facts]
<1> DEFINE Jobs == [msg : Messages, token : 1..MaxAttempts]
<1>1. /\ healthy \in BOOLEAN /\ mem \in [Messages -> Facts] /\ failures \in 0..MaxFailures
      /\ todo \subseteq Todos /\ job \subseteq Jobs
      /\ marks \subseteq [msg : Messages, fact : {"claimed", "canceled"}]
      /\ {} \subseteq Todos /\ {} \subseteq Jobs
      /\ {"idle", "claiming", "leased", "flushing"} \subseteq Phases
      /\ {"none", "pending", "claimed", "canceled"} = Facts
  BY DEF TInv, RelayTypeOK, Phases, Facts
<1>2. phase # "idle" \/ job # {} => host # NoInstance
  BY DEF TInv, HostAtWork
<1> HIDE DEF Todos, Jobs
<1>3. CASE GiveUp
  BY <1>1, <1>2, <1>3, PumpTypes DEF GiveUp, Stop, Goto, binding, Todos, Jobs
<1>4. CASE ClaimNext(t)
  <2>1. /\ phase' \in {"idle", "leased"} /\ todo' \subseteq Todos /\ job' \subseteq Jobs
        /\ healthy' \in BOOLEAN /\ UNCHANGED <<host, dead, fence>>
    <3>1. Granted \subseteq Jobs
      BY GrantedTypes DEF TInv, Jobs
    <3> QED
      BY <1>1, <1>4, <3>1 DEF ClaimNext, LoseFence, Stop, Goto, binding
  <2>2. phase = "claiming" /\ UNCHANGED <<mem, log, marks, failures>>
    BY <1>4 DEF ClaimNext
  <2> QED
    BY <1>1, <1>2, <2>1, <2>2, PumpTypes DEF Todos, Jobs
<1>5. ASSUME NEW j \in job, Refuse(j, t) \/ Acknowledge(j, t)
      PROVE  RelayTypeOK' /\ HostAtWork'
  <2>1. /\ phase' \in {"idle", "claiming"} /\ todo' = {} /\ job' = {}
        /\ healthy' \in BOOLEAN /\ UNCHANGED <<host, dead, fence>>
        /\ UNCHANGED <<mem, log, marks, failures>>
    BY <1>1, <1>5 DEF Refuse, Acknowledge, LoseFence, Stop, Goto, binding
  <2> QED
    BY <1>1, <1>2, <2>1, PumpTypes DEF Todos, Jobs
<1>6. ASSUME NEW j \in job, Admit(j)
      PROVE  RelayTypeOK' /\ HostAtWork'
  <2>1. /\ phase' = "flushing" /\ mem' = Inserted(j.msg)
        /\ UNCHANGED <<vars, binding, log, todo, job, marks, failures>>
    BY <1>6 DEF Admit
  <2>2. mem' \in [Messages -> Facts]
    BY <1>1, <2>1 DEF Inserted
  <2> QED
    BY <1>1, <1>2, <2>1, <2>2, PumpTypes DEF binding, Todos, Jobs
<1>7. ASSUME NEW j \in job, Retry(j, t)
      PROVE  RelayTypeOK' /\ HostAtWork'
  <2>1. FlushFails /\ Stop /\ UNCHANGED <<binding, mem, log, marks>>
    BY <1>7 DEF Retry
  <2> QED
    BY <1>1, <1>2, <2>1, PumpTypes, FlushFailsType DEF Stop, Goto, binding, Todos, Jobs
<1> QED
  BY <1>3, <1>4, <1>5, <1>6, <1>7 DEF Deliver

LEMMA ProcessTypes ==
    ASSUME TInv, ProcessStep
    PROVE  RelayTypeOK' /\ HostAtWork'
<1>1. CASE Crash
  BY <1>1 DEF Crash, Stop, Goto, vars, TInv, RelayTypeOK, HostAtWork, Phases
<1>2. ASSUME NEW t \in Readings, Heartbeat(t) PROVE RelayTypeOK' /\ HostAtWork'
  BY <1>2 DEF Heartbeat, LoopFree, pump, TInv, RelayTypeOK, HostAtWork
<1>3. ASSUME NEW t \in Readings, Detach(t) PROVE RelayTypeOK' /\ HostAtWork'
  <2>1. failures' \in 0..MaxFailures
    BY <1>3, FlushFailsType DEF Detach, TInv, RelayTypeOK
  <2>2. log' \in [Messages -> Facts]
    BY <1>3 DEF Detach, TInv, RelayTypeOK
  <2>3. /\ host' = NoInstance /\ healthy' = FALSE /\ marks' = {}
        /\ phase' = "idle" /\ todo' = {} /\ job' = {}
        /\ UNCHANGED <<dead, fence, mem>>
    BY <1>3 DEF Detach, Stop, Goto
  <2> QED
    BY <2>1, <2>2, <2>3 DEF TInv, RelayTypeOK, HostAtWork, Phases
<1>4. ASSUME NEW t \in Readings, NEW i \in Instances, Attach(i, t)
      PROVE  RelayTypeOK' /\ HostAtWork'
  <2>1. presence[Home].fence \in 0..MaxFence /\ presence[Home].fence < MaxFence
    BY <1>4 DEF Attach, TakePresence, TInv, TypeOK, PresenceRows
  <2>2. fence' \in 1..MaxFence
    BY <1>4, <2>1 DEF Attach
  <2>3. i # NoInstance
    OBVIOUS
  <2>4. /\ host' = i /\ healthy' = TRUE /\ mem' = log
        /\ UNCHANGED <<dead, log, phase, todo, job, marks, failures>>
    BY <1>4 DEF Attach, pump
  <2> QED
    BY <2>2, <2>3, <2>4 DEF TInv, RelayTypeOK, HostAtWork
<1> QED
  BY <1>1, <1>2, <1>3, <1>4 DEF ProcessStep

LEMMA RelayNextTypes == TInv /\ [RelayNext]_relayVars => TInv'
<1> SUFFICES ASSUME TInv, [RelayNext]_relayVars PROVE TInv'
  OBVIOUS
<1>1. TypeOK'
  BY RelayStepIsStep, NextTypes DEF TInv
<1>2. CASE Elsewhere
  BY <1>1, <1>2 DEF Elsewhere, binding, pump, TInv, RelayTypeOK, HostAtWork
<1>3. CASE Pump
  BY <1>1, <1>3, ReconcileTypes, DeliverTypes DEF Pump, TInv
<1>4. CASE AgentStep
  <2>1. PICK m \in Messages, fact \in {"claimed", "canceled"} : Take(m, fact)
    BY <1>4 DEF AgentStep
  <2>2. /\ host # NoInstance
        /\ mem' = [mem EXCEPT ![m] = fact]
        /\ marks' = marks \cup {[msg |-> m, fact |-> fact]}
        /\ UNCHANGED <<vars, binding, log, pump, failures>>
    BY <2>1 DEF Take, LoopFree
  <2>3. mem' \in [Messages -> Facts]
    BY <2>2 DEF TInv, RelayTypeOK, Facts
  <2>4. marks' \subseteq [msg : Messages, fact : {"claimed", "canceled"}]
    BY <2>2 DEF TInv, RelayTypeOK
  <2>5. UNCHANGED <<host, dead, fence, healthy, phase, todo, job, log, failures>>
    BY <2>2 DEF binding, pump
  <2>6. RelayTypeOK' /\ HostAtWork'
    BY <2>2, <2>3, <2>4, <2>5, PumpTypes DEF TInv, RelayTypeOK
  <2> QED
    BY <1>1, <2>6 DEF TInv
<1>5. CASE Persist
  BY <1>1, <1>5 DEF Persist, binding, pump, TInv, RelayTypeOK, HostAtWork
<1>6. CASE CheckpointStep
  <2>1. PICK x \in marks : CheckpointFails(x) \/ \E t \in Readings : Checkpoint(x, t)
    BY <1>6 DEF CheckpointStep
  <2>2. failures' \in 0..MaxFailures
    BY <2>1, FlushFailsType DEF CheckpointFails, Checkpoint, TInv, RelayTypeOK
  <2>3. marks' \subseteq marks /\ UNCHANGED <<binding, mem, log, pump>>
    BY <2>1 DEF CheckpointFails, Checkpoint
  <2>4. RelayTypeOK' /\ HostAtWork'
    BY <2>2, <2>3 DEF binding, pump, TInv, RelayTypeOK, HostAtWork
  <2> QED
    BY <1>1, <2>4 DEF TInv
<1>7. CASE ProcessStep
  BY <1>1, <1>7, ProcessTypes DEF TInv
<1>8. CASE UNCHANGED relayVars
  BY <1>1, <1>8 DEF relayVars, binding, pump, TInv, RelayTypeOK, HostAtWork
<1> QED
  BY <1>2, <1>3, <1>4, <1>5, <1>6, <1>7, <1>8 DEF RelayNext

LEMMA RelayTyped == RelaySpec => []TInv
BY RelayInitTypes, RelayNextTypes, PTL DEF RelaySpec

(* What the provider keeps in memory and in the log is well typed. *)
THEOREM RelayTypeCorrect == RelaySpec => []RelayTypeOK
<1>1. TInv => RelayTypeOK
  BY DEF TInv
<1> QED
  BY <1>1, RelayTyped, PTL

(* The provider (local.ts) calls the transactions of database.ts only in ways
   module Mailbox allows: with a claim that was issued and a token of an
   attempt.  Whatever is proved of the mailbox therefore holds under it. *)
THEOREM RelayUsesMailbox == RelaySpec => UsesMailbox
<1>1. RelayInit => Init
  BY DEF RelayInit
<1> QED
  BY <1>1, RelayStepIsStep, RelayTyped, PTL DEF RelaySpec, UsesMailbox, Spec

-----------------------------------------------------------------------------
(* What steps do to the rows                                                 *)

(* An attempt is never forgotten, and a message that was acknowledged or
   given up never waits or expires again. *)
LEMMA RowsGoOn ==
    ASSUME IInv, [Next]_vars, NEW m \in Messages
    PROVE  /\ row[m].attempts > 0 => row'[m].attempts > 0
           /\ row[m].status \in {"accepted", "claimed", "failed"} =>
                  row'[m].status \in {"accepted", "claimed", "failed"}
           /\ row[m].status \in {"claimed", "failed", "expired"} => row'[m] = row[m]
           /\ row'[m].status = "queued" /\ row[m].attempts > 0 => row[m].status = "queued"
<1>1. row[m] \in Rows /\ RowConsistent(m)
  BY DEF IInv, TypeOK, SchemaHolds
<1>2. CASE UNCHANGED vars
  BY <1>2 DEF vars
<1>3. CASE Next
  <2>1. RowStep(m)
    BY <1>3, RowSteps DEF IInv
  <2>2. CASE row'[m] = row[m]
    BY <2>2
  <2>3. CASE Entered(m)
    BY <1>1, <2>3 DEF Entered, RowConsistent, AbsentRow
  <2>4. CASE Settled(m)
    BY <1>1, <2>4, SettleRow DEF Settled, Statuses
  <2>5. CASE LeaseGranted(m)
    <3>1. row[m].attempts \in Nat
      BY <1>1 DEF Rows
    <3>2. row'[m].attempts = row[m].attempts + 1 /\ row'[m].status = "queued"
      BY <1>1, <2>5, GrantRow DEF LeaseGranted
    <3> QED
      BY <2>5, <3>1, <3>2 DEF LeaseGranted
  <2>6. CASE Admitted(m)
    BY <1>1, <2>6, AcceptRow DEF Admitted
  <2>7. CASE Consumed(m)
    BY <1>1, <2>7, ClaimRow DEF Consumed
  <2>8. CASE BackedOff(m)
    BY <1>1, <2>8, BackOffRow DEF BackedOff
  <2> QED
    BY <2>1, <2>2, <2>3, <2>4, <2>5, <2>6, <2>7, <2>8 DEF RowStep
<1> QED
  BY <1>2, <1>3

(* claimNextDelivery settles a row, leaves it alone, or grants it an attempt:
   then it is the first of its recipient. *)
GrantedTo(m, c, t) ==
    /\ row'[m] = Grant(row[m], c, t)
    /\ Recipient[m] = c.session
    /\ row[m].status = "queued"
    /\ row[m].attempts < MaxAttempts
    /\ \A n \in Messages :
          row'[n].status = "queued" /\ Recipient[n] = Recipient[m] => row[m].seq <= row[n].seq

LEMMA ClaimedRows ==
    ASSUME TypeOK, NEW c \in Claims, NEW t \in Nat, ClaimNextDelivery(c, t), NEW m \in Messages
    PROVE  SweptTo(m, row'[m]) \/ GrantedTo(m, c, t)
<1> DEFINE swept == Swept(c.session, t)
<1> DEFINE ready == {n \in Messages : Claimable(swept, c, n, t)}
<1>1. row' = [n \in Messages |-> IF n \in ready THEN Grant(swept[n], c, t) ELSE swept[n]]
  BY DEF ClaimNextDelivery
<1>2. \A n \in Messages : swept[n] \in Rows /\ SweptTo(n, swept[n])
  <2> SUFFICES ASSUME NEW n \in Messages PROVE swept[n] \in Rows /\ SweptTo(n, swept[n])
    OBVIOUS
  <2>1. row[n] \in Rows
    BY DEF TypeOK
  <2> QED
    BY <2>1, SweptRow, SettleRow DEF SweptTo, Statuses
<1>3. CASE m \notin ready
  <2>1. row'[m] = swept[m]
    BY <1>1, <1>3
  <2> QED
    BY <1>2, <2>1
<1>4. CASE m \in ready
  <2>1. Claimable(swept, c, m, t)
    BY <1>4
  <2>2. swept[m].status = "queued" /\ swept[m].attempts < MaxAttempts /\ Recipient[m] = c.session
    BY <2>1 DEF Claimable, Head
  <2>3. swept[m] = row[m]
    BY <2>2, SweptQueued
  <2>4. row'[m] = Grant(row[m], c, t)
    BY <1>1, <1>4, <2>3
  <2>5. ASSUME NEW n \in Messages, row'[n].status = "queued", Recipient[n] = Recipient[m]
        PROVE  row[m].seq <= row[n].seq
    <3>1. swept[n].status = "queued"
      <4>1. CASE n \in ready
        BY <4>1 DEF Claimable, Head
      <4>2. CASE n \notin ready
        BY <1>1, <2>5, <4>2
      <4> QED
        BY <4>1, <4>2
    <3>2. swept[n] = row[n]
      BY <3>1, SweptQueued
    <3> QED
      BY <2>1, <2>3, <2>5, <3>1, <3>2 DEF Claimable, Head
  <2> QED
    BY <2>2, <2>3, <2>4, <2>5 DEF GrantedTo
<1> QED
  BY <1>3, <1>4

(* What others do while the provider waits changes no row that is leased. *)
LEMMA ElsewhereRows ==
    ASSUME IInv, Elsewhere, NEW m \in Messages
    PROVE  /\ Leased(m) => row'[m] = row[m]
           /\ row[m].status \notin {"absent", "queued"} => row'[m] = row[m]
           /\ row'[m].status \in {"accepted", "claimed", "expired"} => row'[m] = row[m]
           /\ row'[m].lease = row[m].lease
<1>1. row[m] \in Rows /\ RowConsistent(m)
  BY DEF IInv, TypeOK, SchemaHolds
<1>2. CASE row' = row
  BY <1>2
<1>3. CASE \E p \in Revocable, receive \in BOOLEAN :
              SetSessionPolicy(p, policy[p].send, receive)
  <2>1. PICK p \in Revocable, receive \in BOOLEAN :
                SetSessionPolicy(p, policy[p].send, receive)
    BY <1>3
  <2> DEFINE cut == CutOff(p, policy[p].send, receive)
  <2>2. row'[m] = IF m \in cut THEN Settle(row[m], "failed") ELSE row[m]
    BY <2>1 DEF SetSessionPolicy, SettleAll
  <2>3. m \in cut => row[m].status = "queued" /\ ~Leased(m)
    BY DEF CutOff, UnleasedText
  <2>4. Settle(row[m], "failed").status = "failed" /\ Settle(row[m], "failed").lease = NoLease
    BY <1>1, SettleRow DEF Statuses
  <2> QED
    BY <2>2, <2>3, <2>4 DEF Leased
<1>4. CASE \E t \in Readings, n \in Messages : Enqueue(n, t)
  <2>1. PICK t \in Readings, n \in Messages : Enqueue(n, t)
    BY <1>4
  <2>2. row'[m] = IF m = n THEN NewRow(t) ELSE row[m]
    BY <2>1 DEF Enqueue, IInv, TypeOK
  <2>3. row[n].status = "absent"
    BY <2>1 DEF Enqueue
  <2>4. NewRow(t).status = "queued" /\ NewRow(t).lease = NoLease
    BY DEF NewRow
  <2> QED
    BY <1>1, <2>2, <2>3, <2>4 DEF RowConsistent, AbsentRow
<1> QED
  BY <1>2, <1>3, <1>4 DEF Elsewhere, Tick, ExpirePresence

(* markClaimed and markDiscarded change the row they are about, if any. *)
LEMMA MarkedRow ==
    ASSUME TInv, host # NoInstance, NEW m \in Messages, NEW fact \in Facts, NEW t,
           Mark(m, fact, t), NEW n \in Messages
    PROVE  /\ n # m => row'[n] = row[n]
           /\ row'[n].status # row[n].status => Current(Me, t)
           /\ \/ /\ row[m].status \in {"queued", "accepted"}
                 /\ fact \in {"claimed", "canceled"}
                 /\ row'[m].status = StatusFor(fact)
                 /\ row'[m].lease = NoLease
              \/ row' = row /\ row[m].status = StatusFor(fact)
<1>1. row[m] \in Rows /\ Me \in Claims
  BY MeIsClaim DEF TInv, TypeOK
<1>2. CASE fact = "claimed" /\ MarkClaimed(Me, m, t)
  <2>1. row' = [row EXCEPT ![m] = Claim(row[m], Me)] /\ Current(Me, t)
        /\ row[m].status \in {"queued", "accepted"}
    BY <1>2 DEF MarkClaimed, ChangeRow, Addressed
  <2>2. row'[m] = Claim(row[m], Me) /\ (n # m => row'[n] = row[n])
    BY <2>1 DEF TInv, TypeOK
  <2> QED
    BY <1>1, <1>2, <2>1, <2>2, ClaimRow DEF StatusFor
<1>3. CASE fact = "canceled" /\ MarkDiscarded(Me, m, t)
  <2>1. row' = [row EXCEPT ![m] = Settle(row[m], "failed")] /\ Current(Me, t)
        /\ row[m].status \in {"queued", "accepted"}
    BY <1>3 DEF MarkDiscarded, ChangeRow, Addressed
  <2>2. row'[m] = Settle(row[m], "failed") /\ (n # m => row'[n] = row[n])
    BY <2>1 DEF TInv, TypeOK
  <2> QED
    BY <1>1, <1>3, <2>1, <2>2, SettleRow DEF StatusFor, Statuses
<1>4. CASE row[m].status = StatusFor(fact) /\ UNCHANGED vars
  BY <1>4 DEF vars
<1> QED
  BY <1>2, <1>3, <1>4 DEF Mark

(* recoverAccepted and acceptDelivery change the one row. *)
LEMMA AdmittedRow ==
    ASSUME TInv, host # NoInstance, NEW m \in Messages, NEW t, NEW token,
           RecoverAccepted(Me, m, t) \/ AcceptDelivery(Me, m, token, t), NEW n \in Messages
    PROVE  /\ n # m => row'[n] = row[n]
           /\ row'[m].status = "accepted" /\ row'[m].lease = NoLease
           /\ Current(Me, t)
<1>1. row[m] \in Rows /\ Me \in Claims
  BY MeIsClaim DEF TInv, TypeOK
<1>2. row' = [row EXCEPT ![m] = Accept(row[m], Me)] /\ Current(Me, t)
  BY DEF RecoverAccepted, AcceptDelivery, ChangeRow, Addressed
<1>3. row'[m] = Accept(row[m], Me) /\ (n # m => row'[n] = row[n])
  BY <1>2 DEF TInv, TypeOK
<1> QED
  BY <1>1, <1>2, <1>3, AcceptRow

(* failDelivery and retryDelivery end the lease they were called with. *)
LEMMA GivenBackRow ==
    ASSUME TInv, host # NoInstance, NEW m \in Messages, NEW t \in Readings, NEW token,
           FailDelivery(Me, m, token, t) \/ RetryDelivery(Me, m, token, t), NEW n \in Messages
    PROVE  /\ n # m => row'[n] = row[n]
           /\ row'[m].status \in {"queued", "failed"} /\ row'[m].lease = NoLease
<1>1. row[m] \in Rows /\ row[m].status = "queued" /\ t \in Nat
  BY ReadingsAreTimes DEF TInv, TypeOK, FailDelivery, RetryDelivery, HoldsLease
<1>2. \/ row' = [row EXCEPT ![m] = BackOff(row[m], t)]
      \/ row' = [row EXCEPT ![m] = Settle(row[m], "failed")]
  BY DEF FailDelivery, RetryDelivery, ChangeRow
<1>3. /\ n # m => row'[n] = row[n]
      /\ row'[m] = BackOff(row[m], t) \/ row'[m] = Settle(row[m], "failed")
  BY <1>2 DEF TInv, TypeOK
<1> QED
  BY <1>1, <1>3, BackOffRow, SettleRow DEF Statuses

-----------------------------------------------------------------------------
(* The inductive invariant                                                   *)

Acked == {"accepted", "claimed"}

(* One delivery at a time, and none while the pump reconciles. *)
PumpPlaces ==
    /\ job # {} => phase \in {"leased", "flushing"}
    /\ todo # {} => phase \in {"reconciling", "repairing", "discarding"}
    /\ \A j, k \in job : j = k

LoggedIsRemembered == \A m \in Messages : log[m] # "none" => mem[m] # "none"

(* Nothing comes into the Session or is acknowledged without an attempt. *)
RememberedIsAttempted ==
    \A m \in Messages :
        /\ mem[m] # "none" => Recipient[m] = Home /\ row[m].attempts > 0
        /\ row[m].status \in Acked => row[m].attempts > 0

(* A candidate of the reconciliation may be out of date, but not like this. *)
TodoIsTrue ==
    \A x \in todo :
        /\ Recipient[x.msg] = Home
        /\ x.fact # "none" => mem[x.msg] # "none"
        /\ x.status = "accepted" => /\ row[x.msg].status \in Acked \cup {"failed"}
                                    /\ row[x.msg].attempts > 0

(* The delivery in progress holds its lease, or a checkpoint was faster. *)
JobHolds ==
    \A j \in job :
        /\ Recipient[j.msg] = Home
        /\ row[j.msg].attempts > 0
        /\ \/ HoldsLease(Me, j.msg, j.token)
           \/ /\ mem[j.msg] \in {"claimed", "canceled"}
              /\ row[j.msg].status = StatusFor(mem[j.msg])

MarksAreFacts == \A x \in marks : mem[x.msg] = x.fact

RInv ==
    /\ TInv
    /\ IInv
    /\ PumpPlaces
    /\ LoggedIsRemembered
    /\ RememberedIsAttempted
    /\ TodoIsTrue
    /\ JobHolds
    /\ MarksAreFacts

LEMMA RelayInitInv == RelayInit => RInv
<1> SUFFICES ASSUME RelayInit PROVE RInv
  OBVIOUS
<1>1. TInv /\ IInv
  BY RelayInitTypes, InitIInv DEF RelayInit
<1>2. \A m \in Messages : mem[m] = "none" /\ log[m] = "none" /\ row[m].status = "absent"
  BY DEF RelayInit, Init, AbsentRow
<1>3. todo = {} /\ job = {} /\ marks = {}
  BY DEF RelayInit
<1> QED
  BY <1>1, <1>2, <1>3 DEF RInv, PumpPlaces, LoggedIsRemembered, RememberedIsAttempted,
     TodoIsTrue, JobHolds, MarksAreFacts, Acked

(* What acknowledges a message: the log says that it is in the Session, or a
   candidate of the reconciliation does. *)
LEMMA AckSteps ==
    ASSUME RInv, [RelayNext]_relayVars, NEW m \in Messages,
           row'[m].status \in Acked, row[m].status \notin Acked
    PROVE  \/ log[m] # "none"
           \/ \E x \in todo, t \in Readings :
                 x.msg = m /\ x.fact # "none" /\ Current(Me, t)
<1>0. row[m] \in Rows /\ TInv /\ IInv /\ row'[m] # row[m] /\ row' # row
  BY DEF RInv, TInv, TypeOK
<1>1. CASE Elsewhere
  BY <1>0, <1>1, ElsewhereRows DEF Acked
<1>2. CASE Pump
  <2>1. PICK t \in Readings : Reconcile(t) \/ Deliver(t)
    BY <1>2 DEF Pump
  <2>2. t \in Nat
    BY <1>0, ReadingsAreTimes DEF TInv
  <2>3. CASE ClaimNext(t)
    <3>1. ClaimNextDelivery(Me, t) /\ host # NoInstance
      BY <1>0, <2>3 DEF ClaimNext, vars, LoseFence, TInv, HostAtWork
    <3>2. SweptTo(m, row'[m]) \/ GrantedTo(m, Me, t)
      BY <1>0, <2>2, <3>1, ClaimedRows, MeIsClaim DEF TInv
    <3>3. GrantedTo(m, Me, t) => row'[m].status = "queued"
      BY <1>0, <2>2, <3>1, GrantRow, MeIsClaim DEF GrantedTo
    <3> QED
      BY <1>0, <3>2, <3>3 DEF SweptTo, Acked
  <2>4. ASSUME NEW j \in job, Refuse(j, t) \/ Admit(j) \/ Acknowledge(j, t) \/ Retry(j, t)
        PROVE  log[m] # "none"
    <3>1. j.msg \in Messages /\ host # NoInstance
      BY <1>0 DEF TInv, RelayTypeOK, HostAtWork
    <3>2. CASE Refuse(j, t) \/ Admit(j) \/ Retry(j, t)
      <4>1. FailDelivery(Me, j.msg, j.token, t) \/ RetryDelivery(Me, j.msg, j.token, t)
        BY <1>0, <3>2 DEF Refuse, Admit, Retry, LoseFence, vars
      <4>2. (m # j.msg => row'[m] = row[m]) /\ row'[j.msg].status \in {"queued", "failed"}
        BY <1>0, <3>1, <4>1, GivenBackRow
      <4> QED
        BY <1>0, <4>2 DEF Acked
    <3>3. CASE Acknowledge(j, t)
      <4>1. log[j.msg] # "none" /\ AcceptDelivery(Me, j.msg, j.token, t)
        BY <1>0, <3>3 DEF Acknowledge, LoseFence, vars
      <4> QED
        BY <1>0, <3>1, <4>1, AdmittedRow
    <3> QED
      BY <2>4, <3>2, <3>3
  <2>5. ASSUME NEW x \in todo, RecordAdmission(x, t)
        PROVE  x.msg = m /\ x.fact # "none" /\ Current(Me, t)
    <3>1. x.msg \in Messages /\ host # NoInstance
      BY <1>0 DEF TInv, RelayTypeOK, HostAtWork
    <3>2. RecoverAccepted(Me, x.msg, t) /\ x.fact = "pending"
      BY <1>0, <2>5 DEF RecordAdmission, vars
    <3> QED
      BY <1>0, <3>1, <3>2, AdmittedRow
  <2>6. ASSUME NEW x \in todo, RecordFact(x, t) \/ DropRevoked(x, t) \/ Discarded(x, t)
        PROVE  x.msg = m /\ x.fact # "none" /\ Current(Me, t)
    <3>1. x.msg \in Messages /\ host # NoInstance
      BY <1>0 DEF TInv, RelayTypeOK, HostAtWork
    <3>2. PICK fact \in Facts : Mark(x.msg, fact, t) /\ (fact = "claimed" => x.fact # "none")
      BY <1>0, <2>6 DEF RecordFact, DropRevoked, Discarded, MarkRefused, Facts, vars
    <3>3. /\ m # x.msg => row'[m] = row[m]
          /\ row'[m].status # row[m].status => Current(Me, t)
          /\ row' = row \/ row'[x.msg].status = StatusFor(fact)
      BY <1>0, <3>1, <3>2, MarkedRow
    <3> QED
      BY <1>0, <3>2, <3>3 DEF StatusFor, Acked
  <2>7. ~ \E x \in todo : KeepCandidate(x) \/ RemoveRevoked(x) \/ Repaired(x)
    BY <1>0 DEF KeepCandidate, Keep, RemoveRevoked, Repaired, vars
  <2>8. ~(StartPump \/ EndReconcile \/ ReconcileFlushFails \/ GiveUp)
    BY <1>0 DEF StartPump, EndReconcile, ReconcileFlushFails, GiveUp, vars
  <2> QED
    BY <2>1, <2>3, <2>4, <2>5, <2>6, <2>7, <2>8 DEF Reconcile, Deliver
<1>3. CASE CheckpointStep
  <2>1. PICK x \in marks, t \in Readings : Checkpoint(x, t)
    BY <1>0, <1>3 DEF CheckpointStep, CheckpointFails, vars
  <2>2. x.msg \in Messages /\ x.fact \in Facts /\ x.fact # "none" /\ host # NoInstance
    BY <1>0 DEF TInv, RelayTypeOK, HostAtWork, Facts
  <2>3. Mark(x.msg, x.fact, t) /\ log[x.msg] # "none"
    BY <1>0, <2>1, <2>2 DEF Checkpoint, MarkRefused, vars
  <2>4. m # x.msg => row'[m] = row[m]
    BY <1>0, <2>2, <2>3, MarkedRow
  <2> QED
    BY <1>0, <2>3, <2>4
<1>4. ~(AgentStep \/ Persist \/ UNCHANGED relayVars)
  BY <1>0 DEF AgentStep, Take, Persist, relayVars, vars
<1>5. ~ProcessStep
  BY <1>0 DEF ProcessStep, Crash, Heartbeat, HeartbeatPresence, Detach, ReleasePresence, Attach,
     TakePresence, vars
<1> QED
  BY <1>1, <1>2, <1>3, <1>4, <1>5 DEF RelayNext

(* Types, the mailbox and what no step undoes. *)
LEMMA StepFacts ==
    ASSUME RInv, [RelayNext]_relayVars
    PROVE  /\ TInv /\ IInv /\ TInv' /\ IInv' /\ [Next]_vars
           /\ \A m \in Messages : /\ row[m].attempts > 0 => row'[m].attempts > 0
                                  /\ row[m].status \in Acked \cup {"failed"} =>
                                        row'[m].status \in Acked \cup {"failed"}
<1>1. TInv /\ IInv /\ [Next]_vars
  BY RelayStepIsStep DEF RInv
<1>2. TInv' /\ IInv'
  BY <1>1, RelayNextTypes, NextIInv
<1> QED
  BY <1>1, <1>2, RowsGoOn DEF Acked

(* Acknowledgements never come before attempts. *)
LEMMA AckedIsAttempted ==
    ASSUME RInv, [RelayNext]_relayVars, NEW m \in Messages, row'[m].status \in Acked
    PROVE  row'[m].attempts > 0
<1>1. CASE row[m].status \in Acked
  BY <1>1, StepFacts DEF RInv, RememberedIsAttempted
<1>2. CASE row[m].status \notin Acked
  <2>1. log[m] # "none" \/ \E x \in todo : x.msg = m /\ x.fact # "none"
    BY <1>2, AckSteps
  <2>2. mem[m] # "none"
    BY <2>1 DEF RInv, LoggedIsRemembered, TodoIsTrue
  <2> QED
    BY <2>2, StepFacts DEF RInv, RememberedIsAttempted
<1> QED
  BY <1>1, <1>2

(* What a step leaves to show, when the messages in memory stay or come in
   by the delivery in progress or by a repair. *)
LEMMA RememberedKept ==
    ASSUME RInv, [RelayNext]_relayVars,
           \A m \in Messages : mem'[m] # "none" =>
              \/ mem[m] # "none"
              \/ Recipient[m] = Home /\ row[m].attempts > 0
    PROVE  RememberedIsAttempted'
BY StepFacts, AckedIsAttempted DEF RInv, RememberedIsAttempted

LEMMA TodoKept ==
    ASSUME RInv, [RelayNext]_relayVars, todo' \subseteq todo,
           \A m \in Messages : mem[m] # "none" => mem'[m] # "none"
    PROVE  TodoIsTrue'
BY StepFacts DEF RInv, TodoIsTrue, TInv, RelayTypeOK

(* The steps of others, of heartbeats and of checkpoints. *)
LEMMA ElsewhereJob ==
    ASSUME RInv, Elsewhere
    PROVE  JobHolds'
<1> SUFFICES ASSUME NEW j \in job
             PROVE  /\ Recipient[j.msg] = Home
                    /\ row'[j.msg].attempts > 0
                    /\ \/ HoldsLease(Me, j.msg, j.token)'
                       \/ /\ mem[j.msg] \in {"claimed", "canceled"}
                          /\ row'[j.msg].status = StatusFor(mem[j.msg])
  BY DEF Elsewhere, JobHolds, pump
<1>1. j.msg \in Messages /\ IInv
  BY DEF RInv, TInv, RelayTypeOK
<1>2. Leased(j.msg) \/ row[j.msg].status \in {"claimed", "failed"}
  BY HeldLease DEF RInv, TInv, RelayTypeOK, JobHolds, StatusFor, HoldsLease, Leased, NoLease
<1>3. row'[j.msg] = row[j.msg]
  BY <1>1, <1>2, ElsewhereRows
<1> QED
  BY <1>3 DEF RInv, JobHolds, HoldsLease, Me, Elsewhere, binding

LEMMA QuietInv ==
    ASSUME RInv, Elsewhere \/ CheckpointStep \/ (\E t \in Readings : Heartbeat(t))
                   \/ UNCHANGED relayVars
    PROVE  RInv'
<1>1. [RelayNext]_relayVars
  BY DEF RelayNext, ProcessStep
<1>2. /\ UNCHANGED <<host, dead, fence, mem, log, phase, todo, job>>
      /\ marks' \subseteq marks
  BY DEF Elsewhere, CheckpointStep, CheckpointFails, Checkpoint, Heartbeat, relayVars, binding, pump
<1>3. PumpPlaces' /\ LoggedIsRemembered' /\ MarksAreFacts'
  BY <1>2 DEF RInv, PumpPlaces, LoggedIsRemembered, MarksAreFacts
<1>4. RememberedIsAttempted' /\ TodoIsTrue'
  BY <1>1, <1>2, RememberedKept, TodoKept
<1>5. JobHolds'
  <2>1. CASE row' = row
    BY <1>2, <2>1 DEF RInv, JobHolds, HoldsLease, Me
  <2>2. CASE Elsewhere
    BY <2>2, ElsewhereJob
  <2>3. CASE \E t \in Readings : Heartbeat(t)
    BY <2>1, <2>3 DEF Heartbeat, HeartbeatPresence, vars
  <2>4. CASE UNCHANGED relayVars
    BY <2>1, <2>4 DEF relayVars, vars
  <2>5. CASE CheckpointStep
    <3>1. CASE \E x \in marks : CheckpointFails(x)
      BY <2>1, <3>1 DEF CheckpointFails, vars
    <3>2. ASSUME NEW x \in marks, NEW t \in Readings, Checkpoint(x, t)
          PROVE  JobHolds'
      <4>1. /\ x.msg \in Messages /\ x.fact \in {"claimed", "canceled"} /\ x.fact \in Facts
            /\ host # NoInstance /\ TInv /\ mem[x.msg] = x.fact
        BY DEF RInv, TInv, RelayTypeOK, HostAtWork, Facts, MarksAreFacts
      <4>2. CASE row' = row
        BY <2>1, <4>2
      <4>3. CASE Mark(x.msg, x.fact, t) /\ row' # row
        <5>1. /\ \A n \in Messages : n # x.msg => row'[n] = row[n]
              /\ row'[x.msg].status = StatusFor(x.fact)
          BY <4>1, <4>3, MarkedRow
        <5> SUFFICES ASSUME NEW j \in job
                     PROVE  /\ Recipient[j.msg] = Home
                            /\ row'[j.msg].attempts > 0
                            /\ \/ HoldsLease(Me, j.msg, j.token)'
                               \/ /\ mem[j.msg] \in {"claimed", "canceled"}
                                  /\ row'[j.msg].status = StatusFor(mem[j.msg])
          BY <1>2 DEF JobHolds
        <5>2. j.msg \in Messages
          BY DEF RInv, TInv, RelayTypeOK
        <5>3. Recipient[j.msg] = Home /\ row'[j.msg].attempts > 0
          BY <1>1, <5>2, StepFacts DEF RInv, JobHolds
        <5>4. CASE j.msg = x.msg
          BY <4>1, <5>1, <5>3, <5>4
        <5>5. CASE j.msg # x.msg
          <6>1. row'[j.msg] = row[j.msg]
            BY <5>1, <5>2, <5>5
          <6> QED
            BY <1>2, <5>3, <6>1 DEF RInv, JobHolds, HoldsLease, Me
        <5> QED
          BY <5>4, <5>5
      <4> QED
        BY <3>2, <4>2, <4>3 DEF Checkpoint, MarkRefused, vars
    <3> QED
      BY <2>5, <3>1, <3>2 DEF CheckpointStep
  <2> QED
    BY <2>2, <2>3, <2>4, <2>5
<1> QED
  BY <1>1, <1>3, <1>4, <1>5, StepFacts DEF RInv

(* The agent claims or cancels what is pending; the log is written out. *)
LEMMA AgentInv ==
    ASSUME RInv, NEW m \in Messages, NEW fact \in {"claimed", "canceled"}, Take(m, fact)
    PROVE  RInv'
<1>1. [RelayNext]_relayVars
  BY DEF RelayNext, AgentStep
<1>2. /\ UNCHANGED <<vars, host, fence, log, phase, todo, job>>
      /\ mem[m] = "pending" /\ mem' = [mem EXCEPT ![m] = fact]
      /\ marks' = marks \cup {[msg |-> m, fact |-> fact]}
  BY DEF Take, binding, pump
<1>3. mem'[m] = fact /\ \A n \in Messages : n # m => mem'[n] = mem[n]
  BY <1>2 DEF RInv, TInv, RelayTypeOK
<1>4. PumpPlaces'
  BY <1>2 DEF RInv, PumpPlaces
<1>5. LoggedIsRemembered'
  BY <1>2, <1>3 DEF RInv, LoggedIsRemembered
<1>6. RememberedIsAttempted' /\ TodoIsTrue'
  BY <1>1, <1>2, <1>3, RememberedKept, TodoKept DEF RInv, RememberedIsAttempted
<1>7. MarksAreFacts'
  <2> SUFFICES ASSUME NEW x \in marks' PROVE mem'[x.msg] = x.fact
    BY DEF MarksAreFacts
  <2>1. CASE x = [msg |-> m, fact |-> fact]
    BY <1>3, <2>1
  <2>2. CASE x \in marks
    <3>1. mem[x.msg] = x.fact /\ x.fact # "pending" /\ x.msg \in Messages
      BY <2>2 DEF RInv, MarksAreFacts, TInv, RelayTypeOK
    <3> QED
      BY <1>2, <1>3, <3>1
  <2> QED
    BY <1>2, <2>1, <2>2
<1>8. JobHolds'
  <2> SUFFICES ASSUME NEW j \in job
               PROVE  /\ Recipient[j.msg] = Home
                      /\ row[j.msg].attempts > 0
                      /\ \/ HoldsLease(Me, j.msg, j.token)
                         \/ /\ mem'[j.msg] \in {"claimed", "canceled"}
                            /\ row[j.msg].status = StatusFor(mem'[j.msg])
    BY <1>2 DEF JobHolds, HoldsLease, Me, vars
  <2>1. j.msg \in Messages
    BY DEF RInv, TInv, RelayTypeOK
  <2> QED
    BY <1>2, <1>3, <2>1 DEF RInv, JobHolds
<1> QED
  BY <1>1, <1>4, <1>5, <1>6, <1>7, <1>8, StepFacts DEF RInv

LEMMA PersistInv ==
    ASSUME RInv, Persist
    PROVE  RInv'
<1>1. [RelayNext]_relayVars
  BY DEF RelayNext
<1>2. UNCHANGED <<vars, host, fence, mem, phase, todo, job, marks>> /\ log' = mem
  BY DEF Persist, binding, pump
<1>3. PumpPlaces' /\ LoggedIsRemembered' /\ MarksAreFacts'
  BY <1>2 DEF RInv, PumpPlaces, LoggedIsRemembered, MarksAreFacts
<1>4. RememberedIsAttempted' /\ TodoIsTrue'
  BY <1>1, <1>2, RememberedKept, TodoKept
<1>5. JobHolds'
  BY <1>2 DEF RInv, JobHolds, HoldsLease, Me, vars
<1> QED
  BY <1>1, <1>3, <1>4, <1>5, StepFacts DEF RInv

(* The process is replaced: what it had in mind is gone. *)
LEMMA ProcessInv ==
    ASSUME RInv,
           Crash \/ \E t \in Readings : Detach(t) \/ \E i \in Instances : Attach(i, t)
    PROVE  RInv'
<1>1. [RelayNext]_relayVars
  BY DEF RelayNext, ProcessStep
<1>2. todo' = {} /\ job' = {} /\ marks' = {}
  <2>1. CASE host = NoInstance
    <3>1. UNCHANGED <<todo, job, marks>>
      BY <2>1 DEF Crash, Detach, LoopFree, Attach, pump
    <3> QED
      BY <2>1, <3>1 DEF RInv, TInv, HostAtWork
  <2>2. CASE host # NoInstance
    BY <2>2 DEF Crash, Detach, Attach, Stop, Goto
  <2> QED
    BY <2>1, <2>2
<1>3. /\ mem' = mem \/ (mem' = log /\ log' = log)
      /\ log' = log \/ log' = mem
  BY DEF Crash, Detach, Attach
<1>4. PumpPlaces' /\ TodoIsTrue' /\ JobHolds' /\ MarksAreFacts'
  BY <1>2 DEF PumpPlaces, TodoIsTrue, JobHolds, MarksAreFacts
<1>5. LoggedIsRemembered'
  BY <1>3 DEF RInv, LoggedIsRemembered
<1>6. RememberedIsAttempted'
  BY <1>1, <1>3, RememberedKept DEF RInv, LoggedIsRemembered
<1> QED
  BY <1>1, <1>4, <1>5, <1>6, StepFacts DEF RInv

(* The pump reconciles the mailbox with the log: no delivery is in progress. *)
LEMMA CandidatesAreTrue ==
    ASSUME RInv, NEW x \in Candidates
    PROVE  /\ x.msg \in Messages
           /\ Recipient[x.msg] = Home
           /\ x.fact = mem[x.msg]
           /\ x.status = row[x.msg].status
           /\ x.status = "accepted" \/ (x.status = "queued" /\ Leased(x.msg))
           /\ x.status = "accepted" => row[x.msg].attempts > 0
<1> DEFINE S == {m \in Texts : /\ Recipient[m] = Home
                               /\ \/ row[m].status = "accepted"
                                  \/ row[m].status = "queued" /\ Leased(m)}
<1>1. PICK m \in S : x = [msg |-> m, status |-> row[m].status, fact |-> mem[m]]
  BY Zenon DEF Candidates, Snapshot
<1>2. m \in Texts /\ Recipient[m] = Home
  BY Zenon
<1>3. row[m].status = "accepted" \/ (row[m].status = "queued" /\ Leased(m))
  BY Zenon
<1>4. x.msg = m /\ x.status = row[m].status /\ x.fact = mem[m]
  BY <1>1
<1>5. x.status = "accepted" \/ (x.status = "queued" /\ Leased(x.msg))
  BY <1>3, <1>4
<1>6. x.status = "accepted" => row[x.msg].attempts > 0
  BY <1>2, <1>4 DEF RInv, RememberedIsAttempted, Acked
<1> QED
  BY <1>2, <1>4, <1>5, <1>6

LEMMA ReconcileInv ==
    ASSUME RInv, NEW t \in Readings, Reconcile(t)
    PROVE  RInv'
<1>1. [RelayNext]_relayVars
  BY DEF RelayNext, Pump
<1>2. job' = {} /\ phase' \in {"idle", "reconciling", "repairing", "discarding", "claiming"}
  BY DEF Reconcile, StartPump, EndReconcile, ReconcileFlushFails, RecordFact, RecordAdmission,
     KeepCandidate, Keep, RemoveRevoked, DropRevoked, Repaired, Discarded, Done, Stop, Goto
<1>3. todo' # {} => phase' \in {"reconciling", "repairing", "discarding"}
  BY DEF Reconcile, StartPump, EndReconcile, ReconcileFlushFails, RecordFact, RecordAdmission,
     KeepCandidate, Keep, RemoveRevoked, DropRevoked, Repaired, Discarded, Done, Stop, Goto
<1>4. PumpPlaces' /\ JobHolds'
  BY <1>2, <1>3 DEF PumpPlaces, JobHolds
<1>5. log' = log
  BY DEF Reconcile, StartPump, EndReconcile, ReconcileFlushFails, RecordFact, RecordAdmission,
     KeepCandidate, Keep, RemoveRevoked, DropRevoked, Repaired, Discarded
<1>6. \/ /\ UNCHANGED <<mem, marks>>
      \/ \E x \in todo : /\ mem' = Inserted(x.msg) /\ marks' = marks
                         /\ x.status = "accepted"
      \/ \E x \in todo : /\ mem[x.msg] = "pending"
                         /\ mem' = [mem EXCEPT ![x.msg] = "canceled"]
                         /\ marks' = marks \cup {[msg |-> x.msg, fact |-> "canceled"]}
  BY DEF Reconcile, StartPump, EndReconcile, ReconcileFlushFails, RecordFact, RecordAdmission,
     KeepCandidate, Keep, RemoveRevoked, DropRevoked, Repaired, Discarded
<1>7. \A x \in todo : x.msg \in Messages
  BY DEF RInv, TInv, RelayTypeOK
<1>8. mem \in [Messages -> Facts]
  BY DEF RInv, TInv, RelayTypeOK
<1>9. \A m \in Messages :
         /\ mem[m] # "none" => mem'[m] # "none"
         /\ mem[m] \in {"claimed", "canceled"} => mem'[m] = mem[m]
         /\ mem'[m] # "none" => \/ mem[m] # "none"
                               \/ \E x \in todo : x.msg = m /\ x.status = "accepted"
  BY <1>6, <1>7, <1>8 DEF Inserted
<1>10. LoggedIsRemembered'
  BY <1>5, <1>9 DEF RInv, LoggedIsRemembered
<1>11. RememberedIsAttempted'
  BY <1>1, <1>9, RememberedKept DEF RInv, TodoIsTrue
<1>12. MarksAreFacts'
  <2> SUFFICES ASSUME NEW x \in marks' PROVE mem'[x.msg] = x.fact
    BY DEF MarksAreFacts
  <2>1. CASE x \in marks
    <3>1. mem[x.msg] = x.fact /\ x.fact \in {"claimed", "canceled"} /\ x.msg \in Messages
      BY <2>1 DEF RInv, MarksAreFacts, TInv, RelayTypeOK
    <3> QED
      BY <1>9, <3>1
  <2>2. CASE x \notin marks
    BY <1>6, <1>7, <1>8, <2>2
  <2> QED
    BY <2>1, <2>2
<1>13. TodoIsTrue'
  <2>1. CASE todo' \subseteq todo
    BY <1>1, <1>9, <2>1, TodoKept
  <2>2. CASE StartPump
    <3>1. todo' = Candidates /\ UNCHANGED <<vars, mem>>
      BY <2>2 DEF StartPump, Goto
    <3> QED
      BY <3>1, CandidatesAreTrue DEF TodoIsTrue, Acked, vars
  <2>3. ASSUME NEW x \in todo, RecordAdmission(x, t), ~(todo' \subseteq todo)
        PROVE  TodoIsTrue'
    <3> DEFINE admitted == [x EXCEPT !.status = "accepted"]
    <3>1. /\ RecoverAccepted(Me, x.msg, t) /\ x.fact = "pending" /\ mem' = mem
          /\ todo' = (todo \ {x}) \cup {admitted}
      BY <2>3 DEF RecordAdmission, Stop, Goto
    <3>2. x \in [msg : Messages, status : {"queued", "accepted"}, fact : Facts]
          /\ TInv /\ host # NoInstance
      BY DEF RInv, TInv, RelayTypeOK, HostAtWork
    <3>3. admitted.msg = x.msg /\ admitted.fact = "pending"
      BY <3>1, <3>2
    <3> HIDE DEF admitted
    <3>4. row'[x.msg].status = "accepted"
      BY <3>1, <3>2, AdmittedRow
    <3>5. mem[x.msg] # "none" /\ Recipient[x.msg] = Home /\ row'[x.msg].attempts > 0
      BY <1>1, <3>1, <3>2, <3>4, AckedIsAttempted DEF RInv, TodoIsTrue, Acked
    <3> SUFFICES ASSUME NEW y \in todo'
                 PROVE  /\ Recipient[y.msg] = Home
                        /\ y.fact # "none" => mem'[y.msg] # "none"
                        /\ y.status = "accepted" => /\ row'[y.msg].status \in Acked \cup {"failed"}
                                                    /\ row'[y.msg].attempts > 0
      BY DEF TodoIsTrue
    <3>6. CASE y = admitted
      BY <3>1, <3>3, <3>4, <3>5, <3>6 DEF Acked
    <3>7. CASE y \in todo
      <4>1. y.msg \in Messages
        BY <1>7, <3>7
      <4> QED
        BY <1>1, <3>1, <3>7, <4>1, StepFacts DEF RInv, TodoIsTrue
    <3> QED
      BY <3>1, <3>6, <3>7
  <2>4. \/ StartPump \/ todo' \subseteq todo
        \/ \E x \in todo : RecordAdmission(x, t)
    BY DEF Reconcile, StartPump, EndReconcile, ReconcileFlushFails, RecordFact,
       KeepCandidate, Keep, RemoveRevoked, DropRevoked, Repaired, Discarded, Done, Stop, Goto
  <2> QED
    BY <2>1, <2>2, <2>3, <2>4
<1> QED
  BY <1>1, <1>4, <1>10, <1>11, <1>12, <1>13, StepFacts DEF RInv

(* The attempt that a claim grants is a delivery that holds its lease. *)
LEMMA GrantedJob ==
    ASSUME RInv, host # NoInstance, NEW t \in Nat, ClaimNextDelivery(Me, t), NEW j \in Granted
    PROVE  /\ j.msg \in Messages
           /\ j.token = row[j.msg].attempts + 1
           /\ GrantedTo(j.msg, Me, t)
           /\ row'[j.msg].status = "queued"
           /\ row'[j.msg].attempts = j.token
           /\ row'[j.msg].lease.token = j.token
           /\ row'[j.msg].lease.instance = Me.instance
           /\ row'[j.msg].lease.fence = Me.fence
<1>1. PICK m \in Messages : /\ j = [msg |-> m, token |-> row'[m].attempts]
                            /\ row'[m].attempts > row[m].attempts
  BY DEF Granted
<1>2. row[m] \in Rows /\ Me \in Claims /\ TypeOK
  BY MeIsClaim DEF RInv, TInv, TypeOK
<1>3. row[m].attempts \in Nat
  BY <1>2 DEF Rows
<1>4. GrantedTo(m, Me, t)
  <2>1. SweptTo(m, row'[m]) => row'[m].attempts = row[m].attempts
    BY <1>2, SettleRow DEF SweptTo, Statuses
  <2> QED
    BY <1>1, <1>2, <1>3, <2>1, ClaimedRows
<1>5. row'[m] = Grant(row[m], Me, t) /\ row[m].status = "queued" /\ row[m].attempts < MaxAttempts
  BY <1>4 DEF GrantedTo
<1> QED
  BY <1>1, <1>2, <1>4, <1>5, GrantRow

(* ... and the only one: it is the first that waits for the recipient. *)
LEMMA OneGranted ==
    ASSUME RInv, host # NoInstance, NEW t \in Nat, ClaimNextDelivery(Me, t),
           NEW j \in Granted, NEW k \in Granted
    PROVE  j = k
<1>1. /\ row[j.msg].seq <= row[k.msg].seq /\ row[k.msg].seq <= row[j.msg].seq
      /\ row[j.msg].status = "queued" /\ j.msg \in Messages /\ k.msg \in Messages
  BY GrantedJob DEF GrantedTo
<1>2. row[j.msg].seq \in Nat /\ row[k.msg].seq \in Nat
  BY <1>1 DEF RInv, TInv, TypeOK, Rows
<1>3. j.msg = k.msg
  BY <1>1, <1>2 DEF RInv, IInv, SchemaHolds
<1> QED
  BY <1>3 DEF Granted

LEMMA DeliverInv ==
    ASSUME RInv, NEW t \in Readings, Deliver(t)
    PROVE  RInv'
<1>1. [RelayNext]_relayVars
  BY DEF RelayNext, Pump
<1>2. UNCHANGED <<host, fence, log, marks>>
  BY DEF Deliver, ClaimNext, GiveUp, Refuse, Admit, Acknowledge, Retry, LoseFence, binding
<1>3. /\ phase \in {"claiming", "leased", "flushing"} /\ todo = {} /\ todo' = {}
      /\ host # NoInstance /\ t \in Nat
  <2>1. phase \in {"claiming", "leased", "flushing"}
    BY DEF Deliver, ClaimNext, GiveUp, Refuse, Admit, Acknowledge, Retry
  <2>2. todo = {} /\ host # NoInstance
    BY <2>1 DEF RInv, PumpPlaces, TInv, HostAtWork
  <2>3. todo' \in {todo, {}}
    BY DEF Deliver, ClaimNext, GiveUp, Refuse, Admit, Acknowledge, Retry, LoseFence, Stop, Goto
  <2> QED
    BY <2>1, <2>2, <2>3, ReadingsAreTimes DEF RInv, TInv
<1>4. TodoIsTrue'
  BY <1>3 DEF TodoIsTrue
<1>5. mem \in [Messages -> Facts] /\ \A j \in job : j.msg \in Messages
  BY DEF RInv, TInv, RelayTypeOK
<1>6. mem' = mem \/ \E j \in job : mem' = Inserted(j.msg)
  BY DEF Deliver, ClaimNext, GiveUp, Refuse, Admit, Acknowledge, Retry
<1>7. \A m \in Messages :
         /\ mem[m] # "none" => mem'[m] = mem[m]
         /\ mem'[m] # "none" => mem[m] # "none" \/ \E j \in job : j.msg = m
  BY <1>5, <1>6 DEF Inserted
<1>8. LoggedIsRemembered'
  BY <1>2, <1>7 DEF RInv, LoggedIsRemembered
<1>9. RememberedIsAttempted'
  BY <1>1, <1>7, RememberedKept DEF RInv, JobHolds
<1>10. MarksAreFacts'
  BY <1>2, <1>7 DEF RInv, MarksAreFacts, TInv, RelayTypeOK
<1>11. PumpPlaces' /\ JobHolds'
  <2>1. CASE job' = {}
    BY <1>3, <2>1 DEF PumpPlaces, JobHolds
  <2>2. ASSUME ClaimNext(t), job' # {}
        PROVE  PumpPlaces' /\ JobHolds'
    <3>1. job = {}
      BY <2>2 DEF ClaimNext, RInv, PumpPlaces
    <3>2. ClaimNextDelivery(Me, t) /\ job' = Granted /\ phase' = "leased" /\ mem' = mem
      BY <2>2, <3>1 DEF ClaimNext, LoseFence, Stop, Goto
    <3>3. PumpPlaces'
      BY <1>3, <3>2, OneGranted DEF PumpPlaces
    <3>4. Me' = Me
      BY <1>2 DEF Me
    <3>5. JobHolds'
      <4> SUFFICES ASSUME NEW j \in Granted
                   PROVE  /\ Recipient[j.msg] = Home
                          /\ row'[j.msg].attempts > 0
                          /\ HoldsLease(Me, j.msg, j.token)'
        BY <3>2 DEF JobHolds
      <4>1. Recipient[j.msg] = Home
        BY <1>3, <3>2, GrantedJob DEF GrantedTo, Me
      <4>2. row'[j.msg].attempts > 0
        <5>1. row[j.msg].attempts \in Nat
          BY <1>3, <3>2, GrantedJob DEF RInv, TInv, TypeOK, Rows
        <5> QED
          BY <1>3, <3>2, <5>1, GrantedJob
      <4>3. HoldsLease(Me, j.msg, j.token)'
        BY <1>3, <3>2, <3>4, GrantedJob DEF HoldsLease
      <4> QED
        BY <4>1, <4>2, <4>3
    <3> QED
      BY <3>3, <3>5
  <2>3. ASSUME NEW k \in job, Admit(k)
        PROVE  PumpPlaces' /\ JobHolds'
    <3>1. job' = job /\ phase' = "flushing" /\ UNCHANGED <<row, todo>>
      BY <2>3 DEF Admit, vars
    <3>2. PumpPlaces'
      BY <1>3, <3>1 DEF RInv, PumpPlaces
    <3>3. JobHolds'
      <4> SUFFICES ASSUME NEW j \in job
                   PROVE  /\ Recipient[j.msg] = Home
                          /\ row[j.msg].attempts > 0
                          /\ \/ HoldsLease(Me, j.msg, j.token)
                             \/ /\ mem'[j.msg] \in {"claimed", "canceled"}
                                /\ row[j.msg].status = StatusFor(mem'[j.msg])
        BY <1>2, <3>1 DEF JobHolds, HoldsLease, Me
      <4>1. mem[j.msg] # "none" => mem'[j.msg] = mem[j.msg]
        BY <1>5, <1>7
      <4> QED
        BY <4>1 DEF RInv, JobHolds
    <3> QED
      BY <3>2, <3>3
  <2>4. ASSUME NEW k \in job, Refuse(k, t) \/ Acknowledge(k, t) \/ Retry(k, t)
        PROVE  job' = {}
    BY <2>4 DEF Refuse, Acknowledge, Retry, LoseFence, Stop, Goto
  <2>5. GiveUp => job' = {}
    BY DEF GiveUp, Stop, Goto
  <2> QED
    BY <2>1, <2>2, <2>3, <2>4, <2>5 DEF Deliver
<1> QED
  BY <1>1, <1>4, <1>8, <1>9, <1>10, <1>11, StepFacts DEF RInv

LEMMA RelayNextInv == RInv /\ [RelayNext]_relayVars => RInv'
<1> SUFFICES ASSUME RInv, [RelayNext]_relayVars PROVE RInv'
  OBVIOUS
<1>1. CASE Pump
  BY <1>1, ReconcileInv, DeliverInv DEF Pump
<1>2. CASE AgentStep
  BY <1>2, AgentInv DEF AgentStep
<1>3. CASE ProcessStep
  BY <1>3, ProcessInv, QuietInv DEF ProcessStep
<1> QED
  BY <1>1, <1>2, <1>3, PersistInv, QuietInv DEF RelayNext

LEMMA RelayInductive == RelaySpec => []RInv
BY RelayInitInv, RelayNextInv, PTL DEF RelaySpec

(* The pump inserts messages into the Inbox in the order in which they were
   sent to the Session: none while an earlier one waits in the mailbox.  It
   rests on StrictFifo and on nothing entering the Session unattempted. *)
THEOREM AdmissionOrder == RelaySpec => []AdmittedInOrder
<1>1. RInv => AdmittedInOrder
  <2> SUFFICES ASSUME RInv, NEW m \in Messages, NEW n \in Messages,
                      Recipient[m] = Recipient[n], row[m].status = "queued",
                      row[m].seq < row[n].seq
               PROVE  mem[n] = "none" /\ log[n] = "none"
    BY DEF AdmittedInOrder
  <2>1. row[n].attempts \in Nat /\ row[m].seq \in Nat /\ row[n].seq \in Nat
    BY DEF RInv, TInv, TypeOK, Rows
  <2>2. ~(row[n].attempts > 0)
    BY <2>1 DEF RInv, IInv, StrictFifo
  <2> QED
    BY <2>2 DEF RInv, RememberedIsAttempted, LoggedIsRemembered
<1> QED
  BY <1>1, RelayInductive, PTL

(* From the claim to the acknowledgement nobody takes the row from under the
   delivery: the lease stands, unless a checkpoint of the agent's own claim
   or discard has settled the row already. *)
THEOREM LeaseKept == RelaySpec => []DeliveryKeepsLease
<1>1. RInv => DeliveryKeepsLease
  BY DEF RInv, JobHolds, DeliveryKeepsLease
<1> QED
  BY <1>1, RelayInductive, PTL

-----------------------------------------------------------------------------
(* Acknowledged messages are in the log                                      *)

(* How the row of a message changes, seen from the provider. *)
LEMMA RowCases ==
    ASSUME RInv, [RelayNext]_relayVars, NEW m \in Messages
    PROVE  \/ row'[m] = row[m]
           \/ Elsewhere
           \/ \E t \in Readings : ClaimNext(t) /\ ClaimNextDelivery(Me, t)
           \/ row'[m].lease = NoLease /\ row'[m].status \in Acked \cup {"failed"}
           \/ row'[m].lease = NoLease /\ row'[m].status = "queued" /\ FlushFails
<1>0. row[m] \in Rows /\ TInv /\ IInv
  BY DEF RInv, TInv, TypeOK
<1> SUFFICES ASSUME row' # row, row'[m] # row[m]
             PROVE  \/ Elsewhere
                    \/ \E t \in Readings : ClaimNext(t) /\ ClaimNextDelivery(Me, t)
                    \/ row'[m].lease = NoLease /\ row'[m].status \in Acked \cup {"failed"}
                    \/ row'[m].lease = NoLease /\ row'[m].status = "queued" /\ FlushFails
  BY <1>0
<1>1. ASSUME NEW x \in todo \cup marks, NEW fact \in Facts, NEW t, Mark(x.msg, fact, t)
      PROVE  row'[m].lease = NoLease /\ row'[m].status \in Acked \cup {"failed"}
  <2>1. x.msg \in Messages /\ host # NoInstance
    BY <1>0 DEF TInv, RelayTypeOK, HostAtWork
  <2>2. m = x.msg /\ row'[m].status = StatusFor(fact) /\ row'[m].lease = NoLease
    BY <1>0, <1>1, <2>1, MarkedRow
  <2> QED
    BY <2>2 DEF StatusFor, Acked
<1>2. CASE Pump
  <2>1. PICK t \in Readings : Reconcile(t) \/ Deliver(t)
    BY <1>2 DEF Pump
  <2>2. CASE ClaimNext(t)
    BY <1>0, <2>2 DEF ClaimNext, vars, LoseFence
  <2>3. ASSUME NEW j \in job, Refuse(j, t) \/ Admit(j) \/ Acknowledge(j, t) \/ Retry(j, t)
        PROVE  \/ row'[m].lease = NoLease /\ row'[m].status \in Acked \cup {"failed"}
               \/ row'[m].lease = NoLease /\ row'[m].status = "queued" /\ FlushFails
    <3>1. j.msg \in Messages /\ host # NoInstance
      BY <1>0 DEF TInv, RelayTypeOK, HostAtWork
    <3>2. CASE Refuse(j, t)
      <4>1. FailDelivery(Me, j.msg, j.token, t)
        BY <3>2 DEF Refuse, LoseFence, vars
      <4>2. row'[j.msg] = Settle(row[j.msg], "failed") /\ (m # j.msg => row'[m] = row[m])
        BY <1>0, <3>1, <4>1 DEF FailDelivery, ChangeRow, TInv, TypeOK
      <4> QED
        BY <1>0, <4>2, SettleRow DEF Statuses
    <3>3. CASE Retry(j, t)
      <4>1. FlushFails /\ RetryDelivery(Me, j.msg, j.token, t)
        BY <3>3 DEF Retry, vars
      <4> QED
        BY <1>0, <3>1, <4>1, GivenBackRow
    <3>4. CASE Acknowledge(j, t)
      <4>1. AcceptDelivery(Me, j.msg, j.token, t)
        BY <3>4 DEF Acknowledge, LoseFence, vars
      <4> QED
        BY <1>0, <3>1, <4>1, AdmittedRow DEF Acked
    <3> QED
      BY <2>3, <3>2, <3>3, <3>4 DEF Admit, vars
  <2>4. ASSUME NEW x \in todo, RecordAdmission(x, t)
        PROVE  row'[m].lease = NoLease /\ row'[m].status \in Acked
    <3>1. x.msg \in Messages /\ host # NoInstance
      BY <1>0 DEF TInv, RelayTypeOK, HostAtWork
    <3>2. RecoverAccepted(Me, x.msg, t)
      BY <2>4 DEF RecordAdmission, vars
    <3> QED
      BY <1>0, <3>1, <3>2, AdmittedRow DEF Acked
  <2>5. ASSUME NEW x \in todo, RecordFact(x, t) \/ DropRevoked(x, t) \/ Discarded(x, t)
        PROVE  \E fact \in Facts : Mark(x.msg, fact, t)
    BY <2>5 DEF RecordFact, DropRevoked, Discarded, MarkRefused, Facts, vars
  <2>6. ~ \E x \in todo : KeepCandidate(x) \/ RemoveRevoked(x) \/ Repaired(x)
    BY DEF KeepCandidate, Keep, RemoveRevoked, Repaired, vars
  <2>7. ~(StartPump \/ EndReconcile \/ ReconcileFlushFails \/ GiveUp)
    BY DEF StartPump, EndReconcile, ReconcileFlushFails, GiveUp, vars
  <2> QED
    BY <1>1, <2>1, <2>2, <2>3, <2>4, <2>5, <2>6, <2>7 DEF Reconcile, Deliver
<1>3. CASE CheckpointStep
  <2>1. PICK x \in marks, t \in Readings : Checkpoint(x, t)
    BY <1>3 DEF CheckpointStep, CheckpointFails, vars
  <2>2. x.fact \in Facts /\ Mark(x.msg, x.fact, t)
    BY <1>0, <2>1 DEF Checkpoint, MarkRefused, vars, TInv, RelayTypeOK, Facts
  <2> QED
    BY <1>1, <2>2
<1>4. ~(AgentStep \/ Persist \/ UNCHANGED relayVars)
  BY DEF AgentStep, Take, Persist, relayVars, vars
<1>5. ~ProcessStep
  BY DEF ProcessStep, Crash, Heartbeat, HeartbeatPresence, Detach, ReleasePresence, Attach,
     TakePresence, vars
<1> QED
  BY <1>2, <1>3, <1>4, <1>5 DEF RelayNext

(* How memory and log change, seen from a message. *)
LEMMA MemoryCases ==
    ASSUME RInv, [RelayNext]_relayVars, NEW m \in Messages
    PROVE  /\ log'[m] = "none" => log[m] = "none"
           /\ mem'[m] # "none" =>
                 \/ mem[m] # "none"
                 \/ job' = job /\ \E j \in job : j.msg = m /\ row'[m] = row[m]
                 \/ row'[m] = row[m] /\ row[m].status \in Acked \cup {"failed"}
<1>0. mem \in [Messages -> Facts] /\ \A x \in todo \cup job : x.msg \in Messages
  BY DEF RInv, TInv, RelayTypeOK
<1>1. log' \in {log, mem}
  BY DEF RelayNext, Elsewhere, Pump, Reconcile, StartPump, EndReconcile, ReconcileFlushFails,
     RecordFact, RecordAdmission, KeepCandidate, Keep, RemoveRevoked, DropRevoked, Repaired,
     Discarded, Deliver, ClaimNext, GiveUp, Refuse, Admit, Acknowledge, Retry, AgentStep, Take,
     Persist, CheckpointStep, CheckpointFails, Checkpoint, ProcessStep, Crash, Heartbeat,
     Detach, Attach, relayVars
<1>2. \/ mem' \in {mem, log}
      \/ \E j \in job : Admit(j)
      \/ \E x \in todo : KeepCandidate(x) /\ x.status = "accepted" /\ mem' = Inserted(x.msg)
      \/ \E n \in Messages, fact \in {"claimed", "canceled"} : mem[n] = "pending" /\ mem' = [mem EXCEPT ![n] = fact]
  BY ZenonT(40), <1>0 DEF RelayNext, Elsewhere, Pump, Reconcile, StartPump, EndReconcile,
     ReconcileFlushFails, RecordFact, RecordAdmission, KeepCandidate, Keep, RemoveRevoked,
     DropRevoked, Repaired, Discarded, Deliver, ClaimNext, GiveUp, Refuse, Acknowledge, Retry,
     AgentStep, Take, Persist, CheckpointStep, CheckpointFails, Checkpoint, ProcessStep, Crash,
     Heartbeat, Detach, Attach, relayVars
<1>3. log'[m] = "none" => log[m] = "none"
  BY <1>1 DEF RInv, LoggedIsRemembered
<1>4. ASSUME mem'[m] # "none", mem[m] = "none"
      PROVE  \/ job' = job /\ \E j \in job : j.msg = m /\ row'[m] = row[m]
             \/ row'[m] = row[m] /\ row[m].status \in Acked \cup {"failed"}
  <2>1. mem' \notin {mem, log}
    BY <1>4 DEF RInv, LoggedIsRemembered
  <2>2. ASSUME NEW j \in job, Admit(j)
        PROVE  job' = job /\ j.msg = m /\ row'[m] = row[m]
    BY <1>0, <1>4, <2>2 DEF Admit, Inserted, vars
  <2>3. ASSUME NEW x \in todo, KeepCandidate(x), x.status = "accepted", mem' = Inserted(x.msg)
        PROVE  row'[m] = row[m] /\ row[m].status \in Acked \cup {"failed"}
    <3>1. x.msg = m
      BY <1>0, <1>4, <2>3 DEF Inserted
    <3>2. row' = row
      BY <2>3 DEF KeepCandidate, Keep, vars
    <3> QED
      BY <2>3, <3>1, <3>2 DEF RInv, TodoIsTrue
  <2>4. ~ \E n \in Messages, fact \in {"claimed", "canceled"} : mem[n] = "pending" /\ mem' = [mem EXCEPT ![n] = fact]
    BY <1>0, <1>4
  <2> QED
    BY <1>2, <2>1, <2>2, <2>3, <2>4
<1> QED
  BY <1>3, <1>4

(* The readings of the clock are those of the moment.  With stale readings a
   provider that has already been seen to have lost the Session could act on
   an older one afterwards, which a process whose own clock goes on does not. *)
ReadingsAreFresh == MaxLag = 0

(* A message that is in the Session, but not in its log yet, is the delivery
   in progress, or its lease belongs to a process that has lost the Session. *)
LeasedIsLogged ==
    \A m \in Messages :
        host # NoInstance /\ Leased(m) /\ mem[m] # "none" /\ log[m] = "none" =>
            (\E j \in job : j.msg = m) \/ ~Current(Me, now)

(* ... so what a serving provider reads of a candidate is in the log. *)
TodoIsLogged ==
    \A x \in todo : x.fact # "none" => log[x.msg] # "none" \/ ~Current(Me, now)

LInv ==
    /\ ReadingsAreFresh
    /\ RInv
    /\ AcknowledgedIsLogged
    /\ LeasedIsLogged
    /\ TodoIsLogged

LEMMA FreshReading ==
    ASSUME ReadingsAreFresh, TypeOK, NEW t \in Readings
    PROVE  t = now
BY DEF ReadingsAreFresh, Readings, TypeOK

LEMMA MarkKeepsPresence ==
    ASSUME NEW m, NEW fact, NEW t, Mark(m, fact, t) \/ MarkRefused(m, fact, t)
    PROVE  presence' = presence
BY DEF Mark, MarkRefused, MarkClaimed, MarkDiscarded, ChangeRow, vars

LEMMA PumpKeepsPresence ==
    ASSUME Pump
    PROVE  presence' = presence
<1>1. PICK t \in Readings : Reconcile(t) \/ Deliver(t)
  BY DEF Pump
<1>2. CASE \E x \in todo : RecordFact(x, t) \/ DropRevoked(x, t) \/ Discarded(x, t)
  BY <1>2, MarkKeepsPresence DEF RecordFact, DropRevoked, Discarded
<1>3. CASE \/ StartPump \/ EndReconcile \/ ReconcileFlushFails
           \/ \E x \in todo : KeepCandidate(x) \/ RemoveRevoked(x) \/ Repaired(x)
                            \/ RecordAdmission(x, t)
  BY <1>3 DEF StartPump, EndReconcile, ReconcileFlushFails, KeepCandidate, Keep, RemoveRevoked,
     Repaired, RecordAdmission, RecoverAccepted, ChangeRow, vars
<1>4. CASE Deliver(t)
  BY <1>4 DEF Deliver, ClaimNext, ClaimNextDelivery, GiveUp, Refuse, Admit, Acknowledge, Retry,
     LoseFence, AcceptDelivery, RetryDelivery, FailDelivery, ChangeRow, vars
<1> QED
  BY <1>1, <1>2, <1>3, <1>4 DEF Reconcile

LEMMA ClockSteps ==
    ASSUME [Next]_vars
    PROVE  now' \in {now, now + 1}
<1>1. CASE Tick \/ UNCHANGED vars
  BY <1>1 DEF Tick, vars
<1>2. CASE PolicyStep \/ \E t \in Readings : PresenceStep(t)
  BY <1>2 DEF PresenceStep, RenewPresence, TakePresence, HeartbeatPresence, ReleasePresence,
     ExpirePresence, PolicyStep, SetSessionPolicy, BlockPair, UnblockPair
<1>3. CASE \E t \in Readings : MessageStep(t)
  BY <1>3 DEF MessageStep, Enqueue, ClaimNextDelivery, DeliveryStep,
     RecoverAccepted, MarkClaimed, MarkDiscarded, AcceptDelivery, RetryDelivery, FailDelivery,
     CompleteControlDelivery, ChangeRow, TerminalizeDue, TerminalizeDueForRecipient
<1> QED
  BY <1>1, <1>2, <1>3 DEF Next

(* A process that has lost the Session does not get it back by itself. *)
LEMMA LostStaysLost ==
    ASSUME ReadingsAreFresh, RInv, [RelayNext]_relayVars,
           host # NoInstance, host' # NoInstance, ~Current(Me, now)
    PROVE  ~Current(Me, now)'
<1>0. /\ TInv /\ TypeOK /\ now \in Nat /\ presence \in [Sessions -> PresenceRows]
      /\ presence[Home] \in PresenceRows /\ presence[Home].fence \in Nat
      /\ presence[Home].expiresAt \in Nat
  BY DEF RInv, TInv, TypeOK, PresenceRows
<1>1. host' = host /\ fence' = fence
  BY ZenonT(40) DEF RelayNext, Elsewhere, Pump, Reconcile, StartPump, EndReconcile, ReconcileFlushFails,
     RecordFact, RecordAdmission, KeepCandidate, Keep, RemoveRevoked, DropRevoked, Repaired,
     Discarded, Deliver, ClaimNext, GiveUp, Refuse, Admit, Acknowledge, Retry, LoseFence,
     AgentStep, Take, Persist, CheckpointStep, CheckpointFails, Checkpoint, ProcessStep, Crash,
     Heartbeat, Detach, Attach, relayVars, binding
<1>2. Me' = Me
  BY <1>1 DEF Me
<1>3. now' \in {now, now + 1}
  BY StepFacts, ClockSteps
<1>4. CASE presence' = presence
  <2>1. Current(Me, now)' = (Live(Home, now)' /\ presence'[Home].instance = Me.instance
                                              /\ presence'[Home].fence = Me.fence)
    BY <1>2 DEF Current, Me
  <2>2. Live(Home, now)' => Live(Home, now)
    BY <1>0, <1>3, <1>4 DEF Live
  <2> QED
    BY <1>4, <2>1, <2>2 DEF Current, Me
<1>5. CASE presence' # presence
  <2>1. Elsewhere \/ \E t \in Readings : Heartbeat(t)
    <3>1. CASE Pump
      BY <1>5, <3>1, PumpKeepsPresence
    <3>2. CASE AgentStep \/ Persist \/ UNCHANGED relayVars
      BY <1>5, <3>2 DEF AgentStep, Take, Persist, vars, relayVars
    <3>3. CASE CheckpointStep
      BY <1>5, <3>3, MarkKeepsPresence DEF CheckpointStep, CheckpointFails, Checkpoint, vars
    <3>4. CASE ProcessStep
      BY <3>4 DEF ProcessStep, Crash, Detach, Attach
    <3> QED
      BY <3>1, <3>2, <3>3, <3>4 DEF RelayNext
  <2>2. ASSUME NEW t \in Readings, Heartbeat(t)
        PROVE  FALSE
    BY <1>0, <1>5, <2>2, FreshReading DEF Heartbeat, HeartbeatPresence, vars
  <2>3. CASE Elsewhere
    <3>1. PICK t \in Readings : ExpirePresence(t)
      BY <1>5, <2>3 DEF Elsewhere, Tick, SetSessionPolicy, Enqueue
    <3>2. now' = now /\ t = now
      BY <1>0, <3>1, FreshReading DEF ExpirePresence
    <3>3. \/ presence'[Home] = presence[Home]
          \/ presence'[Home] = [presence[Home] EXCEPT !.active = FALSE, !.fence = @ + 1]
      BY <3>1 DEF ExpirePresence
    <3>4. \/ presence'[Home] = presence[Home]
          \/ ~presence'[Home].active
      BY <1>0, <3>3 DEF PresenceRows
    <3> QED
      BY <1>2, <3>2, <3>4 DEF Current, Live, Me
  <2> QED
    BY <2>1, <2>2, <2>3
<1> QED
  BY <1>4, <1>5

(* Only the log decides: what is logged stays so, and what acknowledges a
   message while the provider owns the Session has seen it there. *)
LEMMA AckedKept ==
    ASSUME LInv, [RelayNext]_relayVars
    PROVE  AcknowledgedIsLogged'
<1> SUFFICES ASSUME NEW m \in Messages, row'[m].status \in Acked
             PROVE  log'[m] # "none"
  BY DEF AcknowledgedIsLogged, Acked
<1>1. log'[m] = "none" => log[m] = "none"
  BY MemoryCases DEF LInv
<1>2. CASE row[m].status \in Acked
  BY <1>1, <1>2 DEF LInv, AcknowledgedIsLogged, Acked
<1>3. CASE row[m].status \notin Acked
  <2>1. \/ log[m] # "none"
        \/ \E x \in todo, t \in Readings : x.msg = m /\ x.fact # "none" /\ Current(Me, t)
    BY <1>3, AckSteps DEF LInv
  <2>2. ASSUME NEW x \in todo, NEW t \in Readings, x.msg = m, x.fact # "none", Current(Me, t)
        PROVE  log[m] # "none"
    BY <2>2, FreshReading DEF LInv, TodoIsLogged, RInv, TInv
  <2> QED
    BY <1>1, <2>1, <2>2
<1> QED
  BY <1>2, <1>3

(* A delivery ends with its message in the log, with its lease given up, or
   because the Session is lost. *)
LEMMA JobEnds ==
    ASSUME LInv, [RelayNext]_relayVars, NEW j \in job, j \notin job',
           host' # NoInstance, row'[j.msg] = row[j.msg], Leased(j.msg)
    PROVE  log[j.msg] # "none" \/ ~Current(Me, now)
<1>0. /\ j.msg \in Messages /\ TInv /\ TypeOK /\ host # NoInstance /\ phase \in {"leased", "flushing"}
      /\ \A k \in job : k = j
  BY DEF LInv, RInv, TInv, RelayTypeOK, HostAtWork, PumpPlaces
<1>1. PICK t \in Readings : Reconcile(t) \/ Deliver(t)
  <2>1. ~(ProcessStep \/ Elsewhere \/ AgentStep \/ Persist \/ CheckpointStep \/ UNCHANGED relayVars)
    BY <1>0 DEF ProcessStep, Crash, Heartbeat, Detach, Attach, Elsewhere, AgentStep, Take, Persist,
       CheckpointStep, CheckpointFails, Checkpoint, relayVars, pump
  <2> QED
    BY <2>1 DEF RelayNext, Pump
<1>2. ~Reconcile(t)
  BY <1>0 DEF Reconcile, StartPump, EndReconcile, ReconcileFlushFails, RecordFact,
     RecordAdmission, KeepCandidate, Keep, Unsettled, RemoveRevoked, DropRevoked, Repaired,
     Discarded, At
<1>3. t = now
  BY <1>0, FreshReading DEF LInv
<1>4. ~(ClaimNext(t) \/ GiveUp \/ \E k \in job : Admit(k))
  BY <1>0 DEF ClaimNext, GiveUp, Admit
<1>5. Refuse(j, t) \/ Acknowledge(j, t) \/ Retry(j, t)
  BY <1>0, <1>1, <1>2, <1>4 DEF Deliver
<1>6. ~(FailDelivery(Me, j.msg, j.token, t) \/ RetryDelivery(Me, j.msg, j.token, t))
  BY <1>0, GivenBackRow DEF Leased
<1>7. row[j.msg].status = "queued"
  <2>1. RowConsistent(j.msg)
    BY <1>0 DEF LInv, RInv, IInv, SchemaHolds
  <2> QED
    BY <2>1 DEF RowConsistent
<1> QED
  BY <1>3, <1>5, <1>6, <1>7 DEF Refuse, Acknowledge, Retry

LEMMA LeasedKept ==
    ASSUME LInv, [RelayNext]_relayVars
    PROVE  LeasedIsLogged'
<1> SUFFICES ASSUME NEW m \in Messages, host' # NoInstance, Leased(m)', mem'[m] # "none",
                    log'[m] = "none", \A j \in job' : j.msg # m, Current(Me, now)'
             PROVE  FALSE
  BY DEF LeasedIsLogged
<1>0. /\ RInv /\ ReadingsAreFresh /\ TInv /\ IInv /\ row[m] \in Rows
  BY DEF LInv, RInv, TInv, TypeOK
<1>1. host # NoInstance
  <2>1. CASE \E t \in Readings, i \in Instances : Attach(i, t)
    BY <2>1 DEF Attach
  <2>2. CASE host = NoInstance
    <3>1. host' = host
      BY ZenonT(40), <1>0, <2>1, <2>2 DEF RelayNext, Elsewhere, Pump, Reconcile, StartPump, EndReconcile,
         ReconcileFlushFails, RecordFact, RecordAdmission, KeepCandidate, Keep, RemoveRevoked,
         DropRevoked, Repaired, Discarded, Deliver, ClaimNext, GiveUp, Refuse, Admit,
         Acknowledge, Retry, LoseFence, AgentStep, Take, Persist, CheckpointStep,
         CheckpointFails, Checkpoint, ProcessStep, Crash, Heartbeat, Detach, relayVars, binding
    <3> QED
      BY <2>2, <3>1
  <2> QED
    BY <2>2
<1>2. Current(Me, now)
  BY <1>0, <1>1, LostStaysLost
<1>3. log[m] = "none"
  BY <1>0, MemoryCases
<1>4. ~(Leased(m) /\ mem[m] # "none") \/ \E j \in job : j.msg = m
  BY <1>1, <1>2, <1>3 DEF LInv, LeasedIsLogged
<1>5. CASE row'[m] = row[m]
  <2>1. Leased(m)
    BY <1>5 DEF Leased
  <2>2. row[m].status = "queued"
    BY <1>0, <2>1 DEF IInv, SchemaHolds, RowConsistent
  <2>3. ~(job' = job /\ \E j \in job : j.msg = m)
    OBVIOUS
  <2>4. mem[m] # "none"
    BY <1>0, <2>2, <2>3, MemoryCases DEF Acked
  <2>5. PICK j \in job : j.msg = m
    BY <1>4, <2>1, <2>4
  <2> QED
    BY <1>2, <1>3, <1>5, <2>1, <2>5, JobEnds
<1>6. CASE row'[m] # row[m]
  <2>1. Elsewhere \/ \E t \in Readings : ClaimNext(t) /\ ClaimNextDelivery(Me, t)
    BY <1>0, <1>6, RowCases DEF Leased
  <2>2. CASE Elsewhere
    <3>1. UNCHANGED <<mem, job>> /\ row'[m].lease = row[m].lease
      BY <1>0, <2>2, ElsewhereRows DEF Elsewhere, pump
    <3> QED
      BY <1>4, <3>1 DEF Leased
  <2>3. ASSUME NEW t \in Readings, ClaimNext(t), ClaimNextDelivery(Me, t)
        PROVE  FALSE
    <3>1. job = {} /\ mem' = mem /\ t \in Nat /\ Me \in Claims
      BY <1>0, <1>1, <2>3, ReadingsAreTimes, MeIsClaim DEF ClaimNext, RInv, PumpPlaces, TInv
    <3>2. CASE GrantedTo(m, Me, t)
      <4>1. row'[m].attempts = row[m].attempts + 1 /\ row[m].attempts \in Nat
        BY <1>0, <3>1, <3>2, GrantRow DEF GrantedTo, Rows
      <4>2. [msg |-> m, token |-> row'[m].attempts] \in Granted
        BY <4>1 DEF Granted
      <4>3. QueuedFor(Home) # {} /\ Current(Me, t)
        BY <2>3 DEF ClaimNextDelivery, Me
      <4>4. job' = Granted
        BY <2>3, <4>3 DEF ClaimNext
      <4> QED
        BY <4>2, <4>4
    <3>3. CASE SweptTo(m, row'[m])
      <4>1. row'[m] = row[m] \/ row'[m].lease = NoLease
        BY <1>0, <3>3, SettleRow DEF SweptTo, Statuses
      <4> QED
        BY <1>6, <4>1 DEF Leased
    <3> QED
      BY <1>0, <2>3, <3>1, <3>2, <3>3, ClaimedRows DEF TInv
  <2> QED
    BY <2>1, <2>2, <2>3
<1> QED
  BY <1>5, <1>6

LEMMA TodoLoggedKept ==
    ASSUME LInv, [RelayNext]_relayVars
    PROVE  TodoIsLogged'
<1> SUFFICES ASSUME NEW x \in todo', x.fact # "none", log'[x.msg] = "none", Current(Me, now)'
             PROVE  FALSE
  BY DEF TodoIsLogged
<1>0. RInv /\ ReadingsAreFresh /\ TInv /\ x.msg \in Messages /\ TInv'
  BY StepFacts DEF LInv, TInv, RelayTypeOK
<1>1. host' # NoInstance
  BY <1>0 DEF TInv, HostAtWork
<1>2. log[x.msg] = "none"
  BY <1>0, MemoryCases
<1>3. ASSUME NEW y \in todo, y.msg = x.msg, y.fact # "none"
      PROVE  FALSE
  <2>1. ~Current(Me, now)
    BY <1>2, <1>3 DEF LInv, TodoIsLogged
  <2>2. host # NoInstance
    BY <1>0 DEF TInv, HostAtWork
  <2> QED
    BY <1>0, <1>1, <2>1, <2>2, LostStaysLost
<1>4. \/ todo' \subseteq todo
      \/ StartPump
      \/ \E y \in todo : /\ y.fact = "pending"
                         /\ todo' = (todo \ {y}) \cup {[y EXCEPT !.status = "accepted"]}
  BY DEF RelayNext, Elsewhere, Pump, Reconcile, StartPump, EndReconcile, ReconcileFlushFails,
     RecordFact, RecordAdmission, KeepCandidate, Keep, RemoveRevoked, DropRevoked, Repaired,
     Discarded, Deliver, ClaimNext, GiveUp, Refuse, Admit, Acknowledge, Retry, LoseFence,
     AgentStep, Take, Persist, CheckpointStep, CheckpointFails, Checkpoint, ProcessStep, Crash,
     Heartbeat, Detach, Attach, relayVars, pump, Done, Stop, Goto
<1>5. CASE StartPump
  <2>1. /\ x \in Candidates /\ phase = "idle" /\ host # NoInstance
        /\ UNCHANGED <<vars, host, fence>>
    BY <1>5 DEF StartPump, Serving, Goto, binding
  <2>2. /\ x.fact = mem[x.msg]
        /\ row[x.msg].status = "accepted" \/ Leased(x.msg)
    BY <1>0, <2>1, CandidatesAreTrue
  <2>3. job = {}
    BY <1>0, <2>1 DEF RInv, PumpPlaces
  <2>4. Current(Me, now)
    BY <2>1 DEF Current, Live, Me, vars
  <2> QED
    BY <1>0, <1>2, <2>1, <2>2, <2>3, <2>4 DEF LInv, AcknowledgedIsLogged, LeasedIsLogged
<1>6. ASSUME NEW y \in todo, y.fact = "pending",
             todo' = (todo \ {y}) \cup {[y EXCEPT !.status = "accepted"]}
      PROVE  FALSE
  <2>1. y \in [msg : Messages, status : {"queued", "accepted"}, fact : Facts]
    BY <1>0 DEF TInv, RelayTypeOK
  <2>2. [y EXCEPT !.status = "accepted"].msg = y.msg
    BY <2>1
  <2> QED
    BY <1>3, <1>6, <2>2
<1> QED
  BY <1>3, <1>4, <1>5, <1>6

LEMMA LoggedInductive == MaxLag = 0 /\ RelaySpec => []LInv
<1>1. MaxLag = 0 /\ RelayInit => LInv
  <2> SUFFICES ASSUME MaxLag = 0, RelayInit PROVE LInv
    OBVIOUS
  <2>1. \A m \in Messages : row[m].status = "absent" /\ mem[m] = "none"
    BY DEF RelayInit, Init, AbsentRow
  <2>2. todo = {}
    BY DEF RelayInit
  <2> QED
    BY <2>1, <2>2, RelayInitInv DEF LInv, ReadingsAreFresh, AcknowledgedIsLogged, LeasedIsLogged,
       TodoIsLogged
<1>2. LInv /\ [RelayNext]_relayVars => LInv'
  BY RelayNextInv, AckedKept, LeasedKept, TodoLoggedKept DEF LInv, ReadingsAreFresh
<1> QED
  BY <1>1, <1>2, PTL DEF RelaySpec

(* Whatever crashes, fails or is taken over between the insertion into the
   Inbox and its checkpoint in the mailbox, a message the mailbox calls
   accepted or claimed is in the Session log on disk: the senders' receipts
   are true.  It holds for readings of the clock that are not stale. *)
THEOREM AckedIsLogged == MaxLag = 0 /\ RelaySpec => []AcknowledgedIsLogged
<1>1. LInv => AcknowledgedIsLogged
  BY DEF LInv
<1> QED
  BY <1>1, LoggedInductive, PTL

-----------------------------------------------------------------------------
(* Expired messages were never in the Session                                *)

TodoIsAttempted == \A x \in todo : row[x.msg].attempts > 0

(* Minimal among the candidates, whatever the pump does with them. *)
First(x) == x \in todo /\ \A y \in todo : row[x.msg].seq <= row[y.msg].seq

(* A repair is awaited for a message that was acknowledged or given up. *)
RepairIsSettled ==
    phase = "repairing" => \A x \in todo : First(x) => row[x.msg].status # "queued"

(* A lease is not given back once its message is in the Session ... *)
RememberedIsLeased ==
    \A m \in Messages : row[m].status = "queued" /\ mem[m] # "none" => Leased(m)

(* ... the pump that might let it expire has it on its list, or delivers it ... *)
PumpSees ==
    \A m \in Messages :
        phase # "idle" /\ row[m].status = "queued" /\ mem[m] # "none" =>
            \/ \E j \in job : j.msg = m
            \/ \E x \in todo : x.msg = m /\ x.status = "queued" /\ x.fact # "none"

(* ... and has settled the list when it does. *)
ExpiredIsUnknown ==
    \A m \in Messages : row[m].status = "expired" => mem[m] = "none"

EInv ==
    /\ RInv
    /\ TodoIsAttempted
    /\ RepairIsSettled
    /\ failures = 0 => RememberedIsLeased /\ PumpSees /\ ExpiredIsUnknown

LEMMA AttemptedRow ==
    ASSUME RInv, [RelayNext]_relayVars, NEW m \in Messages, row[m].attempts > 0
    PROVE  /\ row'[m].seq = row[m].seq
           /\ row'[m].attempts > 0
           /\ row'[m].status = "queued" => row[m].status = "queued"
<1>1. IInv /\ TypeOK /\ [Next]_vars /\ RowConsistent(m)
  BY StepFacts DEF IInv, SchemaHolds
<1>2. CASE UNCHANGED vars
  BY <1>2 DEF vars
<1>3. CASE Next
  <2>1. RowStep(m)
    BY <1>1, <1>3, RowSteps
  <2>2. row[m].status # "absent"
    BY <1>1 DEF RowConsistent, AbsentRow
  <2>3. ~Entered(m)
    BY <2>2 DEF Entered
  <2> QED
    BY <1>1, <2>1, <2>3, RowStepFields, StepFacts
<1> QED
  BY <1>1, <1>2, <1>3

LEMMA CandidatesAttempted ==
    ASSUME RInv, NEW x \in Candidates
    PROVE  x.msg \in Messages /\ row[x.msg].attempts > 0
<1>1. x.msg \in Messages /\ TypeOK /\ RowConsistent(x.msg)
  BY CandidatesAreTrue DEF RInv, TInv, IInv, SchemaHolds
<1> QED
  BY <1>1, CandidatesAreTrue, LeasedAttempts

(* How the list of the reconciliation changes. *)
LEMMA TodoSteps ==
    ASSUME RInv, [RelayNext]_relayVars
    PROVE  \/ todo' \subseteq todo
           \/ StartPump
           \/ \E x \in todo : todo' = (todo \ {x}) \cup {[x EXCEPT !.status = "accepted"]}
BY DEF RelayNext, Elsewhere, Pump, Reconcile, StartPump, EndReconcile, ReconcileFlushFails,
   RecordFact, RecordAdmission, KeepCandidate, Keep, RemoveRevoked, DropRevoked, Repaired,
   Discarded, Deliver, ClaimNext, GiveUp, Refuse, Admit, Acknowledge, Retry, LoseFence,
   AgentStep, Take, Persist, CheckpointStep, CheckpointFails, Checkpoint, ProcessStep, Crash,
   Heartbeat, Detach, Attach, relayVars, pump, Done, Stop, Goto

LEMMA TodoAttemptedKept ==
    ASSUME EInv, [RelayNext]_relayVars
    PROVE  TodoIsAttempted'
<1> SUFFICES ASSUME NEW x \in todo' PROVE row'[x.msg].attempts > 0
  BY DEF TodoIsAttempted
<1>0. RInv /\ \A y \in todo : y.msg \in Messages /\ row[y.msg].attempts > 0
  BY DEF EInv, TodoIsAttempted, RInv, TInv, RelayTypeOK
<1>1. CASE StartPump
  BY <1>0, <1>1, CandidatesAttempted DEF StartPump, Goto, vars
<1>2. CASE \E y \in todo : y.msg = x.msg
  BY <1>0, <1>2, AttemptedRow
<1>3. ASSUME NEW y \in todo, todo' = (todo \ {y}) \cup {[y EXCEPT !.status = "accepted"]}
      PROVE  \E z \in todo : z.msg = x.msg
  <2>1. y \in [msg : Messages, status : {"queued", "accepted"}, fact : Facts]
    BY <1>0 DEF RInv, TInv, RelayTypeOK
  <2>2. [y EXCEPT !.status = "accepted"].msg = y.msg
    BY <2>1
  <2> QED
    BY <1>3, <2>2
<1> QED
  BY <1>0, <1>1, <1>2, <1>3, TodoSteps

LEMMA RepairKept ==
    ASSUME EInv, [RelayNext]_relayVars
    PROVE  RepairIsSettled'
<1> SUFFICES ASSUME phase' = "repairing", NEW x \in todo', First(x)'
             PROVE  row'[x.msg].status # "queued"
  BY DEF RepairIsSettled
<1>0. RInv /\ \A y \in todo : y.msg \in Messages /\ row[y.msg].attempts > 0
  BY DEF EInv, TodoIsAttempted, RInv, TInv, RelayTypeOK
<1>1. CASE todo' = todo
  <2>1. First(x)
    BY <1>0, <1>1, AttemptedRow DEF First
  <2>2. row'[x.msg].status = "queued" => row[x.msg].status = "queued"
    BY <1>0, <1>1, AttemptedRow
  <2>3. CASE phase = "repairing"
    BY <1>1, <2>1, <2>2, <2>3 DEF EInv, RepairIsSettled
  <2>4. CASE \E y \in todo : KeepCandidate(y) /\ y.status = "accepted"
    <3>1. PICK y \in todo : KeepCandidate(y) /\ y.status = "accepted"
      BY <2>4
    <3>2. First(y) /\ row[y.msg].status # "queued" /\ row[y.msg].status # "absent"
      BY <1>0, <3>1 DEF KeepCandidate, Keep, Unsettled, At, First, RInv, TodoIsTrue, Acked
    <3>3. row[x.msg].seq \in Nat /\ row[y.msg].seq \in Nat
      BY <1>0, <1>1 DEF RInv, TInv, TypeOK, Rows
    <3>4. row[x.msg].seq = row[y.msg].seq
      BY <1>1, <2>1, <3>2, <3>3 DEF First
    <3>5. x.msg = y.msg
      BY <1>0, <1>1, <3>2, <3>4 DEF RInv, IInv, SchemaHolds
    <3> QED
      BY <2>2, <3>2, <3>5
  <2> QED
    BY <1>0, <1>1, <2>3, <2>4 DEF RelayNext, Elsewhere, Pump, Reconcile, StartPump,
       EndReconcile, ReconcileFlushFails, RecordFact, RecordAdmission, KeepCandidate, Keep,
       RemoveRevoked, DropRevoked, Repaired, Discarded, Deliver, ClaimNext, GiveUp, Refuse,
       Admit, Acknowledge, Retry, LoseFence, AgentStep, Take, Persist, CheckpointStep,
       CheckpointFails, Checkpoint, ProcessStep, Crash, Heartbeat, Detach, Attach, relayVars,
       pump, Done, Stop, Goto
<1>2. CASE todo' # todo
  BY <1>2 DEF RelayNext, Elsewhere, Pump, Reconcile, StartPump, EndReconcile,
     ReconcileFlushFails, RecordFact, RecordAdmission, KeepCandidate, Keep, RemoveRevoked,
     DropRevoked, Repaired, Discarded, Deliver, ClaimNext, GiveUp, Refuse, Admit, Acknowledge,
     Retry, LoseFence, AgentStep, Take, Persist, CheckpointStep, CheckpointFails, Checkpoint,
     ProcessStep, Crash, Heartbeat, Detach, Attach, relayVars, pump, Done, Stop, Goto
<1> QED
  BY <1>1, <1>2

LEMMA FailuresGrow ==
    ASSUME RInv, [RelayNext]_relayVars, failures' = 0
    PROVE  failures = 0 /\ ~FlushFails
<1>1. failures \in Nat
  BY DEF RInv, TInv, RelayTypeOK
<1>2. failures' = failures \/ FlushFails
  BY DEF RelayNext, Elsewhere, Pump, Reconcile, StartPump, EndReconcile, ReconcileFlushFails,
     RecordFact, RecordAdmission, KeepCandidate, Keep, RemoveRevoked, DropRevoked, Repaired,
     Discarded, Deliver, ClaimNext, GiveUp, Refuse, Admit, Acknowledge, Retry, AgentStep, Take,
     Persist, CheckpointStep, CheckpointFails, Checkpoint, ProcessStep, Crash, Heartbeat,
     Detach, Attach, relayVars
<1>3. FlushFails => failures' = failures + 1
  BY DEF FlushFails
<1> QED
  BY <1>1, <1>2, <1>3

(* A message that waits in the mailbox after a step without a failed flush,
   and is in the Session, waited before and holds the lease it held. *)
LEMMA WaitingStep ==
    ASSUME EInv, [RelayNext]_relayVars, failures' = 0, NEW m \in Messages,
           row'[m].status = "queued", mem'[m] # "none"
    PROVE  /\ failures = 0
           /\ row[m].status = "queued"
           /\ Leased(m)' /\ Leased(m)
           /\ \/ mem[m] # "none"
              \/ job' = job /\ \E j \in job : j.msg = m
<1>0. RInv /\ TInv /\ IInv /\ TypeOK /\ row[m] \in Rows /\ RowConsistent(m) /\ RowConsistent(m)'
  BY StepFacts DEF EInv, TInv, IInv, TypeOK, SchemaHolds
<1>1. failures = 0 /\ ~FlushFails
  BY FailuresGrow DEF EInv
<1>2. \/ mem[m] # "none"
      \/ job' = job /\ \E j \in job : j.msg = m /\ row'[m] = row[m]
  BY <1>0, MemoryCases DEF Acked
<1>3. row[m].attempts > 0
  BY <1>0, <1>2 DEF RInv, RememberedIsAttempted, JobHolds
<1>4. row[m].status = "queued"
  BY <1>0, <1>3, AttemptedRow
<1>5. Leased(m)
  <2>1. CASE mem[m] # "none"
    BY <1>1, <1>4, <2>1 DEF EInv, RememberedIsLeased
  <2>2. ASSUME NEW j \in job, j.msg = m, mem[m] = "none"
        PROVE  Leased(m)
    <3>1. HoldsLease(Me, m, j.token) /\ j.token \in 1..MaxAttempts
      BY <1>0, <2>2 DEF RInv, JobHolds, TInv, RelayTypeOK
    <3> QED
      BY <3>1 DEF HoldsLease, Leased, NoLease
  <2> QED
    BY <1>2, <2>1, <2>2
<1>6. Leased(m)'
  <2>1. \/ row'[m] = row[m] \/ Elsewhere
        \/ \E t \in Readings : ClaimNext(t) /\ ClaimNextDelivery(Me, t)
    BY <1>0, <1>1, RowCases DEF Acked
  <2>2. CASE row'[m] = row[m]
    BY <1>5, <2>2 DEF Leased
  <2>3. CASE Elsewhere
    BY <1>0, <1>5, <2>3, ElsewhereRows DEF Leased
  <2>4. ASSUME NEW t \in Readings, ClaimNext(t), ClaimNextDelivery(Me, t)
        PROVE  Leased(m)'
    <3>1. t \in Nat /\ Me \in Claims
      BY <1>0, <2>4, ReadingsAreTimes, MeIsClaim DEF ClaimNext, TInv, HostAtWork
    <3>2. CASE GrantedTo(m, Me, t)
      BY <1>0, <3>1, <3>2, GrantRow DEF GrantedTo, Leased
    <3>3. CASE SweptTo(m, row'[m])
      BY <1>5, <3>3 DEF SweptTo, Leased
    <3> QED
      BY <1>0, <2>4, <3>1, <3>2, <3>3, ClaimedRows
  <2> QED
    BY <2>1, <2>2, <2>3, <2>4
<1> QED
  BY <1>1, <1>2, <1>4, <1>5, <1>6

(* A delivery ends with its row settled, or the pump ends with it. *)
LEMMA JobSettles ==
    ASSUME RInv, [RelayNext]_relayVars, ~FlushFails, NEW j \in job, j \notin job',
           phase' # "idle"
    PROVE  row'[j.msg].status # "queued"
<1>0. /\ j.msg \in Messages /\ TInv /\ host # NoInstance /\ phase \in {"leased", "flushing"}
      /\ \A k \in job : k = j
  BY DEF RInv, TInv, RelayTypeOK, HostAtWork, PumpPlaces
<1>1. PICK t \in Readings : Reconcile(t) \/ Deliver(t)
  <2>1. ~(ProcessStep \/ Elsewhere \/ AgentStep \/ Persist \/ CheckpointStep \/ UNCHANGED relayVars)
    BY <1>0 DEF ProcessStep, Crash, Heartbeat, Detach, Attach, Elsewhere, AgentStep, Take, Persist,
       CheckpointStep, CheckpointFails, Checkpoint, relayVars, pump, Stop, Goto
  <2> QED
    BY <2>1 DEF RelayNext, Pump
<1>2. ~Reconcile(t)
  BY <1>0 DEF Reconcile, StartPump, EndReconcile, ReconcileFlushFails, RecordFact,
     RecordAdmission, KeepCandidate, Keep, Unsettled, RemoveRevoked, DropRevoked, Repaired,
     Discarded, At
<1>3. ~(ClaimNext(t) \/ GiveUp \/ \E k \in job : Admit(k) \/ Retry(k, t))
  BY <1>0 DEF ClaimNext, GiveUp, Admit, Retry
<1>4. Refuse(j, t) \/ Acknowledge(j, t)
  BY <1>0, <1>1, <1>2, <1>3 DEF Deliver
<1>5. CASE Refuse(j, t)
  <2>1. FailDelivery(Me, j.msg, j.token, t)
    BY <1>5 DEF Refuse, LoseFence, Stop, Goto
  <2>2. row'[j.msg] = Settle(row[j.msg], "failed") /\ row[j.msg] \in Rows
    BY <1>0, <2>1 DEF FailDelivery, ChangeRow, TInv, TypeOK
  <2> QED
    BY <2>2, SettleRow DEF Statuses
<1>6. CASE Acknowledge(j, t)
  <2>1. \/ AcceptDelivery(Me, j.msg, j.token, t)
        \/ row' = row /\ row[j.msg].status # "queued"
    BY <1>6 DEF Acknowledge, LoseFence, Stop, Goto, vars
  <2> QED
    BY <1>0, <2>1, AdmittedRow
<1> QED
  BY <1>4, <1>5, <1>6

(* A candidate whose message is in the Session leaves the list with its row
   settled, or the pump ends with it. *)
LEMMA TodoSettles ==
    ASSUME EInv, [RelayNext]_relayVars, NEW x \in todo, x \notin todo', phase' # "idle",
           x.status = "queued", x.fact # "none"
    PROVE  row'[x.msg].status # "queued"
<1>0. /\ x.msg \in Messages /\ RInv /\ TInv /\ host # NoInstance
      /\ phase \in {"reconciling", "repairing", "discarding"}
      /\ x.fact \in {"pending", "claimed", "canceled"}
  BY DEF EInv, RInv, TInv, RelayTypeOK, HostAtWork, PumpPlaces, Facts
<1>1. PICK t \in Readings : Reconcile(t) \/ Deliver(t)
  <2>1. ~(ProcessStep \/ Elsewhere \/ AgentStep \/ Persist \/ CheckpointStep \/ UNCHANGED relayVars)
    BY <1>0 DEF ProcessStep, Crash, Heartbeat, Detach, Attach, Elsewhere, AgentStep, Take, Persist,
       CheckpointStep, CheckpointFails, Checkpoint, relayVars, pump, Stop, Goto
  <2> QED
    BY <2>1 DEF RelayNext, Pump
<1>2. ~Deliver(t)
  BY <1>0 DEF Deliver, ClaimNext, GiveUp, Refuse, Admit, Acknowledge, Retry
<1>3. ~(StartPump \/ EndReconcile \/ ReconcileFlushFails)
  BY <1>0 DEF StartPump, EndReconcile, ReconcileFlushFails, Stop, Goto
<1>4. PICK y \in todo :
          \/ RecordFact(y, t) \/ RecordAdmission(y, t)
          \/ KeepCandidate(y) \/ RemoveRevoked(y) \/ DropRevoked(y, t)
          \/ Repaired(y) \/ Discarded(y, t)
  BY <1>1, <1>2, <1>3 DEF Reconcile
<1>5. y = x /\ ~RemoveRevoked(y)
  BY <1>4 DEF RecordFact, RecordAdmission, KeepCandidate, Keep, RemoveRevoked, DropRevoked,
     Repaired, Discarded, Done, Stop, Goto
<1>6. ~(KeepCandidate(x) \/ DropRevoked(x, t))
  BY <1>0 DEF KeepCandidate, Keep, DropRevoked, Unsettled
<1>7. CASE Repaired(x)
  <2>1. phase = "repairing" /\ First(x) /\ row' = row
    BY <1>7 DEF Repaired, At, First, vars
  <2> QED
    BY <2>1 DEF EInv, RepairIsSettled
<1>8. CASE RecordAdmission(x, t)
  <2>1. RecoverAccepted(Me, x.msg, t)
    BY <1>8 DEF RecordAdmission, Stop, Goto
  <2> QED
    BY <1>0, <2>1, AdmittedRow
<1>9. CASE RecordFact(x, t) \/ Discarded(x, t)
  <2>1. PICK fact \in Facts : Mark(x.msg, fact, t)
    BY <1>9 DEF RecordFact, Discarded, Stop, Goto, Facts
  <2>2. row'[x.msg].status = StatusFor(fact)
    BY <1>0, <2>1, MarkedRow
  <2> QED
    BY <2>2 DEF StatusFor
<1> QED
  BY <1>4, <1>5, <1>6, <1>7, <1>8, <1>9

LEMMA PumpSeesKept ==
    ASSUME EInv, [RelayNext]_relayVars, failures' = 0
    PROVE  PumpSees'
<1> SUFFICES ASSUME NEW m \in Messages, phase' # "idle", row'[m].status = "queued",
                    mem'[m] # "none", \A j \in job' : j.msg # m,
                    \A x \in todo' : ~(x.msg = m /\ x.status = "queued" /\ x.fact # "none")
             PROVE  FALSE
  BY DEF PumpSees
<1>0. /\ RInv /\ failures = 0 /\ row[m].status = "queued" /\ Leased(m)
      /\ mem[m] # "none"
  BY WaitingStep DEF EInv
<1>1. ~FlushFails
  BY <1>0 DEF FlushFails
<1>2. CASE phase = "idle"
  <2>1. StartPump
    BY <1>2 DEF RelayNext, Elsewhere, Pump, Reconcile, StartPump, EndReconcile,
       ReconcileFlushFails, RecordFact, RecordAdmission, KeepCandidate, Keep, Unsettled, At,
       RemoveRevoked, DropRevoked, Repaired, Discarded, Deliver, ClaimNext, GiveUp, Refuse,
       Admit, Acknowledge, Retry, AgentStep, Take, Persist, CheckpointStep, CheckpointFails,
       Checkpoint, ProcessStep, Crash, Heartbeat, Detach, Attach, relayVars, pump, Stop, Goto
  <2>2. todo' = Candidates
    BY <2>1 DEF StartPump, Goto
  <2>3. Recipient[m] = Home
    BY <1>0 DEF RInv, RememberedIsAttempted
  <2>4. [msg |-> m, status |-> "queued", fact |-> mem[m]] \in Candidates
    BY <1>0, <2>3 DEF Candidates, Snapshot
  <2> QED
    BY <1>0, <2>2, <2>4
<1>3. CASE phase # "idle"
  <2>1. \/ \E j \in job : j.msg = m
        \/ \E x \in todo : x.msg = m /\ x.status = "queued" /\ x.fact # "none"
    BY <1>0, <1>3 DEF EInv, PumpSees
  <2> QED
    BY <1>0, <1>1, <2>1, JobSettles, TodoSettles
<1> QED
  BY <1>2, <1>3

LEMMA ExpiredKept ==
    ASSUME EInv, [RelayNext]_relayVars, failures = 0
    PROVE  ExpiredIsUnknown'
<1> SUFFICES ASSUME NEW m \in Messages, row'[m].status = "expired", mem'[m] # "none"
             PROVE  FALSE
  BY DEF ExpiredIsUnknown
<1>0. RInv /\ TInv /\ IInv /\ TypeOK /\ row[m] \in Rows
  BY DEF EInv, RInv, TInv, IInv, TypeOK
<1>1. CASE row'[m] = row[m]
  <2>1. mem[m] = "none"
    BY <1>1 DEF EInv, ExpiredIsUnknown
  <2>2. PICK j \in job : j.msg = m
    BY <1>0, <1>1, <2>1, MemoryCases DEF Acked
  <2> QED
    BY <1>0, <1>1, <2>1, <2>2 DEF RInv, JobHolds, HoldsLease
<1>2. CASE row'[m] # row[m]
  <2>1. PICK t \in Readings : ClaimNext(t) /\ ClaimNextDelivery(Me, t)
    BY <1>0, <1>2, RowCases, ElsewhereRows DEF Acked
  <2>2. t \in Nat /\ Me \in Claims /\ phase = "claiming" /\ job = {} /\ todo = {} /\ mem' = mem
    BY <1>0, <2>1, ReadingsAreTimes, MeIsClaim DEF ClaimNext, TInv, HostAtWork, RInv, PumpPlaces
  <2>3. row[m].status = "queued"
    <3>1. SweptTo(m, row'[m]) \/ GrantedTo(m, Me, t)
      BY <1>0, <2>1, <2>2, ClaimedRows
    <3> QED
      BY <1>2, <3>1 DEF SweptTo, GrantedTo
  <2> QED
    BY <2>2, <2>3 DEF EInv, PumpSees
<1> QED
  BY <1>1, <1>2

LEMMA ExpiryInductive == RelaySpec => []EInv
<1>1. RelayInit => EInv
  <2> SUFFICES ASSUME RelayInit PROVE EInv
    OBVIOUS
  <2>1. \A m \in Messages : row[m].status = "absent" /\ mem[m] = "none"
    BY DEF RelayInit, Init, AbsentRow
  <2>2. todo = {} /\ phase = "idle"
    BY DEF RelayInit
  <2> QED
    BY <2>1, <2>2, RelayInitInv DEF EInv, TodoIsAttempted, RepairIsSettled,
       RememberedIsLeased, PumpSees, ExpiredIsUnknown
<1>2. EInv /\ [RelayNext]_relayVars => EInv'
  <2> SUFFICES ASSUME EInv, [RelayNext]_relayVars PROVE EInv'
    OBVIOUS
  <2>1. RInv' /\ TodoIsAttempted' /\ RepairIsSettled'
    BY RelayNextInv, TodoAttemptedKept, RepairKept DEF EInv
  <2>2. ASSUME failures' = 0
        PROVE  RememberedIsLeased' /\ PumpSees' /\ ExpiredIsUnknown'
    <3>1. RememberedIsLeased'
      BY <2>2, WaitingStep DEF RememberedIsLeased
    <3>2. failures = 0
      BY <2>2, FailuresGrow DEF EInv
    <3> QED
      BY <2>2, <3>1, <3>2, PumpSeesKept, ExpiredKept
  <2> QED
    BY <2>1, <2>2 DEF EInv
<1> QED
  BY <1>1, <1>2, PTL DEF RelaySpec

(* README: expired says that the message was not accepted within its TTL.  As
   long as no flush of the Session log fails, crashes and takeovers never make
   the mailbox call a message expired that is in the Session log: the lease
   protects it until a reconciliation has recorded its admission. *)
THEOREM ExpiryTold == RelaySpec => []ExpiryNeedsFailedFlush
<1>1. EInv => ExpiryNeedsFailedFlush
  BY DEF EInv, ExpiryNeedsFailedFlush, ExpiredWasNeverAdmitted, ExpiredIsUnknown, RInv,
     LoggedIsRemembered
<1> QED
  BY <1>1, ExpiryInductive, PTL

=============================================================================
