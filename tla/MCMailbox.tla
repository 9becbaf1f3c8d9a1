----------------------------- MODULE MCMailbox -----------------------------
(* Two providers compete for one recipient of a text and a control.          *)
EXTENDS Mailbox, TLC

CONSTANTS r, i1, i2, p, q, m, k

MCSessions   == {r}
MCInstances  == {i1, i2}
MCPrincipals == {p, q}
MCMessages   == {m, k}
MCTexts      == {m}
MCRecipient  == [x \in MCMessages |-> r]
MCSentBy     == [x \in MCMessages |-> p]
MCSentTo     == [x \in MCMessages |-> q]

Symmetry == Permutations(MCInstances)

(* Nothing is sent to p or by q: their other two switches decide nothing; of
   the three reasons to deny the envelope, one at a time is enough. *)
RelevantPolicy ==
    /\ policy[p].receive /\ policy[q].send
    /\ Cardinality({d \in 1..3 : \/ d = 1 /\ ~policy[p].send
                                 \/ d = 2 /\ ~policy[q].receive
                                 \/ d = 3 /\ blocks # {}}) <= 1

=============================================================================
