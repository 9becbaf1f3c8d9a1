------------------------------ MODULE MCRelay ------------------------------
(* One Session, served by at most two processes one after the other.         *)
EXTENDS RelayDelivery, TLC

CONSTANTS r, i1, i2, p, q, m, n

MCSessions   == {r}
MCInstances  == {i1, i2}
MCPrincipals == {p, q}
MCMessages   == {m}
MCMessages2  == {m, n}
MCRecipient  == [x \in Messages |-> r]
MCSentBy     == [x \in Messages |-> p]
MCSentTo     == [x \in Messages |-> q]
MCRevocable  == {q}
MCNobody     == {}

Symmetry == Permutations(MCInstances)

=============================================================================
