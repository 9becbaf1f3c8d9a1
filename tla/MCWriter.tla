------------------------------ MODULE MCWriter ------------------------------
(* Three processes of one machine; the third may get the pid of the first.   *)
EXTENDS SessionWriter, TLC

CONSTANTS p1, p2, p3, h, a1, a2, k1, k2

MCProcesses == {p1, p2, p3}
MCHosts     == {h}
MCHost      == [p \in MCProcesses |-> h]
MCPid       == (p1 :> 1) @@ (p2 :> 2) @@ (p3 :> 1)
MCStart     == (p1 :> 1) @@ (p2 :> 1) @@ (p3 :> 2)
MCAgents    == {a1, a2}
MCTickets   == {k1, k2}
MCOneAgent  == {a1}
MCOneTicket == {k1}

Symmetry == Permutations(MCAgents) \cup Permutations(MCTickets)

=============================================================================
