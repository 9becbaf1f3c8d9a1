------------------------------- MODULE MCLock -------------------------------
(* Instances of RuntimeLock for TLC: three calls of two processes, one of  *)
(* which may die; and three processes on one machine.                      *)
EXTENDS RuntimeLock, TLC

CONSTANTS a, b, d, p1, p2, p3, h1, h2

MCCalls == {a, b, d}
MCHosts == {h1, h2}

(* p1 calls twice and may die; p2 is its only possible successor. *)
MCPair == {p1, p2}
MCMortal == {p1}
MCProcessPair == a :> p1 @@ b :> p2 @@ d :> p1

(* A dead owner has two possible successors on its machine. *)
MCProcesses == {p1, p2, p3}
MCProcess == a :> p1 @@ b :> p2 @@ d :> p3

MCOneHost == [p \in Processes |-> h1]

=============================================================================
