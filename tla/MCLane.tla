------------------------------ MODULE MCLane ------------------------------
(* Two calls at a time and two candidate ids for TLC.                      *)
EXTENDS CandidateLineage, TLC

CONSTANTS h1, h2, x, y

MCCalls == {h1, h2}
MCIds   == {x, y}

Symmetry == Permutations(MCCalls) \cup Permutations(MCIds)

=============================================================================
