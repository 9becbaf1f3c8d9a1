------------------------------- MODULE MCApi -------------------------------
(* Two concurrent handlers and three failure codes for TLC.                *)
EXTENDS ApiRecovery

CONSTANTS a, b, auto, person, unk

MCHandlers == {a, b}
MCAutomatic == {auto}
MCOperator == {person}
MCUnknown == {unk}
=============================================================================
