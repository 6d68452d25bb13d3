-------------------------- MODULE MCClientBreaker --------------------------
(* Small instances of the orchestrator client for TLC.                     *)
EXTENDS ClientBreaker, TLC

CONSTANTS c1, c2

MCSymmetry == Permutations(Callers)
=============================================================================
