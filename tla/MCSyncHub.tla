----------------------------- MODULE MCSyncHub ------------------------------
(* Small instances of the sync service's hub for TLC.                      *)
EXTENDS SyncHub, TLC

CONSTANTS c1, c2

MCSymmetry == Permutations(Conns)
=============================================================================
