------------------------------- MODULE MCUsers -------------------------------
(* The user service for TLC.  The sessions of a user, the verification of  *)
(* an address and the keys of the service have no row in common, so each   *)
(* is explored by itself, as one of three parts of the run.                *)
EXTENDS Sessions, Registration, SigningKeys, TLC

CONSTANTS r1, r2, c1, c2, i1, i2

VARIABLE part \* the part this behaviour is about

MCVars == <<vars, regVars, keyVars, part>>

MCInit ==
    /\ part \in {"sessions", "registration", "keys"}
    /\ Init /\ RegInit /\ KeysInit

MCNext ==
    /\ \/ part = "sessions" /\ Next /\ UNCHANGED <<regVars, keyVars>>
       \/ part = "registration" /\ RegNext /\ UNCHANGED <<vars, keyVars>>
       \/ part = "keys" /\ KeysNext /\ UNCHANGED <<vars, regVars>>
    /\ UNCHANGED part

MCSpec == MCInit /\ [][MCNext]_MCVars

MCSymmetry == Permutations(Requests) \cup Permutations(Callers) \cup Permutations(Instances)
=============================================================================
