----------------------------- MODULE MCEventBus ------------------------------
(* Small instances of the bus for TLC, in two parts that together stay     *)
(* small: the publishers by themselves with every failure they may meet,   *)
(* and the whole bus with publishers of one key whose XADD alone may fail. *)
EXTENDS EventBus, TLC

CONSTANTS p1, p2, k1, kPlain, kInvalid, c1

VARIABLE part \* the part this behaviour is about

MCVars == <<busVars, part>>

Tame ==
    /\ pubFaults <= 1 /\ keyFaults = 0 /\ ends = 0
    /\ \A p \in Publishers : key[p] = k1
    /\ \A i \in DOMAIN stream : stream[i] \in {k1, Malformed}

MCInit ==
    /\ BusInit /\ Tame
    /\ part \in {"publishers", "whole"}

MCNext ==
    /\ \/ part = "publishers" /\ PublisherStep
       \/ part = "whole" /\ BusNext /\ Tame'
    /\ UNCHANGED part

MCFairness ==
    \A c \in Consumers :
        /\ WF_MCVars(part = "whole" /\ Work(c) /\ UNCHANGED <<pubVars, part>>)
        /\ WF_MCVars(part = "whole" /\ Start(c) /\ UNCHANGED <<pubVars, part>>)

MCSpec == MCInit /\ [][MCNext]_MCVars /\ MCFairness

(* PublishedIsSettled, where there is somebody to settle it.               *)
WholeBusSettles == part = "whole" => PublishedIsSettled
=============================================================================
