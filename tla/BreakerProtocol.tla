-------------------------- MODULE BreakerProtocol --------------------------
(***************************************************************************)
(* What both circuit breakers of the gateway promise, in the words of      *)
(* docs/demo/DEMO_SCRIPT.md:264 and README.md:295: enough failures open    *)
(* the circuit, it stays open for its timeout, then requests may test the  *)
(* service, and what they find closes the circuit or opens it again.       *)
(***************************************************************************)
VARIABLES
    state,    \* "closed", "open" or "half-open"
    cooling   \* the timeout since the last failure has not run out

vars == <<state, cooling>>

Init == state = "closed" /\ cooling \in BOOLEAN

(* A failure is recorded; it may be the one that opens the circuit.        *)
Fail ==
    /\ cooling' = TRUE
    /\ \/ UNCHANGED state
       \/ state' = "open"

CoolDown == cooling /\ cooling' = FALSE /\ UNCHANGED state

(* Only an open circuit that has cooled down is tested ...                 *)
Test == state = "open" /\ ~ cooling /\ state' = "half-open" /\ UNCHANGED cooling

(* ... and only a tested one is closed.                                    *)
Recover == state = "half-open" /\ state' = "closed" /\ UNCHANGED cooling

Next == Fail \/ CoolDown \/ Test \/ Recover

Spec == Init /\ [][Next]_vars
=============================================================================
