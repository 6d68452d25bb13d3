------------------------------ MODULE MCGateway -------------------------------
(* Small instances for TLC of the two halves of a request to the gateway,  *)
(* the middleware and the reverse proxy behind it.  They share no state,   *)
(* so each is explored by itself, as one of two parts of the run.          *)
EXTENDS MCAssistance, ProxyBreaker

VARIABLE part \* the part this behaviour is about

MCVars == <<vars, proxyVars, part>>

MCInit ==
    /\ part \in {"middleware", "proxy"}
    /\ Init /\ ProxyInit

MCNext ==
    /\ \/ part = "middleware" /\ Next /\ UNCHANGED proxyVars
       \/ part = "proxy" /\ ProxyNext /\ UNCHANGED vars
    /\ UNCHANGED part

(* The fairness of ProxyBreaker, of its part of the run.                   *)
Proxying(A) == part = "proxy" /\ A /\ UNCHANGED <<vars, part>>
MCFairness ==
    /\ WF_MCVars(Proxying(ProxyTick))
    /\ \A c \in Callers : WF_MCVars(Proxying(CallerStep(c)))

MCSpec == MCInit /\ [][MCNext]_MCVars /\ MCFairness
===============================================================================
