---------------------------- MODULE ProxyBreaker ----------------------------
(***************************************************************************)
(* One upstream service behind the gateway's reverse proxy: ProxyRequest   *)
(* of proxy/reverse_proxy.go with the breaker of proxy/circuit_breaker.go, *)
(* during one run of the gateway process.                                  *)
(*                                                                         *)
(* getCircuitBreaker reads and writes a map without a lock.  Requests that *)
(* arrive together may each store a breaker of their own, the last one     *)
(* staying in the map, or the Go runtime may notice and end the process.   *)
(* A breaker is named after the request that created it: once the map has  *)
(* an entry nobody creates another one, so each creates at most one.       *)
(***************************************************************************)
EXTENDS Naturals, FiniteSets

CONSTANTS
    Callers,    \* requests that may be under way at once
    None,       \* no breaker
    Threshold,  \* cb.threshold
    Timeout,    \* cb.timeout, in ticks
    MaxOutages, \* bound on failures of the service
    MaxCancels  \* bound on requests given up by their user

ASSUME ProxyAssumption ==
    /\ Threshold \in Nat \ {0} /\ Timeout \in Nat
    /\ MaxOutages \in Nat /\ MaxCancels \in Nat
    /\ None \notin Callers

VARIABLES
    registered, \* p.circuitBreakers[serviceName]
    alive,      \* the process has not been ended by the runtime
    state,      \* cb.state of each breaker
    failures,   \* cb.failures, up to Threshold
    age,        \* time since cb.lastFailure, up to Timeout + 1
    pc,         \* "idle", "creating", "found", "calling" or "answered"
    mine,       \* the breaker a request goes through
    failed,     \* the call of a request failed
    down,       \* the service cannot be reached
    outages,    \* history: outages
    cancels     \* history: requests whose user went away

breaker == <<state, failures, age>>
world == <<down, outages, cancels>>
proxyVars == <<registered, alive, breaker, pc, mine, failed, world>>

ProxyInit ==
    /\ registered = None /\ alive = TRUE
    /\ state = [b \in Callers |-> "closed"]
    /\ failures = [b \in Callers |-> 0]
    /\ age = [b \in Callers |-> Timeout + 1]
    /\ pc = [c \in Callers |-> "idle"]
    /\ mine = [c \in Callers |-> None]
    /\ failed = [c \in Callers |-> FALSE]
    /\ down = FALSE /\ outages = 0 /\ cancels = 0

UpTo(n, max) == IF n < max THEN n ELSE max

-----------------------------------------------------------------------------
Chosen(c) == c

(* getCircuitBreaker, the read: the breaker in the map, or none yet.       *)
GetBreaker(c) ==
    /\ alive /\ pc[c] = "idle"
    /\ \/ /\ registered # None
          /\ mine' = [mine EXCEPT ![c] = registered]
          /\ pc' = [pc EXCEPT ![c] = "found"]
       \/ /\ registered = None
          /\ pc' = [pc EXCEPT ![c] = "creating"]
          /\ UNCHANGED mine
    /\ UNCHANGED <<registered, alive, breaker, failed, world>>

(* getCircuitBreaker, the write of a new breaker.                          *)
Create(c) ==
    /\ alive /\ pc[c] = "creating"
    /\ registered' = c
    /\ mine' = [mine EXCEPT ![c] = Chosen(c)]
    /\ pc' = [pc EXCEPT ![c] = "found"]
    /\ UNCHANGED <<alive, breaker, failed, world>>

(* "concurrent map writes", "concurrent map read and map write": no        *)
(* recovery middleware catches these.                                      *)
FatalRace ==
    /\ alive
    /\ \E c, d \in Callers : c # d /\ pc[c] = "creating" /\ pc[d] \in {"idle", "creating"}
    /\ alive' = FALSE
    /\ UNCHANGED <<registered, breaker, pc, mine, failed, world>>

Cooled(b) == age[b] > Timeout

(* Mutant: the timeout is not looked at.                                   *)
StateNowEager(b) == IF state[b] = "open" THEN "half-open" ELSE state[b]

StateNow(b) == IF state[b] = "open" /\ Cooled(b) THEN "half-open" ELSE state[b]

Admits(s) == s # "open"

(* Execute up to the call.  halfOpenCalls is counted and never compared.   *)
Enter(c) ==
    /\ alive /\ pc[c] = "found"
    /\ state' = [state EXCEPT ![mine[c]] = StateNow(mine[c])]
    /\ pc' = [pc EXCEPT ![c] = IF Admits(StateNow(mine[c])) THEN "calling" ELSE "idle"]
    /\ UNCHANGED <<registered, alive, failures, age, mine, failed, world>>

(* The proxied call ends.  A service that cannot be reached is a failure,  *)
(* and so is a user who went away; an answer with an error status is not.  *)
CallReturns(c) ==
    /\ alive /\ pc[c] = "calling"
    /\ failed' = [failed EXCEPT ![c] = down]
    /\ pc' = [pc EXCEPT ![c] = "answered"]
    /\ UNCHANGED <<registered, alive, breaker, mine, world>>

GoesAway(c) ==
    /\ alive /\ pc[c] = "calling"
    /\ cancels < MaxCancels
    /\ cancels' = cancels + 1
    /\ failed' = [failed EXCEPT ![c] = TRUE]
    /\ pc' = [pc EXCEPT ![c] = "answered"]
    /\ UNCHANGED <<registered, alive, breaker, mine, down, outages>>

Trips(n) == n >= Threshold

RecordFailure(b) ==
    /\ failures' = [failures EXCEPT ![b] = UpTo(@ + 1, Threshold)]
    /\ age' = [age EXCEPT ![b] = 0]
    /\ state' = [state EXCEPT ![b] =
         IF @ = "half-open" \/ Trips(failures[b] + 1) THEN "open" ELSE @]

(* Mutant: a success counts in the wrong state.                            *)
RecoversFromOpen(b) == state[b] = "open"

RecoversFrom(b) == state[b] = "half-open"

RecordSuccess(b) ==
    /\ \/ /\ RecoversFrom(b)
          /\ state' = [state EXCEPT ![b] = "closed"]
          /\ failures' = [failures EXCEPT ![b] = 0]
       \/ ~ RecoversFrom(b) /\ UNCHANGED <<state, failures>>
    /\ UNCHANGED age

(* Execute after the call: the result counts for the state of now.         *)
Record(c) ==
    /\ alive /\ pc[c] = "answered"
    /\ IF failed[c] THEN RecordFailure(mine[c]) ELSE RecordSuccess(mine[c])
    /\ pc' = [pc EXCEPT ![c] = "idle"]
    /\ UNCHANGED <<registered, alive, mine, failed, world>>

-----------------------------------------------------------------------------
ProxyTick ==
    /\ alive
    /\ \E b \in Callers : age[b] <= Timeout
    /\ age' = [b \in Callers |-> UpTo(age[b] + 1, Timeout + 1)]
    /\ UNCHANGED <<registered, alive, state, failures, pc, mine, failed, world>>

BreakDown ==
    /\ alive /\ ~ down /\ outages < MaxOutages
    /\ down' = TRUE /\ outages' = outages + 1
    /\ UNCHANGED <<registered, alive, breaker, pc, mine, failed, cancels>>

Repair ==
    /\ alive /\ down /\ down' = FALSE
    /\ UNCHANGED <<registered, alive, breaker, pc, mine, failed, outages, cancels>>

CallerStep(c) == GetBreaker(c) \/ Create(c) \/ Enter(c) \/ CallReturns(c) \/ Record(c)

ProxyNext ==
    \/ \E c \in Callers : CallerStep(c) \/ GoesAway(c)
    \/ FatalRace \/ ProxyTick \/ BreakDown \/ Repair

ProxySpec == ProxyInit /\ [][ProxyNext]_proxyVars

(* Requests that are under way are scheduled, calls end by the proxy's     *)
(* timeout of 120 s, time passes, and users keep coming.                   *)
FairProxySpec ==
    ProxySpec /\ WF_proxyVars(ProxyTick) /\ \A c \in Callers : WF_proxyVars(CallerStep(c))

-----------------------------------------------------------------------------
TypeOK ==
    /\ registered \in Callers \cup {None}
    /\ alive \in BOOLEAN
    /\ state \in [Callers -> {"closed", "open", "half-open"}]
    /\ failures \in [Callers -> 0..Threshold]
    /\ age \in [Callers -> 0..(Timeout + 1)]
    /\ pc \in [Callers -> {"idle", "creating", "found", "calling", "answered"}]
    /\ mine \in [Callers -> Callers \cup {None}]
    /\ failed \in [Callers -> BOOLEAN]
    /\ down \in BOOLEAN
    /\ outages \in 0..MaxOutages
    /\ cancels \in 0..MaxCancels
    /\ \A c \in Callers : pc[c] \in {"found", "calling", "answered"} => mine[c] # None

(* A breaker is never left closed with Threshold failures on the count,    *)
(* whatever results of earlier states come in late.                        *)
ClosedBelowThreshold == \A b \in Callers : state[b] = "closed" => failures[b] < Threshold

(* A service that can be reached, with users who wait for their answers,   *)
(* is never cut off: fewer than Threshold failures open no circuit.        *)
OpensForAReason ==
    (\E b \in Callers : state[b] # "closed") => outages > 0 \/ cancels >= Threshold

(* Every breaker follows the protocol, for any number of requests at once. *)
Protocol(b) == INSTANCE BreakerProtocol WITH state <- state[b], cooling <- ~ Cooled(b)
ImplementsProtocol ==
    /\ \A b \in Callers : Protocol(b)!Init
    /\ [][\A b \in Callers : [Protocol(b)!Next]_(Protocol(b)!vars)]_proxyVars

(* Once the service stays reachable, its circuit closes for good - unless  *)
(* the runtime has ended the process.                                      *)
Recovers ==
    <>[](~ down) => <>[](\A b \in Callers : b = registered => state[b] = "closed" \/ ~ alive)

(* Both: users are cut off for a reason, and not for longer than it lasts. *)
CutOffOnlyWhileDown == []OpensForAReason /\ Recovers
=============================================================================
