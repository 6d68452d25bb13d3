--------------------------- MODULE ClientBreaker ---------------------------
(***************************************************************************)
(* The gateway's client of the AI orchestrator: requests of several users  *)
(* go through doWithRetry of clients/python.go and share one circuit       *)
(* breaker of circuitbreaker/breaker.go.                                   *)
(*                                                                         *)
(* Execute holds the breaker's mutex twice, in currentState and in         *)
(* recordResult, and not during the call between them, so these are two    *)
(* steps, and recordResult works with the state read in the first one.     *)
(* Time is the age of the last failure in ticks; it and the failure count  *)
(* are cut off where the code's comparisons stop telling values apart.     *)
(***************************************************************************)
EXTENDS Naturals, FiniteSets

CONSTANTS
    Callers,      \* requests that may be under way at once
    MaxFailures,  \* config.MaxFailures
    Timeout,      \* config.Timeout, in ticks
    MaxRetries,   \* config.MaxRetries of the client
    MaxOutages,   \* bound on failures of the orchestrator
    MaxCancels    \* bound on requests given up by their user

ASSUME ClientAssumption ==
    /\ MaxFailures \in Nat \ {0} /\ Timeout \in Nat /\ MaxRetries \in Nat
    /\ MaxOutages \in Nat /\ MaxCancels \in Nat

VARIABLES
    state,    \* cb.state
    failures, \* cb.failures, up to MaxFailures
    age,      \* time since cb.lastFailureAt, up to Timeout + 1
    pc,       \* "idle", "calling", "answered" or "backoff"
    before,   \* the state currentState returned to a caller
    attempt,  \* the attempt of doWithRetry it is at
    result,   \* what its last HTTP call came to
    gone,     \* callers whose context was cancelled
    answer,   \* what its last request returned
    down,     \* the orchestrator is failing
    outages,  \* history: outages
    cancels   \* history: cancelled requests

breaker == <<state, failures, age>>
callers == <<pc, before, attempt, result, gone, answer>>
world == <<down, outages, cancels>>
clientVars == <<breaker, callers, world>>

States == {"closed", "open", "half-open"}
Results == {"final", "other", "failed"}
Answers == Results \cup {"none", "rejected", "cancelled"}

ClientInit ==
    /\ state = "closed" /\ failures = 0 /\ age = Timeout + 1
    /\ pc = [c \in Callers |-> "idle"]
    /\ before = [c \in Callers |-> "closed"]
    /\ attempt = [c \in Callers |-> 0]
    /\ result = [c \in Callers |-> "final"]
    /\ gone = {}
    /\ answer = [c \in Callers |-> "none"]
    /\ down = FALSE /\ outages = 0 /\ cancels = 0

UpTo(n, max) == IF n < max THEN n ELSE max

-----------------------------------------------------------------------------
(* Mutant: the timeout never runs out.                                     *)
CooledNever == FALSE

Cooled == age > Timeout

(* Mutant: the timeout is not looked at.                                   *)
StateNowEager == IF state = "open" THEN "half-open" ELSE state

(* What currentState makes of an open circuit.                             *)
StateNow == IF state = "open" /\ Cooled THEN "half-open" ELSE state

(* A request is over: doWithRetry returns.                                 *)
Return(c, a) ==
    /\ pc' = [pc EXCEPT ![c] = "idle"]
    /\ answer' = [answer EXCEPT ![c] = a]
    /\ gone' = gone \ {c}

Admits(s) == s # "open"

(* Execute up to the call: an open circuit rejects, and doWithRetry does   *)
(* not retry what was rejected.                                            *)
Enter(c, n) ==
    /\ state' = StateNow
    /\ \/ /\ Admits(StateNow)
          /\ pc' = [pc EXCEPT ![c] = "calling"]
          /\ before' = [before EXCEPT ![c] = StateNow]
          /\ attempt' = [attempt EXCEPT ![c] = n]
          /\ UNCHANGED <<gone, answer>>
       \/ /\ ~ Admits(StateNow)
          /\ Return(c, "rejected")
          /\ UNCHANGED <<before, attempt>>
    /\ UNCHANGED <<failures, age, result, world>>

Request(c) == pc[c] = "idle" /\ Enter(c, 0)

NextAttempt(n) == n + 1

(* The backoff is over and the request is sent again.                      *)
Retry(c) == pc[c] = "backoff" /\ c \notin gone /\ Enter(c, NextAttempt(attempt[c]))

GiveUp(c) ==
    /\ pc[c] = "backoff" /\ c \in gone
    /\ Return(c, "cancelled")
    /\ UNCHANGED <<breaker, before, attempt, result, world>>

(* The HTTP call ends: an error, 429 or 5xx is a failure, and so is a      *)
(* context that ended; "final" is a status doWithRetry returns at once     *)
(* (success, 400, 401, 404), "other" any other status below 500.           *)
Responded(c, r) ==
    /\ pc[c] = "calling"
    /\ r = "failed" <=> down \/ c \in gone
    /\ result' = [result EXCEPT ![c] = r]
    /\ pc' = [pc EXCEPT ![c] = "answered"]
    /\ UNCHANGED <<breaker, before, attempt, gone, answer, world>>

Threshold(n) == n >= MaxFailures

RecordSuccess(c) ==
    /\ failures' = 0
    /\ state' = IF before[c] = "half-open" THEN "closed" ELSE state
    /\ UNCHANGED age

RecordFailure(c) ==
    /\ failures' = UpTo(failures + 1, MaxFailures)
    /\ age' = 0
    /\ state' = IF before[c] = "half-open" \/ Threshold(failures + 1) THEN "open" ELSE state

RetriesLeft(c) == attempt[c] < MaxRetries

(* recordResult, and what doWithRetry makes of the outcome.                *)
Record(c) ==
    /\ pc[c] = "answered"
    /\ IF result[c] = "failed" THEN RecordFailure(c) ELSE RecordSuccess(c)
    /\ \/ /\ result[c] # "final" /\ RetriesLeft(c)
          /\ pc' = [pc EXCEPT ![c] = "backoff"]
          /\ UNCHANGED <<gone, answer>>
       \/ /\ result[c] = "final" \/ ~ RetriesLeft(c)
          /\ Return(c, result[c])
    /\ UNCHANGED <<before, attempt, result, world>>

-----------------------------------------------------------------------------
(* The user of a request goes away.                                        *)
Cancel(c) ==
    /\ pc[c] # "idle" /\ c \notin gone
    /\ cancels < MaxCancels
    /\ cancels' = cancels + 1
    /\ gone' = gone \cup {c}
    /\ UNCHANGED <<breaker, pc, before, attempt, result, answer, down, outages>>

TimePasses ==
    /\ age <= Timeout
    /\ age' = age + 1
    /\ UNCHANGED <<state, failures, callers, world>>

BreakDown ==
    /\ ~ down /\ outages < MaxOutages
    /\ down' = TRUE /\ outages' = outages + 1
    /\ UNCHANGED <<breaker, callers, cancels>>

Repair ==
    /\ down /\ down' = FALSE
    /\ UNCHANGED <<breaker, callers, outages, cancels>>

CallerStep(c) ==
    \/ Request(c) \/ Retry(c) \/ GiveUp(c) \/ Record(c)
    \/ \E r \in Results : Responded(c, r)

ClientNext ==
    \/ \E c \in Callers : CallerStep(c) \/ Cancel(c)
    \/ TimePasses \/ BreakDown \/ Repair

ClientSpec == ClientInit /\ [][ClientNext]_clientVars

(* Go schedules every request that is under way, every HTTP call ends by   *)
(* its timeout, time passes, and users keep coming.                        *)
FairClientSpec == ClientSpec /\ WF_clientVars(TimePasses) /\ \A c \in Callers : WF_clientVars(CallerStep(c))

-----------------------------------------------------------------------------
ClientTypeOK ==
    /\ state \in States
    /\ failures \in 0..MaxFailures
    /\ age \in 0..(Timeout + 1)
    /\ pc \in [Callers -> {"idle", "calling", "answered", "backoff"}]
    /\ before \in [Callers -> {"closed", "half-open"}]
    /\ attempt \in [Callers -> 0..MaxRetries]
    /\ result \in [Callers -> Results]
    /\ gone \subseteq Callers
    /\ answer \in [Callers -> Answers]
    /\ down \in BOOLEAN
    /\ outages \in 0..MaxOutages
    /\ cancels \in 0..MaxCancels
    /\ \A c \in Callers : pc[c] = "backoff" => attempt[c] < MaxRetries

(* A circuit is never left closed with MaxFailures failures on the count,  *)
(* whatever results of earlier states come in late.                        *)
ClosedBelowThreshold == state = "closed" => failures < MaxFailures

(* A healthy orchestrator whose users all stay never has its circuit       *)
(* opened: only outages and cancelled requests do.                         *)
OpensForAReason == state # "closed" => outages > 0 \/ cancels >= MaxFailures

(* The breaker keeps to its protocol as long as every call in flight began *)
(* in the state it is in now; only the result of another one can break it. *)
Protocol == INSTANCE BreakerProtocol WITH cooling <- ~ Cooled
UpToDate == \A c \in Callers : pc[c] \in {"calling", "answered"} => before[c] = state
ProtocolUnlessStale == [][UpToDate => [Protocol!Next]_(Protocol!vars)]_clientVars

(* Once the orchestrator stays up, the circuit closes for good.            *)
Recovers == <>[](~ down) => <>[](state = "closed")

(* Both: users are cut off for a reason, and not for longer than it lasts. *)
CutOffOnlyWhileDown == []OpensForAReason /\ Recovers
=============================================================================
