---------------------------- MODULE GatewayProofs ----------------------------
(***************************************************************************)
(* Proofs about what the gateway asks of other services.                   *)
(*                                                                         *)
(* ProxyBreaker, for any number of requests and breakers: the types, the   *)
(* threshold, that every breaker follows BreakerProtocol, and that none    *)
(* opens without a reason.                                                 *)
(*                                                                         *)
(* Spending and ModelCalls, for any number of calls, models, fallbacks,    *)
(* institutions, tasks, users and prompts: a stream that tells its usage   *)
(* is whole, and where a quiet end comes from; the check of a ceiling is   *)
(* off by no more than what was under way, lost or forgotten; the totals   *)
(* agree; and a prompt is paid for once.                                   *)
(***************************************************************************)
EXTENDS ProxyBreaker, Spending, FiniteSetTheorems, SequenceTheorems,
        WellFoundedInduction, TLAPS

LEMMA Bounds ==
    /\ Threshold \in Nat /\ Threshold > 0 /\ Timeout \in Nat
    /\ MaxOutages \in Nat /\ MaxCancels \in Nat
BY ProxyAssumption, SMT

LEMMA UpToType ==
    ASSUME NEW max \in Nat, NEW n \in 0..max
    PROVE  UpTo(n + 1, max) \in 0..max
BY SMT DEF UpTo

LEMMA ProxyTypeInit == ProxyInit => TypeOK
<1>1. /\ 0 \in 0..Threshold /\ Timeout + 1 \in 0..(Timeout + 1)
      /\ 0 \in 0..MaxOutages /\ 0 \in 0..MaxCancels
  BY Bounds, SMT
<1> SUFFICES ASSUME ProxyInit PROVE TypeOK
  OBVIOUS
<1> USE DEF ProxyInit
<1>2. /\ registered \in Callers \cup {None} /\ alive \in BOOLEAN
      /\ state \in [Callers -> {"closed", "open", "half-open"}]
      /\ failed \in [Callers -> BOOLEAN] /\ down \in BOOLEAN
  OBVIOUS
<1>3. /\ failures \in [Callers -> 0..Threshold]
      /\ age \in [Callers -> 0..(Timeout + 1)]
  BY <1>1
<1>4. /\ pc \in [Callers -> {"idle", "creating", "found", "calling", "answered"}]
      /\ mine \in [Callers -> Callers \cup {None}]
      /\ \A c \in Callers : pc[c] = "idle"
  OBVIOUS
<1>5. outages \in 0..MaxOutages /\ cancels \in 0..MaxCancels
  BY <1>1
<1> QED
  BY <1>2, <1>3, <1>4, <1>5 DEF TypeOK

(* What a result does to the breaker it is recorded in.                    *)
LEMMA RecordType ==
    ASSUME TypeOK, NEW b \in Callers, RecordFailure(b) \/ RecordSuccess(b)
    PROVE  /\ state' \in [Callers -> {"closed", "open", "half-open"}]
           /\ failures' \in [Callers -> 0..Threshold]
           /\ age' \in [Callers -> 0..(Timeout + 1)]
<1> USE DEF TypeOK
<1>1. 0 \in 0..Threshold /\ 0 \in 0..(Timeout + 1)
  BY Bounds, SMT
<1>2. CASE RecordFailure(b)
  <2>1. UpTo(failures[b] + 1, Threshold) \in 0..Threshold
    BY UpToType, Bounds
  <2> QED
    BY <1>1, <1>2, <2>1 DEF RecordFailure
<1>3. CASE RecordSuccess(b)
  BY <1>1, <1>3 DEF RecordSuccess
<1> QED
  BY <1>2, <1>3

LEMMA ProxyTypeStep == TypeOK /\ [ProxyNext]_proxyVars => TypeOK'
<1> SUFFICES ASSUME TypeOK, [ProxyNext]_proxyVars PROVE TypeOK'
  OBVIOUS
<1> USE DEF TypeOK
<1>1. ASSUME NEW c \in Callers, GetBreaker(c) PROVE TypeOK'
  BY <1>1 DEF GetBreaker, breaker, world
<1>2. ASSUME NEW c \in Callers, Create(c) PROVE TypeOK'
  BY <1>2, ProxyAssumption DEF Create, Chosen, breaker, world
<1>3. ASSUME NEW c \in Callers, Enter(c) PROVE TypeOK'
  <2>1. mine[c] \in Callers
    BY <1>3 DEF Enter
  <2>2. StateNow(mine[c]) \in {"closed", "open", "half-open"}
    BY <2>1 DEF StateNow
  <2> QED
    BY <1>3, <2>1, <2>2 DEF Enter, world
<1>4. ASSUME NEW c \in Callers, CallReturns(c) PROVE TypeOK'
  BY <1>4 DEF CallReturns, breaker, world
<1>5. ASSUME NEW c \in Callers, GoesAway(c) PROVE TypeOK'
  <2>1. cancels' \in 0..MaxCancels
    BY <1>5, Bounds, SMT DEF GoesAway
  <2> QED
    BY <1>5, <2>1 DEF GoesAway, breaker
<1>6. ASSUME NEW c \in Callers, Record(c) PROVE TypeOK'
  <2>1. mine[c] \in Callers /\ (RecordFailure(mine[c]) \/ RecordSuccess(mine[c]))
    BY <1>6 DEF Record
  <2>2. /\ pc' = [pc EXCEPT ![c] = "idle"]
        /\ UNCHANGED <<registered, alive, mine, failed, world>>
    BY <1>6 DEF Record
  <2> HIDE DEF TypeOK
  <2>3. /\ state' \in [Callers -> {"closed", "open", "half-open"}]
        /\ failures' \in [Callers -> 0..Threshold]
        /\ age' \in [Callers -> 0..(Timeout + 1)]
    BY <2>1, RecordType
  <2> QED
    BY <2>2, <2>3 DEF world, TypeOK
<1>7. CASE FatalRace
  BY <1>7 DEF FatalRace, breaker, world
<1>8. CASE ProxyTick
  <2>1. \A b \in Callers : UpTo(age[b] + 1, Timeout + 1) \in 0..(Timeout + 1)
    BY UpToType, Bounds, SMT
  <2> QED
    BY <1>8, <2>1 DEF ProxyTick, world
<1>9. CASE BreakDown
  <2>1. outages' \in 0..MaxOutages
    BY <1>9, Bounds, SMT DEF BreakDown
  <2> QED
    BY <1>9, <2>1 DEF BreakDown, breaker
<1>10. CASE Repair
  BY <1>10 DEF Repair, breaker
<1>11. CASE UNCHANGED proxyVars
  BY <1>11 DEF proxyVars, breaker, world
<1> QED
  BY <1>1, <1>2, <1>3, <1>4, <1>5, <1>6, <1>7, <1>8, <1>9, <1>10, <1>11 DEF ProxyNext, CallerStep

(* Every variable keeps its type, and a request that goes through a        *)
(* breaker has one.                                                        *)
THEOREM ProxyTypes == ProxySpec => []TypeOK
BY ProxyTypeInit, ProxyTypeStep, PTL DEF ProxySpec

-----------------------------------------------------------------------------
(* A step that changes a breaker lets a request in, records a result or    *)
(* lets time pass.                                                         *)
LEMMA BreakerSteps ==
    ASSUME TypeOK, [ProxyNext]_proxyVars
    PROVE  \/ UNCHANGED <<state, failures, age>>
           \/ \E b \in Callers : /\ state' = [state EXCEPT ![b] = StateNow(b)]
                                 /\ UNCHANGED <<failures, age>>
           \/ \E b \in Callers : RecordFailure(b) \/ RecordSuccess(b)
           \/ ProxyTick
<1>1. ASSUME NEW c \in Callers, GetBreaker(c) \/ Create(c) \/ CallReturns(c) \/ GoesAway(c)
      PROVE  UNCHANGED <<state, failures, age>>
  BY <1>1 DEF GetBreaker, Create, CallReturns, GoesAway, breaker
<1>2. ASSUME NEW c \in Callers, Enter(c)
      PROVE  /\ mine[c] \in Callers
             /\ state' = [state EXCEPT ![mine[c]] = StateNow(mine[c])]
             /\ UNCHANGED <<failures, age>>
  BY <1>2 DEF Enter, TypeOK
<1>3. ASSUME NEW c \in Callers, Record(c)
      PROVE  mine[c] \in Callers /\ (RecordFailure(mine[c]) \/ RecordSuccess(mine[c]))
  BY <1>3 DEF Record, TypeOK
<1>4. FatalRace \/ BreakDown \/ Repair \/ UNCHANGED proxyVars => UNCHANGED <<state, failures, age>>
  BY DEF FatalRace, BreakDown, Repair, proxyVars, breaker
<1> QED
  BY <1>1, <1>2, <1>3, <1>4 DEF ProxyNext, CallerStep

(* No result, however late it comes in, leaves a circuit closed with its   *)
(* threshold reached.                                                      *)
THEOREM ClosedIsBelow == ProxySpec => []ClosedBelowThreshold
<1>1. ProxyInit => ClosedBelowThreshold
  BY Bounds, SMT DEF ProxyInit, ClosedBelowThreshold
<1>2. TypeOK /\ ClosedBelowThreshold /\ [ProxyNext]_proxyVars => ClosedBelowThreshold'
  <2> SUFFICES ASSUME TypeOK, ClosedBelowThreshold, [ProxyNext]_proxyVars, NEW b \in Callers,
                      state'[b] = "closed"
               PROVE  failures'[b] < Threshold
    BY DEF ClosedBelowThreshold
  <2> USE DEF ClosedBelowThreshold, TypeOK
  <2>1. CASE UNCHANGED <<state, failures, age>>
    BY <2>1
  <2>2. ASSUME NEW d \in Callers, state' = [state EXCEPT ![d] = StateNow(d)],
               UNCHANGED <<failures, age>>
        PROVE  failures'[b] < Threshold
    BY <2>2 DEF StateNow
  <2>3. ASSUME NEW d \in Callers, RecordFailure(d) PROVE failures'[b] < Threshold
    <3>1. CASE d = b
      BY <2>3, <3>1, Bounds, SMT DEF RecordFailure, Trips, UpTo
    <3>2. CASE d # b
      BY <2>3, <3>2 DEF RecordFailure
    <3> QED
      BY <3>1, <3>2
  <2>4. ASSUME NEW d \in Callers, RecordSuccess(d) PROVE failures'[b] < Threshold
    BY <2>4, Bounds, SMT DEF RecordSuccess
  <2>5. CASE ProxyTick
    BY <2>5 DEF ProxyTick
  <2> QED
    BY <2>1, <2>2, <2>3, <2>4, <2>5, BreakerSteps
<1> QED
  BY <1>1, <1>2, ProxyTypes, PTL DEF ProxySpec

-----------------------------------------------------------------------------
LEMMA ProtocolStep ==
    ASSUME TypeOK, [ProxyNext]_proxyVars, NEW b \in Callers
    PROVE  [Protocol(b)!Next]_(Protocol(b)!vars)
<1> USE DEF Protocol!Next, Protocol!vars, TypeOK
<1>1. CASE UNCHANGED <<state, failures, age>>
  BY <1>1 DEF Cooled
<1>2. ASSUME NEW d \in Callers, state' = [state EXCEPT ![d] = StateNow(d)],
             UNCHANGED <<failures, age>>
      PROVE  [Protocol(b)!Next]_(Protocol(b)!vars)
  BY <1>2 DEF StateNow, Cooled, Protocol!Test
<1>3. ASSUME NEW d \in Callers, RecordFailure(d)
      PROVE  [Protocol(b)!Next]_(Protocol(b)!vars)
  <2>1. CASE d = b
    <3>1. ~ (age'[b] > Timeout)
      BY <1>3, <2>1, Bounds, SMT DEF RecordFailure
    <3> QED
      BY <1>3, <2>1, <3>1 DEF RecordFailure, Cooled, Protocol!Fail
  <2>2. CASE d # b
    BY <1>3, <2>2 DEF RecordFailure, Cooled
  <2> QED
    BY <2>1, <2>2
<1>4. ASSUME NEW d \in Callers, RecordSuccess(d)
      PROVE  [Protocol(b)!Next]_(Protocol(b)!vars)
  BY <1>4 DEF RecordSuccess, RecoversFrom, Cooled, Protocol!Recover
<1>5. CASE ProxyTick
  <2>1. age'[b] = UpTo(age[b] + 1, Timeout + 1) /\ state' = state
    BY <1>5 DEF ProxyTick
  <2>2. age[b] > Timeout => age'[b] > Timeout
    BY <2>1, Bounds, SMT DEF UpTo
  <2> QED
    BY <2>1, <2>2 DEF Cooled, Protocol!CoolDown
<1> QED
  BY <1>1, <1>2, <1>3, <1>4, <1>5, BreakerSteps

(* However many requests go through a breaker at once, and however late    *)
(* their results come in, it follows the protocol.                         *)
THEOREM KeepsProtocol == ProxySpec => ImplementsProtocol
<1>1. ProxyInit => \A b \in Callers : Protocol(b)!Init
  BY DEF ProxyInit, Protocol!Init
<1>2. TypeOK /\ [ProxyNext]_proxyVars => \A b \in Callers : [Protocol(b)!Next]_(Protocol(b)!vars)
  BY ProtocolStep
<1> QED
  BY <1>1, <1>2, ProxyTypes, PTL DEF ProxySpec, ImplementsProtocol

-----------------------------------------------------------------------------
(* Failures a breaker is still to hear of.                                 *)
Unheard(b) == {c \in Callers : pc[c] = "answered" /\ failed[c] /\ mine[c] = b}

(* Without an outage every failure, counted or unheard, stands for a user  *)
(* who left, and a breaker that is not closed for as many as the threshold.*)
BlamedAt(b) ==
    /\ IsFiniteSet(Unheard(b)) /\ failures[b] + Cardinality(Unheard(b)) <= cancels
    /\ state[b] # "closed" => cancels >= Threshold
Blamed == outages = 0 => ~ down /\ \A b \in Callers : BlamedAt(b)

LEMMA NoMoreUnheard ==
    ASSUME NEW S, NEW T, IsFiniteSet(S), T \subseteq S
    PROVE  /\ IsFiniteSet(T) /\ Cardinality(T) \in Nat /\ Cardinality(S) \in Nat
           /\ Cardinality(T) <= Cardinality(S)
           /\ \A x : x \in S /\ x \notin T => Cardinality(T) + 1 <= Cardinality(S)
<1>1. /\ IsFiniteSet(T) /\ Cardinality(T) \in Nat /\ Cardinality(S) \in Nat
      /\ Cardinality(T) <= Cardinality(S)
  BY FS_Subset, FS_CardinalityType
<1>2. ASSUME NEW x, x \in S, x \notin T PROVE Cardinality(T) + 1 <= Cardinality(S)
  <2>1. IsFiniteSet(T \cup {x}) /\ Cardinality(T \cup {x}) = Cardinality(T) + 1
    BY <1>1, <1>2, FS_AddElement
  <2>2. T \cup {x} \subseteq S
    BY <1>2
  <2>3. Cardinality(T \cup {x}) <= Cardinality(S)
    BY <2>2, FS_Subset
  <2> QED
    BY <2>1, <2>3
<1> QED
  BY <1>1, <1>2

LEMMA OneMoreUnheard ==
    ASSUME NEW S, NEW T, NEW x, IsFiniteSet(S), T \subseteq S \cup {x}
    PROVE  /\ IsFiniteSet(T) /\ Cardinality(T) \in Nat /\ Cardinality(S) \in Nat
           /\ Cardinality(T) <= Cardinality(S) + 1
<1>1. Cardinality(S) \in Nat
  BY FS_CardinalityType
<1> PICK u : u = S \cup {x}
  OBVIOUS
<1>2. IsFiniteSet(u) /\ Cardinality(u) = (IF x \in S THEN Cardinality(S) ELSE Cardinality(S) + 1)
  BY FS_AddElement
<1>3. IsFiniteSet(T) /\ Cardinality(T) \in Nat /\ Cardinality(T) <= Cardinality(u) /\ Cardinality(u) \in Nat
  BY <1>2, NoMoreUnheard
<1> QED
  BY <1>1, <1>2, <1>3

(* A step that brings a breaker no new failure to hear of.                 *)
LEMMA NothingNewToBlame ==
    ASSUME TypeOK, TypeOK', NEW b \in Callers, BlamedAt(b), Unheard(b)' \subseteq Unheard(b),
           failures'[b] <= failures[b], cancels' = cancels,
           state'[b] = "closed" \/ state'[b] = state[b] \/ state[b] # "closed"
    PROVE  BlamedAt(b)'
<1>1. IsFiniteSet(Unheard(b)) /\ failures[b] + Cardinality(Unheard(b)) <= cancels
  BY DEF BlamedAt
<1> PICK S, T : S = Unheard(b) /\ T = Unheard(b)'
  OBVIOUS
<1>2. IsFiniteSet(T) /\ Cardinality(T) \in Nat /\ Cardinality(S) \in Nat /\ Cardinality(T) <= Cardinality(S)
  BY <1>1, NoMoreUnheard
<1> PICK s, t, f, g : s = Cardinality(S) /\ t = Cardinality(T) /\ f = failures[b] /\ g = failures'[b]
  OBVIOUS
<1>3. /\ s \in Nat /\ t \in Nat /\ f \in Nat /\ g \in Nat /\ cancels \in Nat
      /\ t <= s /\ g <= f /\ f + s <= cancels
  BY <1>1, <1>2, Bounds DEF TypeOK
<1>4. g + t <= cancels
  BY <1>3
<1> QED
  BY <1>2, <1>4 DEF BlamedAt

LEMMA BlamedStep == TypeOK /\ TypeOK' /\ Blamed /\ [ProxyNext]_proxyVars => Blamed'
<1> SUFFICES ASSUME TypeOK, TypeOK', Blamed, [ProxyNext]_proxyVars PROVE Blamed'
  OBVIOUS
<1>1. ASSUME \A b \in Callers : /\ Unheard(b)' \subseteq Unheard(b)
                                /\ state'[b] = state[b] \/ state[b] # "closed",
             UNCHANGED <<failures, world>>
      PROVE  Blamed'
  <2>1. outages' = outages /\ down' = down /\ cancels' = cancels /\ failures' = failures
    BY <1>1 DEF world
  <2> SUFFICES ASSUME outages = 0 PROVE ~ down' /\ \A b \in Callers : BlamedAt(b)'
    BY <2>1 DEF Blamed
  <2>2. ASSUME NEW b \in Callers PROVE BlamedAt(b)'
    <3>1. BlamedAt(b) /\ failures'[b] <= failures[b]
      BY <2>1, Bounds DEF Blamed, TypeOK
    <3> QED
      BY <1>1, <2>1, <3>1, NothingNewToBlame
  <2> QED
    BY <2>1, <2>2 DEF Blamed
<1>2. ASSUME NEW c \in Callers, GetBreaker(c) \/ Create(c) PROVE Blamed'
  <2>1. /\ pc[c] \in {"idle", "creating"} /\ pc'[c] \in {"found", "creating"}
        /\ \A d \in Callers : d # c => pc'[d] = pc[d] /\ mine'[d] = mine[d]
        /\ UNCHANGED <<state, failures, failed, world>>
    BY <1>2 DEF GetBreaker, Create, breaker, TypeOK
  <2>2. \A b \in Callers : Unheard(b)' \subseteq Unheard(b)
    BY <2>1 DEF Unheard
  <2> QED
    BY <1>1, <2>1, <2>2
<1>3. ASSUME NEW c \in Callers, Enter(c) PROVE Blamed'
  <2>1. /\ pc'[c] # "answered" /\ \A d \in Callers : d # c => pc'[d] = pc[d]
        /\ UNCHANGED <<failures, mine, failed, world>>
    BY <1>3 DEF Enter, TypeOK
  <2>2. \A b \in Callers : Unheard(b)' \subseteq Unheard(b)
    BY <2>1 DEF Unheard
  <2>3. \A b \in Callers : state'[b] = state[b] \/ state[b] # "closed"
    BY <1>3 DEF Enter, StateNow, TypeOK
  <2> QED
    BY <1>1, <2>1, <2>2, <2>3
<1>4. ASSUME NEW c \in Callers, CallReturns(c) PROVE Blamed'
  <2>1. /\ failed' = [failed EXCEPT ![c] = down] /\ \A d \in Callers : d # c => pc'[d] = pc[d]
        /\ UNCHANGED <<state, failures, mine, world>>
    BY <1>4 DEF CallReturns, breaker, TypeOK
  <2>2. CASE down
    <3>1. outages # 0 /\ outages' = outages
      BY <2>1, <2>2 DEF Blamed, world
    <3> QED
      BY <3>1 DEF Blamed
  <2>3. CASE ~ down
    <3>1. \A b \in Callers : Unheard(b)' \subseteq Unheard(b)
      BY <2>1, <2>3 DEF Unheard, TypeOK
    <3> QED
      BY <1>1, <2>1, <3>1
  <2> QED
    BY <2>2, <2>3
<1>5. ASSUME NEW c \in Callers, Record(c) PROVE Blamed'
  <2>1. /\ pc[c] = "answered" /\ mine[c] \in Callers /\ pc'[c] = "idle"
        /\ \A d \in Callers : d # c => pc'[d] = pc[d]
        /\ UNCHANGED <<mine, failed, world>>
    BY <1>5 DEF Record, TypeOK
  <2>2. outages' = outages /\ down' = down /\ cancels' = cancels
    BY <2>1 DEF world
  <2> SUFFICES ASSUME outages = 0 PROVE ~ down' /\ \A b \in Callers : BlamedAt(b)'
    BY <2>2 DEF Blamed
  <2>3. \A b \in Callers : Unheard(b)' \subseteq Unheard(b) /\ c \notin Unheard(b)'
    BY <2>1 DEF Unheard
  <2>4. ~ down /\ \A b \in Callers : BlamedAt(b)
    BY DEF Blamed
  <2>5. ASSUME NEW b \in Callers, b # mine[c] \/ ~ failed[c] PROVE BlamedAt(b)'
    <3>1. /\ failures'[b] = failures[b] \/ failures'[b] = 0
          /\ state'[b] = "closed" \/ state'[b] = state[b]
      BY <1>5, <2>1, <2>5 DEF Record, RecordFailure, RecordSuccess, TypeOK
    <3>2. failures'[b] <= failures[b]
      BY <3>1, Bounds DEF TypeOK
    <3> QED
      BY <2>2, <2>3, <2>4, <3>1, <3>2, NothingNewToBlame
  <2>6. CASE failed[c]
    <3> PICK b \in Callers : b = mine[c]
      BY <2>1
    <3>1. c \in Unheard(b) /\ IsFiniteSet(Unheard(b)) /\ failures[b] + Cardinality(Unheard(b)) <= cancels
          /\ (state[b] # "closed" => cancels >= Threshold)
      BY <2>1, <2>4, <2>6 DEF Unheard, BlamedAt
    <3>2. /\ failures'[b] = UpTo(failures[b] + 1, Threshold)
          /\ state'[b] = (IF state[b] = "half-open" \/ Trips(failures[b] + 1) THEN "open" ELSE state[b])
      BY <1>5, <2>6 DEF Record, RecordFailure, TypeOK
    <3> PICK S, T : S = Unheard(b) /\ T = Unheard(b)'
      OBVIOUS
    <3>3. IsFiniteSet(T) /\ Cardinality(T) \in Nat /\ Cardinality(S) \in Nat /\ Cardinality(T) + 1 <= Cardinality(S)
      BY <2>3, <3>1, NoMoreUnheard
    <3> PICK s, t, f, g : s = Cardinality(S) /\ t = Cardinality(T) /\ f = failures[b] /\ g = failures'[b]
      OBVIOUS
    <3>4. /\ s \in Nat /\ t \in Nat /\ f \in Nat /\ cancels \in Nat
          /\ t + 1 <= s /\ f + s <= cancels /\ g = (IF f + 1 < Threshold THEN f + 1 ELSE Threshold)
      BY <3>1, <3>2, <3>3, Bounds DEF TypeOK, UpTo
    <3>5. g + t <= cancels /\ (f + 1 >= Threshold => cancels >= Threshold)
      BY <3>4, Bounds
    <3>6. state'[b] # "closed" => cancels >= Threshold
      BY <3>1, <3>2, <3>5 DEF Trips
    <3>7. BlamedAt(b)'
      BY <2>2, <3>3, <3>5, <3>6 DEF BlamedAt
    <3> QED
      BY <2>2, <2>4, <2>5, <3>7
  <2>7. CASE ~ failed[c]
    BY <2>2, <2>4, <2>5, <2>7
  <2> QED
    BY <2>6, <2>7
<1>6. ASSUME NEW c \in Callers, GoesAway(c) PROVE Blamed'
  <2>1. /\ cancels' = cancels + 1 /\ pc' = [pc EXCEPT ![c] = "answered"]
        /\ failed' = [failed EXCEPT ![c] = TRUE]
        /\ UNCHANGED <<state, failures, mine, down, outages>>
    BY <1>6 DEF GoesAway, breaker
  <2> SUFFICES ASSUME outages = 0 PROVE ~ down' /\ \A b \in Callers : BlamedAt(b)'
    BY <2>1 DEF Blamed
  <2>2. ASSUME NEW b \in Callers PROVE BlamedAt(b)'
    <3>1. /\ IsFiniteSet(Unheard(b)) /\ failures[b] + Cardinality(Unheard(b)) <= cancels
          /\ state[b] # "closed" => cancels >= Threshold
      BY DEF Blamed, BlamedAt
    <3>2. Unheard(b)' \subseteq Unheard(b) \cup {c}
      BY <2>1 DEF Unheard, TypeOK
    <3> PICK S, T : S = Unheard(b) /\ T = Unheard(b)'
      OBVIOUS
    <3>3. IsFiniteSet(T) /\ Cardinality(T) \in Nat /\ Cardinality(S) \in Nat /\ Cardinality(T) <= Cardinality(S) + 1
      BY <3>1, <3>2, OneMoreUnheard
    <3> PICK s, t, f : s = Cardinality(S) /\ t = Cardinality(T) /\ f = failures[b]
      OBVIOUS
    <3>4. s \in Nat /\ t \in Nat /\ f \in Nat /\ cancels \in Nat /\ t <= s + 1 /\ f + s <= cancels
      BY <3>1, <3>3, Bounds DEF TypeOK
    <3>5. f + t <= cancels + 1 /\ (cancels >= Threshold => cancels + 1 >= Threshold)
      BY <3>4, Bounds
    <3> QED
      BY <2>1, <3>1, <3>3, <3>5 DEF BlamedAt
  <2> QED
    BY <2>1, <2>2 DEF Blamed
<1>7. CASE FatalRace \/ ProxyTick \/ UNCHANGED proxyVars
  <2>1. UNCHANGED <<state, failures, pc, mine, failed, world>>
    BY <1>7 DEF FatalRace, ProxyTick, proxyVars, breaker
  <2>2. \A b \in Callers : Unheard(b)' \subseteq Unheard(b)
    BY <2>1 DEF Unheard
  <2> QED
    BY <1>1, <2>1, <2>2
<1>8. CASE BreakDown
  <2>1. outages' # 0
    BY <1>8, Bounds DEF BreakDown, TypeOK
  <2> QED
    BY <2>1 DEF Blamed
<1>9. CASE Repair
  <2>1. outages # 0 /\ outages' = outages
    BY <1>9 DEF Repair, Blamed
  <2> QED
    BY <2>1 DEF Blamed
<1> QED
  BY <1>2, <1>3, <1>4, <1>5, <1>6, <1>7, <1>8, <1>9 DEF ProxyNext, CallerStep

LEMMA BlamedFirst == ProxyInit => Blamed
<1> SUFFICES ASSUME ProxyInit PROVE ~ down /\ \A b \in Callers : BlamedAt(b)
  BY DEF Blamed
<1>1. ASSUME NEW b \in Callers PROVE BlamedAt(b)
  <2>1. Unheard(b) = {} /\ failures[b] = 0 /\ cancels = 0 /\ state[b] = "closed"
    BY DEF ProxyInit, Unheard
  <2>2. IsFiniteSet(Unheard(b)) /\ Cardinality(Unheard(b)) = 0
    BY <2>1, FS_EmptySet
  <2> QED
    BY <2>1, <2>2 DEF BlamedAt
<1> QED
  BY <1>1 DEF ProxyInit

(* The safety half of CutOffOnlyWhileDown: as long as the service could    *)
(* always be reached, only as many users who left as the threshold open a  *)
(* circuit, whichever breakers the racing requests have stored.            *)
THEOREM OpensOnlyForAReason == ProxySpec => []OpensForAReason
<1>1. TypeOK /\ Blamed => OpensForAReason
  BY Bounds DEF TypeOK, Blamed, BlamedAt, OpensForAReason
<1> QED
  BY <1>1, BlamedFirst, BlamedStep, ProxyTypes, PTL DEF ProxySpec

-----------------------------------------------------------------------------
(* Induction over the naturals, for a set instead of a formula.            *)
LEMMA Counting ==
    ASSUME NEW P, 0 \in P, \A n \in Nat : n \in P => n + 1 \in P
    PROVE  \A n \in Nat : n \in P
<1> SUFFICES ASSUME NEW n0 \in Nat, n0 \notin P PROVE FALSE
  OBVIOUS
<1> DEFINE D == Nat \ P
           R == OpToRel(<, Nat)
<1>1. D \subseteq Nat /\ D # {}
  OBVIOUS
<1>2. IsWellFoundedOn(R, Nat)
  BY NatLessThanWellFounded, Zenon
<1>3. PICK d \in D : \A e \in D : <<e, d>> \notin R
  <2> HIDE DEF D, R
  <2> QED
    BY <1>1, <1>2, WFMin
<1>4. \A e \in D : ~ (e < d)
  BY <1>3, Zenon DEF OpToRel
<1>5. d \in Nat /\ d \notin P /\ d # 0
  OBVIOUS
<1>6. d - 1 \in Nat /\ d - 1 < d /\ (d - 1) + 1 = d
  BY <1>5
<1>7. d - 1 \in P
  BY <1>4, <1>6
<1> QED
  BY <1>5, <1>6, <1>7

(* The iteration by which the community modules define a sum.              *)
Value(f, F, s) == IF s = {} THEN 0 ELSE LET x == CHOOSE x \in s : TRUE IN f[x] + F[s \ {x}]
Iterates(F, f, S) == F = [s \in SUBSET S |-> Value(f, F, s)]

LEMMA SumIsIteration ==
    ASSUME NEW f, NEW S
    PROVE  SumOf(f, S) = (CHOOSE F : Iterates(F, f, S))[S]
BY DEF SumOf, FoldFunctionOnSet, MapThenFoldSet, Iterates, Value

Sized(S, n) == {s \in SUBSET S : Cardinality(s) <= n}

LEMMA Sizes ==
    ASSUME NEW S, IsFiniteSet(S)
    PROVE  \A s \in SUBSET S :
             /\ IsFiniteSet(s) /\ Cardinality(s) \in Nat /\ Cardinality(s) <= Cardinality(S)
             /\ s # {} => /\ (CHOOSE x \in s : TRUE) \in s
             /\ \A x \in s : /\ s \ {x} \in SUBSET S
                             /\ Cardinality(s \ {x}) = Cardinality(s) - 1
                             /\ Cardinality(s \ {x}) \in Nat
             /\ Cardinality(s) = 0 => s = {}
<1> SUFFICES ASSUME NEW s \in SUBSET S
             PROVE  /\ IsFiniteSet(s) /\ Cardinality(s) \in Nat /\ Cardinality(s) <= Cardinality(S)
                    /\ s # {} => /\ (CHOOSE x \in s : TRUE) \in s
                    /\ \A x \in s : /\ s \ {x} \in SUBSET S
                             /\ Cardinality(s \ {x}) = Cardinality(s) - 1
                             /\ Cardinality(s \ {x}) \in Nat
                    /\ Cardinality(s) = 0 => s = {}
  OBVIOUS
<1>1. IsFiniteSet(s) /\ Cardinality(s) <= Cardinality(S)
  BY FS_Subset
<1>2. Cardinality(s) \in Nat /\ (Cardinality(s) = 0 => s = {})
  BY <1>1, FS_CardinalityType, FS_EmptySet
<1>3. s # {} => (CHOOSE x \in s : TRUE) \in s
  OBVIOUS
<1>4. ASSUME NEW x \in s
      PROVE  /\ s \ {x} \in SUBSET S
             /\ Cardinality(s \ {x}) = Cardinality(s) - 1
             /\ Cardinality(s \ {x}) \in Nat
  <2>1. IsFiniteSet(s \ {x}) /\ Cardinality(s \ {x}) = Cardinality(s) - 1
    BY <1>1, FS_RemoveElement
  <2>2. Cardinality(s \ {x}) \in Nat
    BY <2>1, FS_CardinalityType
  <2> QED
    BY <2>1, <2>2
<1> QED
  BY <1>1, <1>2, <1>3, <1>4

(* It has a value on every finite set.                                     *)
LEMMA IterationExists ==
    ASSUME NEW S, IsFiniteSet(S), NEW f, \A x \in S : f[x] \in Nat
    PROVE  \E F \in [SUBSET S -> Nat] : Iterates(F, f, S)
<1> DEFINE Good(F, n) == \A s \in Sized(S, n) : F[s] = Value(f, F, s)
           P == {n \in Nat : \E F \in [SUBSET S -> Nat] : Good(F, n)}
<1>1. ASSUME NEW F \in [SUBSET S -> Nat], NEW s \in SUBSET S PROVE Value(f, F, s) \in Nat
  <2>1. CASE s # {}
    <3> DEFINE y == CHOOSE x \in s : TRUE
    <3>1. y \in S /\ s \ {y} \in SUBSET S
      BY <2>1
    <3>2. f[y] \in Nat /\ F[s \ {y}] \in Nat
      BY <3>1
    <3> QED
      BY <2>1, <3>2 DEF Value
  <2> QED
    BY <2>1 DEF Value
<1>2. 0 \in P
  <2> DEFINE F == [s \in SUBSET S |-> 0]
  <2>1. F \in [SUBSET S -> Nat]
    OBVIOUS
  <2>2. ASSUME NEW s \in Sized(S, 0) PROVE F[s] = Value(f, F, s)
    <3>1. s = {} /\ s \in SUBSET S
      BY Sizes DEF Sized
    <3> QED
      BY <3>1 DEF Value
  <2> QED
    BY <2>1, <2>2
<1>3. ASSUME NEW n \in Nat, n \in P PROVE n + 1 \in P
  <2>1. PICK F \in [SUBSET S -> Nat] : Good(F, n)
    BY <1>3
  <2> DEFINE G == [s \in SUBSET S |-> IF Cardinality(s) <= n THEN F[s] ELSE Value(f, F, s)]
  <2>2. G \in [SUBSET S -> Nat]
    BY <1>1
  <2>3. ASSUME NEW s \in Sized(S, n + 1) PROVE G[s] = Value(f, G, s)
    <3>0. s \in SUBSET S /\ Cardinality(s) <= n + 1
      BY DEF Sized
    <3>1. CASE s = {}
      BY <3>0, <3>1, <2>1, FS_EmptySet DEF Sized, Value
    <3>2. CASE s # {}
      <4> DEFINE y == CHOOSE x \in s : TRUE
      <4>1. y \in s /\ s \ {y} \in SUBSET S /\ Cardinality(s \ {y}) = Cardinality(s) - 1
            /\ Cardinality(s) \in Nat
        BY <3>0, <3>2, Sizes
      <4>2. G[s \ {y}] = F[s \ {y}]
        BY <3>0, <4>1
      <4>3. Value(f, G, s) = Value(f, F, s)
        BY <3>2, <4>2 DEF Value
      <4>4. G[s] = Value(f, F, s)
        BY <2>1, <3>0, <4>1 DEF Sized
      <4> QED
        BY <4>3, <4>4
    <3> QED
      BY <3>1, <3>2
  <2>4. Good(G, n + 1)
    BY <2>3
  <2> HIDE DEF Good, G
  <2> QED
    BY <2>2, <2>4
<1>4. Cardinality(S) \in P /\ Cardinality(S) \in Nat
  <2>1. \A n \in Nat : n \in P
    <3> HIDE DEF P
    <3> QED
      BY <1>2, <1>3, Counting
  <2> QED
    BY <2>1, FS_CardinalityType
<1>5. PICK F \in [SUBSET S -> Nat] : Good(F, Cardinality(S))
  BY <1>4
<1>6. \A s \in SUBSET S : F[s] = Value(f, F, s)
  BY <1>5, Sizes DEF Sized
<1>7. F = [s \in SUBSET S |-> Value(f, F, s)]
  BY <1>6
<1> QED
  BY <1>7 DEF Iterates

(* It is one value: what is below a set decides.                           *)
LEMMA IterationUnique ==
    ASSUME NEW S, IsFiniteSet(S), NEW T \in SUBSET S, NEW f, NEW g,
           \A x \in T : f[x] = g[x],
           NEW F, Iterates(F, f, S), NEW G, Iterates(G, g, T)
    PROVE  F[T] = G[T]
<1> DEFINE P == {n \in Nat : \A s \in SUBSET T : Cardinality(s) <= n => F[s] = G[s]}
<1>0. IsFiniteSet(T) /\ Cardinality(T) \in Nat
  BY Sizes
<1>1. /\ \A s \in SUBSET T : F[s] = Value(f, F, s)
      /\ \A s \in SUBSET T : G[s] = Value(g, G, s)
  <2>1. \A s \in SUBSET S : F[s] = Value(f, F, s)
    <3> DEFINE H == [s \in SUBSET S |-> Value(f, F, s)]
    <3>1. F = H
      BY Zenon DEF Iterates
    <3>2. \A s \in SUBSET S : H[s] = Value(f, F, s)
      OBVIOUS
    <3> HIDE DEF H
    <3> QED
      BY <3>1, <3>2
  <2>2. \A s \in SUBSET T : G[s] = Value(g, G, s)
    <3> DEFINE H == [s \in SUBSET T |-> Value(g, G, s)]
    <3>1. G = H
      BY Zenon DEF Iterates
    <3>2. \A s \in SUBSET T : H[s] = Value(g, G, s)
      OBVIOUS
    <3> HIDE DEF H
    <3> QED
      BY <3>1, <3>2
  <2> QED
    BY <2>1, <2>2
<1>2. 0 \in P
  <2>1. ASSUME NEW s \in SUBSET T, Cardinality(s) <= 0 PROVE F[s] = G[s]
    <3>1. s = {}
      BY <1>0, <2>1, Sizes
    <3> QED
      BY <1>1, <3>1 DEF Value
  <2> QED
    BY <2>1
<1>3. ASSUME NEW n \in Nat, n \in P PROVE n + 1 \in P
  <2>1. ASSUME NEW s \in SUBSET T, Cardinality(s) <= n + 1 PROVE F[s] = G[s]
    <3>1. CASE s = {}
      BY <1>1, <3>1 DEF Value
    <3>2. CASE s # {}
      <4> DEFINE y == CHOOSE x \in s : TRUE
      <4>1. y \in s /\ s \ {y} \in SUBSET T /\ Cardinality(s \ {y}) = Cardinality(s) - 1
            /\ Cardinality(s) \in Nat
        BY <1>0, <2>1, <3>2, Sizes
      <4>2. F[s \ {y}] = G[s \ {y}] /\ f[y] = g[y]
        BY <1>3, <2>1, <4>1
      <4>3. Value(f, F, s) = f[y] + F[s \ {y}] /\ Value(g, G, s) = g[y] + G[s \ {y}]
        BY <3>2 DEF Value
      <4> QED
        BY <1>1, <4>2, <4>3
    <3> QED
      BY <3>1, <3>2
  <2> QED
    BY <2>1
<1>4. Cardinality(T) \in P
  <2>1. \A n \in Nat : n \in P
    <3> HIDE DEF P
    <3> QED
      BY <1>2, <1>3, Counting
  <2> QED
    BY <2>1, <1>0
<1> QED
  BY <1>0, <1>4

(* The equation of a sum, in the order of the iteration.                   *)
LEMMA SumEmpty == ASSUME NEW f PROVE SumOf(f, {}) = 0
<1>1. IsFiniteSet({})
  BY FS_EmptySet
<1>2. \E F : Iterates(F, f, {})
  BY <1>1, IterationExists
<1> DEFINE F == CHOOSE F : Iterates(F, f, {})
<1>3. Iterates(F, f, {})
  BY <1>2
<1> HIDE DEF F
<1>4. F[{}] = Value(f, F, {})
  BY <1>3 DEF Iterates
<1> QED
  BY <1>4, SumIsIteration DEF Value, F

LEMMA SumFirst ==
    ASSUME NEW S, IsFiniteSet(S), S # {}, NEW f, \A x \in S : f[x] \in Nat
    PROVE  \E y \in S : SumOf(f, S) = f[y] + SumOf(f, S \ {y}) /\ SumOf(f, S) \in Nat
<1> DEFINE y == CHOOSE x \in S : TRUE
           T == S \ {y}
           F == CHOOSE F : Iterates(F, f, S)
           G == CHOOSE G : Iterates(G, f, T)
<1>1. y \in S /\ T \in SUBSET S /\ IsFiniteSet(T)
  BY FS_Subset
<1>2. PICK H \in [SUBSET S -> Nat] : Iterates(H, f, S)
  BY IterationExists
<1>3. Iterates(F, f, S)
  BY <1>2
<1>4. \E K : Iterates(K, f, T)
  BY <1>1, IterationExists
<1>5. Iterates(G, f, T)
  BY <1>4
<1>6. SumOf(f, S) = F[S] /\ SumOf(f, T) = G[T]
  BY SumIsIteration
<1> HIDE DEF F, G, T
<1>7. F[T] = G[T]
  BY <1>1, <1>3, <1>5, IterationUnique
<1>8. F[S] = H[S] /\ H[S] \in Nat
  <2>1. S \in SUBSET S
    OBVIOUS
  <2> QED
    BY <1>2, <1>3, <2>1, IterationUnique
<1>9. F[S] = Value(f, F, S)
  BY <1>3 DEF Iterates
<1>10. Value(f, F, S) = f[y] + F[T]
  BY DEF Value, T
<1> QED
  BY <1>1, <1>6, <1>7, <1>8, <1>9, <1>10 DEF T

LEMMA SumType ==
    ASSUME NEW S, IsFiniteSet(S), NEW f, \A x \in S : f[x] \in Nat
    PROVE  SumOf(f, S) \in Nat
<1>1. CASE S = {}
  BY <1>1, SumEmpty
<1>2. CASE S # {}
  BY <1>2, SumFirst
<1> QED
  BY <1>1, <1>2

(* Only the values on the set matter.                                      *)
LEMMA SumSame ==
    ASSUME NEW S, IsFiniteSet(S), NEW f, NEW g, \A x \in S : f[x] \in Nat /\ f[x] = g[x]
    PROVE  SumOf(f, S) = SumOf(g, S)
<1> DEFINE F == CHOOSE F : Iterates(F, f, S)
           G == CHOOSE G : Iterates(G, g, S)
<1>1. Iterates(F, f, S)
  BY IterationExists
<1>2. \E H : Iterates(H, g, S)
  BY IterationExists
<1>3. Iterates(G, g, S)
  BY <1>2
<1>4. SumOf(f, S) = F[S] /\ SumOf(g, S) = G[S]
  BY SumIsIteration
<1>5. S \in SUBSET S
  OBVIOUS
<1> HIDE DEF F, G
<1>6. F[S] = G[S]
  BY <1>1, <1>3, <1>5, IterationUnique
<1> QED
  BY <1>4, <1>6

(* A sum may be begun anywhere.                                            *)
LEMMA SumAny ==
    ASSUME NEW S, IsFiniteSet(S), NEW f, \A x \in S : f[x] \in Nat
    PROVE  \A x \in S : SumOf(f, S) = f[x] + SumOf(f, S \ {x})
<1> DEFINE Good(s) == \A x \in s : SumOf(f, s) = f[x] + SumOf(f, s \ {x})
           P == {n \in Nat : \A s \in SUBSET S : Cardinality(s) <= n => Good(s)}
<1>0. IsFiniteSet(S) /\ Cardinality(S) \in Nat /\ S \in SUBSET S
  BY Sizes
<1>1. 0 \in P
  <2>1. ASSUME NEW s \in SUBSET S, Cardinality(s) <= 0 PROVE Good(s)
    BY <2>1, Sizes
  <2> QED
    BY <2>1
<1>2. ASSUME NEW n \in Nat, n \in P PROVE n + 1 \in P
  <2>1. ASSUME NEW s \in SUBSET S, Cardinality(s) <= n + 1, NEW x \in s
        PROVE  SumOf(f, s) = f[x] + SumOf(f, s \ {x})
    <3>1. IsFiniteSet(s) /\ s # {} /\ (\A y \in s : f[y] \in Nat) /\ Cardinality(s) \in Nat
      BY Sizes
    <3>2. PICK y \in s : SumOf(f, s) = f[y] + SumOf(f, s \ {y})
      BY <3>1, SumFirst
    <3>3. CASE x = y
      BY <3>2, <3>3
    <3>4. CASE x # y
      <4> DEFINE t == s \ {x}  u == s \ {y}  v == (s \ {x}) \ {y}
      <4>1. /\ t \in SUBSET S /\ u \in SUBSET S /\ v = u \ {x} /\ v = t \ {y} /\ y \in t /\ x \in u
            /\ v \in SUBSET S
        BY <3>4
      <4>2. Cardinality(t) <= n /\ Cardinality(u) <= n
        BY <2>1, <3>1, Sizes
      <4>3. Good(t) /\ Good(u)
        BY <1>2, <4>1, <4>2
      <4>4. SumOf(f, t) = f[y] + SumOf(f, v) /\ SumOf(f, u) = f[x] + SumOf(f, v)
        BY <4>1, <4>3
      <4>5. SumOf(f, v) \in Nat /\ f[x] \in Nat /\ f[y] \in Nat
        <5>1. IsFiniteSet(v) /\ \A z \in v : f[z] \in Nat
          BY <4>1, Sizes
        <5>2. SumOf(f, v) \in Nat
          BY <5>1, SumType
        <5> QED
          BY <3>1, <5>2
      <4> QED
        BY <3>2, <4>4, <4>5
    <3> QED
      BY <3>3, <3>4
  <2> QED
    BY <2>1
<1>3. Cardinality(S) \in P
  <2>1. \A n \in Nat : n \in P
    <3> HIDE DEF P
    <3> QED
      BY <1>1, <1>2, Counting
  <2> QED
    BY <2>1, <1>0
<1> QED
  BY <1>0, <1>3

(* What changes at one place changes the sum by as much.                   *)
LEMMA SumChange ==
    ASSUME NEW S, IsFiniteSet(S), NEW f, NEW g, NEW x \in S,
           \A y \in S : f[y] \in Nat /\ g[y] \in Nat,
           \A y \in S \ {x} : g[y] = f[y]
    PROVE  /\ SumOf(f, S) \in Nat /\ SumOf(g, S) \in Nat
           /\ SumOf(g, S) + f[x] = SumOf(f, S) + g[x]
<1> DEFINE T == S \ {x}
<1>1. IsFiniteSet(T)
  BY FS_Subset
<1>2. SumOf(f, S) = f[x] + SumOf(f, T) /\ SumOf(g, S) = g[x] + SumOf(g, T)
  BY SumAny
<1>3. SumOf(f, T) = SumOf(g, T) /\ SumOf(f, T) \in Nat
  BY <1>1, SumSame, SumType
<1>4. SumOf(f, S) \in Nat /\ SumOf(g, S) \in Nat /\ f[x] \in Nat /\ g[x] \in Nat
  BY SumType
<1> HIDE DEF T
<1> QED
  BY <1>2, <1>3, <1>4

LEMMA SumZero ==
    ASSUME NEW S, IsFiniteSet(S), NEW f, \A x \in S : f[x] = 0
    PROVE  SumOf(f, S) = 0
<1> DEFINE P == {n \in Nat : \A s \in SUBSET S : Cardinality(s) <= n => SumOf(f, s) = 0}
<1>0. IsFiniteSet(S) /\ Cardinality(S) \in Nat /\ S \in SUBSET S
  BY Sizes
<1>1. 0 \in P
  <2>1. ASSUME NEW s \in SUBSET S, Cardinality(s) <= 0 PROVE SumOf(f, s) = 0
    <3>1. s = {}
      BY <2>1, Sizes
    <3> QED
      BY <3>1, SumEmpty
  <2> QED
    BY <2>1
<1>2. ASSUME NEW n \in Nat, n \in P PROVE n + 1 \in P
  <2>1. ASSUME NEW s \in SUBSET S, Cardinality(s) <= n + 1 PROVE SumOf(f, s) = 0
    <3>1. CASE s = {}
      BY <3>1, SumEmpty
    <3>2. CASE s # {}
      <4>1. IsFiniteSet(s) /\ \A x \in s : f[x] \in Nat
        BY Sizes
      <4>2. PICK y \in s : SumOf(f, s) = f[y] + SumOf(f, s \ {y})
        BY <3>2, <4>1, SumFirst
      <4>3. s \ {y} \in SUBSET S /\ Cardinality(s \ {y}) <= n
        BY <2>1, <4>1, Sizes
      <4>4. SumOf(f, s \ {y}) = 0 /\ f[y] = 0
        BY <1>2, <4>3
      <4> QED
        BY <4>2, <4>4
    <3> QED
      BY <3>1, <3>2
  <2> QED
    BY <2>1
<1>3. Cardinality(S) \in P
  <2>1. \A n \in Nat : n \in P
    <3> HIDE DEF P
    <3> QED
      BY <1>1, <1>2, Counting
  <2> QED
    BY <2>1, <1>0
<1> QED
  BY <1>0, <1>3

(* A sum of values that are at most m, and zero off a subset T.            *)
LEMMA SumBound ==
    ASSUME NEW S, IsFiniteSet(S), NEW f, NEW m \in Nat, NEW T \in SUBSET S,
           \A x \in S : f[x] \in Nat /\ f[x] <= m,
           \A x \in S \ T : f[x] = 0
    PROVE  SumOf(f, S) <= m * Cardinality(T)
<1> DEFINE P == {n \in Nat : \A s \in SUBSET S : Cardinality(s) <= n =>
                    SumOf(f, s) <= m * Cardinality(s \cap T)}
<1>0. IsFiniteSet(S) /\ Cardinality(S) \in Nat /\ S \in SUBSET S
  BY Sizes
<1>1. 0 \in P
  <2>1. ASSUME NEW s \in SUBSET S, Cardinality(s) <= 0 PROVE SumOf(f, s) <= m * Cardinality(s \cap T)
    <3>1. s = {} /\ s \cap T = {}
      BY <2>1, Sizes
    <3>2. SumOf(f, s) = 0 /\ Cardinality(s \cap T) = 0
      BY <3>1, SumEmpty, FS_EmptySet
    <3> QED
      BY <3>2
  <2> QED
    BY <2>1
<1>2. ASSUME NEW n \in Nat, n \in P PROVE n + 1 \in P
  <2>1. ASSUME NEW s \in SUBSET S, Cardinality(s) <= n + 1 PROVE SumOf(f, s) <= m * Cardinality(s \cap T)
    <3>1. CASE s = {}
      <4>1. s \cap T = {}
        BY <3>1
      <4>2. SumOf(f, s) = 0 /\ Cardinality(s \cap T) = 0
        BY <3>1, <4>1, SumEmpty, FS_EmptySet
      <4> QED
        BY <4>2
    <3>2. CASE s # {}
      <4>1. IsFiniteSet(s) /\ \A x \in s : f[x] \in Nat
        BY Sizes
      <4>2. PICK y \in s : SumOf(f, s) = f[y] + SumOf(f, s \ {y})
        BY <3>2, <4>1, SumFirst
      <4> DEFINE t == s \ {y}  a == Cardinality(s \cap T)  b == Cardinality(t \cap T)
      <4>3. t \in SUBSET S /\ Cardinality(t) <= n /\ IsFiniteSet(t) /\ \A x \in t : f[x] \in Nat
        BY <2>1, <4>1, Sizes
      <4>4. SumOf(f, t) <= m * b /\ SumOf(f, t) \in Nat
        BY <1>2, <4>3, SumType
      <4>5. IsFiniteSet(s \cap T) /\ IsFiniteSet(t \cap T)
        BY <4>1, <4>3, FS_Subset
      <4>6. a \in Nat /\ b \in Nat
        BY <4>5, FS_CardinalityType
      <4>7. CASE y \in T
        <5>1. t \cap T = (s \cap T) \ {y} /\ y \in s \cap T
          BY <4>7
        <5>2. b = a - 1
          <6>1. Cardinality((s \cap T) \ {y}) = Cardinality(s \cap T) - 1
            BY <4>5, <5>1, FS_RemoveElement
          <6>2. b = Cardinality((s \cap T) \ {y})
            BY <5>1
          <6> QED
            BY <6>1, <6>2
        <5>3. m * a = m * b + m
          BY <4>6, <5>2
        <5>4. f[y] <= m /\ f[y] \in Nat /\ m * b \in Nat
          BY <4>6
        <5> HIDE DEF a, b, t
        <5> QED
          BY <4>2, <4>4, <5>3, <5>4 DEF t, a
      <4>8. CASE y \notin T
        <5>1. t \cap T = s \cap T /\ f[y] = 0
          BY <4>8
        <5>2. b = a
          BY <5>1
        <5> HIDE DEF a, b, t
        <5> QED
          BY <4>2, <4>4, <5>1, <5>2 DEF t, a
      <4> QED
        BY <4>7, <4>8
    <3> QED
      BY <3>1, <3>2
  <2> QED
    BY <2>1
<1>3. Cardinality(S) \in P
  <2>1. \A n \in Nat : n \in P
    <3> HIDE DEF P
    <3> QED
      BY <1>1, <1>2, Counting
  <2> QED
    BY <2>1, <1>0
<1>4. S \cap T = T
  OBVIOUS
<1> QED
  BY <1>0, <1>3, <1>4

(* A finite set of naturals has a largest member.                          *)
LEMMA LargestExists ==
    ASSUME NEW S, S # {}, S \subseteq Nat, NEW n \in Nat, \A x \in S : x <= n
    PROVE  \E x \in S : \A y \in S : y <= x
<1> DEFINE D == {k \in Nat : \A y \in S : y <= k}
           R == OpToRel(<, Nat)
<1>1. D \subseteq Nat /\ D # {}
  OBVIOUS
<1>2. IsWellFoundedOn(R, Nat)
  BY NatLessThanWellFounded, Zenon
<1>3. PICK d \in D : \A e \in D : <<e, d>> \notin R
  <2> HIDE DEF D, R
  <2> QED
    BY <1>1, <1>2, WFMin
<1>4. \A e \in D : ~ (e < d)
  BY <1>3, Zenon DEF OpToRel
<1>5. d \in S
  <2>1. SUFFICES ASSUME d \notin S PROVE FALSE
    OBVIOUS
  <2>2. \A y \in S : y < d
    BY <2>1
  <2>3. PICK z \in S : z \in Nat
    OBVIOUS
  <2>4. d - 1 \in Nat /\ d - 1 < d /\ \A y \in S : y <= d - 1
    BY <2>2, <2>3
  <2>5. d - 1 \in D
    BY <2>4
  <2> QED
    BY <1>4, <2>4, <2>5
<1> QED
  BY <1>5

(* The router's list of models, as the iteration of the community modules. *)
Taken(s, x) == IF x = Unset \/ x \in ToSet(s) THEN s ELSE Append(s, x)
Grown(q, F, s) == IF s = {} THEN <<>> ELSE LET i == Max(s) IN Taken(F[s \ {i}], q[i])
Grows(F, q) == F = [s \in SUBSET DOMAIN q |-> Grown(q, F, s)]

LEMMA CandidatesGrow ==
    ASSUME NEW model, NEW fallbacks
    PROVE  LET q == <<model>> \o fallbacks
               named == (CHOOSE F : Grows(F, q))[DOMAIN q]
           IN  Candidates(model, fallbacks) = IF named = <<>> THEN <<DefaultModel>> ELSE named
BY DEF Candidates, FoldLeft, MapThenFoldSet, Grows, Grown, Taken

LEMMA TakenType ==
    ASSUME NEW s \in Seq(Models), NEW x \in Named
    PROVE  Taken(s, x) \in Seq(Models)
BY DEF Taken, Named

LEMMA Largest ==
    ASSUME NEW n \in Nat, NEW s \in SUBSET (1 .. n), s # {}
    PROVE  Max(s) \in s
<1>1. s \subseteq Nat /\ \A x \in s : x <= n
  OBVIOUS
<1>2. \E x \in s : \A y \in s : y <= x
  BY <1>1, LargestExists
<1>3. \E x \in s : \A y \in s : x >= y
  BY <1>1, <1>2
<1> QED
  BY <1>3 DEF Max

LEMMA GrowthExists ==
    ASSUME NEW q \in Seq(Named)
    PROVE  \E F \in [SUBSET DOMAIN q -> Seq(Models)] : Grows(F, q)
<1> DEFINE S == DOMAIN q
           Good(F, n) == \A s \in Sized(S, n) : F[s] = Grown(q, F, s)
           P == {n \in Nat : \E F \in [SUBSET S -> Seq(Models)] : Good(F, n)}
<1>0. S = 1 .. Len(q) /\ IsFiniteSet(S) /\ Len(q) \in Nat
  BY FS_Interval
<1>1. ASSUME NEW F \in [SUBSET S -> Seq(Models)], NEW s \in SUBSET S
      PROVE  Grown(q, F, s) \in Seq(Models)
  <2>1. CASE s # {}
    <3>1. Max(s) \in s
      BY <1>0, <2>1, Largest
    <3>2. Max(s) \in S /\ s \ {Max(s)} \in SUBSET S /\ q[Max(s)] \in Named
      BY <3>1
    <3>3. F[s \ {Max(s)}] \in Seq(Models)
      BY <3>2
    <3>4. Taken(F[s \ {Max(s)}], q[Max(s)]) \in Seq(Models)
      BY <3>2, <3>3, TakenType
    <3> QED
      BY <2>1, <3>4 DEF Grown
  <2> QED
    BY <2>1 DEF Grown
<1>2. 0 \in P
  <2> DEFINE F == [s \in SUBSET S |-> <<>>]
  <2>1. F \in [SUBSET S -> Seq(Models)]
    OBVIOUS
  <2>2. ASSUME NEW s \in Sized(S, 0) PROVE F[s] = Grown(q, F, s)
    <3>1. s = {} /\ s \in SUBSET S
      BY <1>0, Sizes DEF Sized
    <3> QED
      BY <3>1 DEF Grown
  <2> QED
    BY <2>1, <2>2
<1>3. ASSUME NEW n \in Nat, n \in P PROVE n + 1 \in P
  <2>1. PICK F \in [SUBSET S -> Seq(Models)] : Good(F, n)
    BY <1>3
  <2> DEFINE G == [s \in SUBSET S |-> IF Cardinality(s) <= n THEN F[s] ELSE Grown(q, F, s)]
  <2>2. G \in [SUBSET S -> Seq(Models)]
    BY <1>1
  <2>3. ASSUME NEW s \in Sized(S, n + 1) PROVE G[s] = Grown(q, G, s)
    <3>0. s \in SUBSET S /\ Cardinality(s) <= n + 1
      BY DEF Sized
    <3>1. CASE s = {}
      <4>1. Cardinality(s) = 0 /\ Cardinality(s) <= n
        BY <3>1, FS_EmptySet
      <4>2. F[s] = Grown(q, F, s)
        BY <2>1, <3>0, <4>1 DEF Sized
      <4> QED
        BY <3>0, <3>1, <4>1, <4>2 DEF Grown
    <3>2. CASE s # {}
      <4> DEFINE y == Max(s)
      <4>0. y \in s
        BY <1>0, <3>0, <3>2, Largest
      <4>1. s \ {y} \in SUBSET S /\ Cardinality(s \ {y}) = Cardinality(s) - 1
            /\ Cardinality(s) \in Nat
        BY <1>0, <3>0, <3>2, <4>0, Sizes
      <4>2. G[s \ {y}] = F[s \ {y}]
        BY <3>0, <4>1
      <4>3. Grown(q, G, s) = Grown(q, F, s)
        BY <3>2, <4>2 DEF Grown
      <4>4. G[s] = Grown(q, F, s)
        BY <2>1, <3>0, <4>1 DEF Sized
      <4> QED
        BY <4>3, <4>4
    <3> QED
      BY <3>1, <3>2
  <2>4. Good(G, n + 1)
    BY <2>3
  <2> HIDE DEF Good, G
  <2> QED
    BY <2>2, <2>4
<1>4. Cardinality(S) \in P /\ Cardinality(S) \in Nat
  <2>1. \A n \in Nat : n \in P
    <3> HIDE DEF P
    <3> QED
      BY <1>2, <1>3, Counting
  <2> QED
    BY <1>0, <2>1, FS_CardinalityType
<1>5. PICK F \in [SUBSET S -> Seq(Models)] : Good(F, Cardinality(S))
  BY <1>4
<1>6. \A s \in SUBSET S : F[s] = Grown(q, F, s)
  BY <1>0, <1>5, Sizes DEF Sized
<1>7. F = [s \in SUBSET S |-> Grown(q, F, s)]
  BY <1>6
<1> QED
  BY <1>7 DEF Grows

LEMMA GrowthUnique ==
    ASSUME NEW q \in Seq(Named), NEW F, Grows(F, q), NEW G, Grows(G, q)
    PROVE  F[DOMAIN q] = G[DOMAIN q]
<1> DEFINE S == DOMAIN q
           P == {n \in Nat : \A s \in SUBSET S : Cardinality(s) <= n => F[s] = G[s]}
<1>0. S = 1 .. Len(q) /\ IsFiniteSet(S) /\ Cardinality(S) \in Nat /\ Len(q) \in Nat
  BY FS_Interval, FS_CardinalityType
<1>1. /\ \A s \in SUBSET S : F[s] = Grown(q, F, s)
      /\ \A s \in SUBSET S : G[s] = Grown(q, G, s)
  <2> DEFINE H1 == [s \in SUBSET S |-> Grown(q, F, s)]
             H2 == [s \in SUBSET S |-> Grown(q, G, s)]
  <2>1. F = H1 /\ G = H2
    BY Zenon DEF Grows
  <2>2. \A s \in SUBSET S : H1[s] = Grown(q, F, s) /\ H2[s] = Grown(q, G, s)
    OBVIOUS
  <2> HIDE DEF H1, H2
  <2> QED
    BY <2>1, <2>2
<1>2. 0 \in P
  <2>1. ASSUME NEW s \in SUBSET S, Cardinality(s) <= 0 PROVE F[s] = G[s]
    <3>1. s = {}
      BY <1>0, <2>1, Sizes
    <3> QED
      BY <1>1, <3>1 DEF Grown
  <2> QED
    BY <2>1
<1>3. ASSUME NEW n \in Nat, n \in P PROVE n + 1 \in P
  <2>1. ASSUME NEW s \in SUBSET S, Cardinality(s) <= n + 1 PROVE F[s] = G[s]
    <3>1. CASE s = {}
      BY <1>1, <3>1 DEF Grown
    <3>2. CASE s # {}
      <4> DEFINE y == Max(s)
      <4>0. y \in s
        BY <1>0, <3>2, Largest
      <4>1. s \ {y} \in SUBSET S /\ Cardinality(s \ {y}) = Cardinality(s) - 1
            /\ Cardinality(s) \in Nat
        BY <1>0, <3>2, <4>0, Sizes
      <4>2. F[s \ {y}] = G[s \ {y}]
        BY <1>3, <2>1, <4>1
      <4>3. Grown(q, F, s) = Taken(F[s \ {y}], q[y]) /\ Grown(q, G, s) = Taken(G[s \ {y}], q[y])
        BY <3>2 DEF Grown
      <4> QED
        BY <1>1, <4>2, <4>3
    <3> QED
      BY <3>1, <3>2
  <2> QED
    BY <2>1
<1>4. Cardinality(S) \in P
  <2>1. \A n \in Nat : n \in P
    <3> HIDE DEF P
    <3> QED
      BY <1>2, <1>3, Counting
  <2> QED
    BY <2>1, <1>0
<1> QED
  BY <1>0, <1>4

(* The router names known models only.                                     *)
LEMMA CandidatesType ==
    ASSUME NEW model \in Named, NEW fallbacks \in Seq(Named)
    PROVE  Candidates(model, fallbacks) \in Seq(Models)
<1> DEFINE q == <<model>> \o fallbacks
           F == CHOOSE F : Grows(F, q)
<1>1. q \in Seq(Named)
  OBVIOUS
<1>2. PICK G \in [SUBSET DOMAIN q -> Seq(Models)] : Grows(G, q)
  BY <1>1, GrowthExists
<1>3. Grows(F, q)
  BY <1>2
<1> HIDE DEF F
<1>4. F[DOMAIN q] = G[DOMAIN q]
  BY <1>1, <1>2, <1>3, GrowthUnique
<1>5. F[DOMAIN q] \in Seq(Models)
  BY <1>4
<1>6. DefaultModel \in Models
  BY CallsAssumption
<1>7. Candidates(model, fallbacks) = IF F[DOMAIN q] = <<>> THEN <<DefaultModel>> ELSE F[DOMAIN q]
  BY CandidatesGrow DEF F
<1> QED
  BY <1>5, <1>6, <1>7

LEMMA RouteType ==
    ASSUME NEW task \in Tasks
    PROVE  LET q == RouteRequest(task, Unset)
           IN  q.task = task /\ Candidates(q.model, q.fallbacks) \in Seq(Models)
<1> DEFINE route == GetRoute(task)
<1>1. task # Unset
  BY CallsAssumption
<1>2. route \in {SpareRoute} \cup {Routes[t] : t \in DOMAIN Routes}
  BY DEF GetRoute
<1>3. route.model \in Named /\ route.fallbacks \in Seq(Named)
  BY <1>2, CallsAssumption
<1>4. Candidates(route.model, route.fallbacks) \in Seq(Models)
  BY <1>3, CandidatesType
<1> QED
  BY <1>1, <1>4 DEF RouteRequest
(* What a call may still have to do, plain or streamed.                    *)
PlainTodos ==
    {<<"lookup", "check", "call", "window", "inst", "user", "task", "global", "keep">>,
     <<"check", "call", "window", "inst", "user", "task", "global", "keep">>,
     <<"call", "window", "inst", "user", "task", "global", "keep">>,
     <<"window", "inst", "user", "task", "global", "keep">>,
     <<"inst", "user", "task", "global", "keep">>,
     <<"user", "task", "global", "keep">>,
     <<"task", "global", "keep">>,
     <<"global", "keep">>,
     <<"keep">>}
StreamTodos ==
    {<<"check", "call", "stream", "window", "inst", "user", "task", "global">>,
     <<"call", "stream", "window", "inst", "user", "task", "global">>,
     <<"stream", "window", "inst", "user", "task", "global">>,
     <<"window", "inst", "user", "task", "global">>,
     <<"inst", "user", "task", "global">>,
     <<"user", "task", "global">>,
     <<"task", "global">>,
     <<"global">>}

(* What comes next, and what is still to come.                             *)
LEMMA PlainEnds ==
    ASSUME NEW todo \in PlainTodos
    PROVE  /\ todo # <<>> /\ Head(todo) \in {"lookup", "check", "call", "window", "inst", "user", "task", "global", "keep"}
           /\ Head(todo) = "keep" => Len(todo) = 1
           /\ Head(todo) # "keep" => Len(todo) # 1 /\ Tail(todo) \in PlainTodos
           /\ Head(todo) = "lookup" => Head(Tail(todo)) = "check"
           /\ Head(todo) = "check" => Head(Tail(todo)) = "call"
           /\ Head(todo) = "call" => Head(Tail(todo)) = "window"
           /\ Head(todo) = "window" => Head(Tail(todo)) = "inst"
           /\ Head(todo) = "inst" => Head(Tail(todo)) = "user"
           /\ Head(todo) = "user" => Head(Tail(todo)) = "task"
           /\ Head(todo) = "task" => Head(Tail(todo)) = "global"
           /\ Head(todo) = "global" => Head(Tail(todo)) = "keep"
           /\ "call" \in ToSet(todo) <=> Head(todo) \in {"lookup", "check", "call"}
           /\ "window" \in ToSet(todo) <=> Head(todo) \in {"lookup", "check", "call", "window"}
           /\ "stream" \notin ToSet(todo)
           /\ "keep" \in ToSet(todo)
<1> DEFINE Onwards ==
           /\ todo # <<>> /\ Head(todo) \in {"lookup", "check", "call", "window", "inst", "user", "task", "global", "keep"}
           /\ Head(todo) = "keep" => Len(todo) = 1
           /\ Head(todo) # "keep" => Len(todo) # 1 /\ Tail(todo) \in PlainTodos
           /\ Head(todo) = "lookup" => Head(Tail(todo)) = "check"
           /\ Head(todo) = "check" => Head(Tail(todo)) = "call"
           /\ Head(todo) = "call" => Head(Tail(todo)) = "window"
           /\ Head(todo) = "window" => Head(Tail(todo)) = "inst"
           /\ Head(todo) = "inst" => Head(Tail(todo)) = "user"
           /\ Head(todo) = "user" => Head(Tail(todo)) = "task"
           /\ Head(todo) = "task" => Head(Tail(todo)) = "global"
           /\ Head(todo) = "global" => Head(Tail(todo)) = "keep"
           Later ==
           /\ "call" \in ToSet(todo) <=> Head(todo) \in {"lookup", "check", "call"}
           /\ "window" \in ToSet(todo) <=> Head(todo) \in {"lookup", "check", "call", "window"}
           /\ "stream" \notin ToSet(todo)
           /\ "keep" \in ToSet(todo)
<1>1. ASSUME todo = <<"lookup", "check", "call", "window", "inst", "user", "task", "global", "keep">> PROVE Onwards /\ Later
  <2>1. ToSet(todo) = {"lookup", "check", "call", "window", "inst", "user", "task", "global", "keep"}
    BY <1>1 DEF ToSet
  <2>2. todo # <<>> /\ Head(todo) = "lookup" /\ Len(todo) = 9 /\ Tail(todo) = <<"check", "call", "window", "inst", "user", "task", "global", "keep">>
    BY <1>1
  <2>3. Head(Tail(todo)) = "check" /\ Tail(todo) \in PlainTodos
    BY <2>2 DEF PlainTodos
  <2>4. Onwards
    BY <2>2, <2>3
  <2>5. Later
    BY <2>1, <2>2
  <2> QED
    BY <2>4, <2>5
<1>2. ASSUME todo = <<"check", "call", "window", "inst", "user", "task", "global", "keep">> PROVE Onwards /\ Later
  <2>1. ToSet(todo) = {"check", "call", "window", "inst", "user", "task", "global", "keep"}
    BY <1>2 DEF ToSet
  <2>2. todo # <<>> /\ Head(todo) = "check" /\ Len(todo) = 8 /\ Tail(todo) = <<"call", "window", "inst", "user", "task", "global", "keep">>
    BY <1>2
  <2>3. Head(Tail(todo)) = "call" /\ Tail(todo) \in PlainTodos
    BY <2>2 DEF PlainTodos
  <2>4. Onwards
    BY <2>2, <2>3
  <2>5. Later
    BY <2>1, <2>2
  <2> QED
    BY <2>4, <2>5
<1>3. ASSUME todo = <<"call", "window", "inst", "user", "task", "global", "keep">> PROVE Onwards /\ Later
  <2>1. ToSet(todo) = {"call", "window", "inst", "user", "task", "global", "keep"}
    BY <1>3 DEF ToSet
  <2>2. todo # <<>> /\ Head(todo) = "call" /\ Len(todo) = 7 /\ Tail(todo) = <<"window", "inst", "user", "task", "global", "keep">>
    BY <1>3
  <2>3. Head(Tail(todo)) = "window" /\ Tail(todo) \in PlainTodos
    BY <2>2 DEF PlainTodos
  <2>4. Onwards
    BY <2>2, <2>3
  <2>5. Later
    BY <2>1, <2>2
  <2> QED
    BY <2>4, <2>5
<1>4. ASSUME todo = <<"window", "inst", "user", "task", "global", "keep">> PROVE Onwards /\ Later
  <2>1. ToSet(todo) = {"window", "inst", "user", "task", "global", "keep"}
    BY <1>4 DEF ToSet
  <2>2. todo # <<>> /\ Head(todo) = "window" /\ Len(todo) = 6 /\ Tail(todo) = <<"inst", "user", "task", "global", "keep">>
    BY <1>4
  <2>3. Head(Tail(todo)) = "inst" /\ Tail(todo) \in PlainTodos
    BY <2>2 DEF PlainTodos
  <2>4. Onwards
    BY <2>2, <2>3
  <2>5. Later
    BY <2>1, <2>2
  <2> QED
    BY <2>4, <2>5
<1>5. ASSUME todo = <<"inst", "user", "task", "global", "keep">> PROVE Onwards /\ Later
  <2>1. ToSet(todo) = {"inst", "user", "task", "global", "keep"}
    BY <1>5 DEF ToSet
  <2>2. todo # <<>> /\ Head(todo) = "inst" /\ Len(todo) = 5 /\ Tail(todo) = <<"user", "task", "global", "keep">>
    BY <1>5
  <2>3. Head(Tail(todo)) = "user" /\ Tail(todo) \in PlainTodos
    BY <2>2 DEF PlainTodos
  <2>4. Onwards
    BY <2>2, <2>3
  <2>5. Later
    BY <2>1, <2>2
  <2> QED
    BY <2>4, <2>5
<1>6. ASSUME todo = <<"user", "task", "global", "keep">> PROVE Onwards /\ Later
  <2>1. ToSet(todo) = {"user", "task", "global", "keep"}
    BY <1>6 DEF ToSet
  <2>2. todo # <<>> /\ Head(todo) = "user" /\ Len(todo) = 4 /\ Tail(todo) = <<"task", "global", "keep">>
    BY <1>6
  <2>3. Head(Tail(todo)) = "task" /\ Tail(todo) \in PlainTodos
    BY <2>2 DEF PlainTodos
  <2>4. Onwards
    BY <2>2, <2>3
  <2>5. Later
    BY <2>1, <2>2
  <2> QED
    BY <2>4, <2>5
<1>7. ASSUME todo = <<"task", "global", "keep">> PROVE Onwards /\ Later
  <2>1. ToSet(todo) = {"task", "global", "keep"}
    BY <1>7 DEF ToSet
  <2>2. todo # <<>> /\ Head(todo) = "task" /\ Len(todo) = 3 /\ Tail(todo) = <<"global", "keep">>
    BY <1>7
  <2>3. Head(Tail(todo)) = "global" /\ Tail(todo) \in PlainTodos
    BY <2>2 DEF PlainTodos
  <2>4. Onwards
    BY <2>2, <2>3
  <2>5. Later
    BY <2>1, <2>2
  <2> QED
    BY <2>4, <2>5
<1>8. ASSUME todo = <<"global", "keep">> PROVE Onwards /\ Later
  <2>1. ToSet(todo) = {"global", "keep"}
    BY <1>8 DEF ToSet
  <2>2. todo # <<>> /\ Head(todo) = "global" /\ Len(todo) = 2 /\ Tail(todo) = <<"keep">>
    BY <1>8
  <2>3. Head(Tail(todo)) = "keep" /\ Tail(todo) \in PlainTodos
    BY <2>2 DEF PlainTodos
  <2>4. Onwards
    BY <2>2, <2>3
  <2>5. Later
    BY <2>1, <2>2
  <2> QED
    BY <2>4, <2>5
<1>9. ASSUME todo = <<"keep">> PROVE Onwards /\ Later
  <2>1. ToSet(todo) = {"keep"}
    BY <1>9 DEF ToSet
  <2>2. todo # <<>> /\ Head(todo) = "keep" /\ Len(todo) = 1 /\ Tail(todo) = <<>>
    BY <1>9
  <2>4. Onwards
    BY <2>2
  <2>5. Later
    BY <2>1, <2>2
  <2> QED
    BY <2>4, <2>5
<1> HIDE DEF Onwards, Later
<1>10. Onwards /\ Later
  BY <1>1, <1>2, <1>3, <1>4, <1>5, <1>6, <1>7, <1>8, <1>9 DEF PlainTodos
<1> QED
  BY <1>10 DEF Onwards, Later

LEMMA StreamEnds ==
    ASSUME NEW todo \in StreamTodos
    PROVE  /\ todo # <<>> /\ Head(todo) \in {"check", "call", "stream", "window", "inst", "user", "task", "global"}
           /\ Head(todo) = "global" => Len(todo) = 1
           /\ Head(todo) # "global" => Len(todo) # 1 /\ Tail(todo) \in StreamTodos
           /\ Head(todo) = "check" => Head(Tail(todo)) = "call"
           /\ Head(todo) = "call" => Head(Tail(todo)) = "stream"
           /\ Head(todo) = "stream" => Head(Tail(todo)) = "window"
           /\ Head(todo) = "window" => Head(Tail(todo)) = "inst"
           /\ Head(todo) = "inst" => Head(Tail(todo)) = "user"
           /\ Head(todo) = "user" => Head(Tail(todo)) = "task"
           /\ Head(todo) = "task" => Head(Tail(todo)) = "global"
           /\ "call" \in ToSet(todo) <=> Head(todo) \in {"check", "call"}
           /\ "window" \in ToSet(todo) <=> Head(todo) \in {"check", "call", "stream", "window"}
           /\ "stream" \in ToSet(todo) <=> Head(todo) \in {"check", "call", "stream"}
           /\ "keep" \notin ToSet(todo)
<1> DEFINE Onwards ==
           /\ todo # <<>> /\ Head(todo) \in {"check", "call", "stream", "window", "inst", "user", "task", "global"}
           /\ Head(todo) = "global" => Len(todo) = 1
           /\ Head(todo) # "global" => Len(todo) # 1 /\ Tail(todo) \in StreamTodos
           /\ Head(todo) = "check" => Head(Tail(todo)) = "call"
           /\ Head(todo) = "call" => Head(Tail(todo)) = "stream"
           /\ Head(todo) = "stream" => Head(Tail(todo)) = "window"
           /\ Head(todo) = "window" => Head(Tail(todo)) = "inst"
           /\ Head(todo) = "inst" => Head(Tail(todo)) = "user"
           /\ Head(todo) = "user" => Head(Tail(todo)) = "task"
           /\ Head(todo) = "task" => Head(Tail(todo)) = "global"
           Later ==
           /\ "call" \in ToSet(todo) <=> Head(todo) \in {"check", "call"}
           /\ "window" \in ToSet(todo) <=> Head(todo) \in {"check", "call", "stream", "window"}
           /\ "stream" \in ToSet(todo) <=> Head(todo) \in {"check", "call", "stream"}
           /\ "keep" \notin ToSet(todo)
<1>1. ASSUME todo = <<"check", "call", "stream", "window", "inst", "user", "task", "global">> PROVE Onwards /\ Later
  <2>1. ToSet(todo) = {"check", "call", "stream", "window", "inst", "user", "task", "global"}
    BY <1>1 DEF ToSet
  <2>2. todo # <<>> /\ Head(todo) = "check" /\ Len(todo) = 8 /\ Tail(todo) = <<"call", "stream", "window", "inst", "user", "task", "global">>
    BY <1>1
  <2>3. Head(Tail(todo)) = "call" /\ Tail(todo) \in StreamTodos
    BY <2>2 DEF StreamTodos
  <2>4. Onwards
    BY <2>2, <2>3
  <2>5. Later
    BY <2>1, <2>2
  <2> QED
    BY <2>4, <2>5
<1>2. ASSUME todo = <<"call", "stream", "window", "inst", "user", "task", "global">> PROVE Onwards /\ Later
  <2>1. ToSet(todo) = {"call", "stream", "window", "inst", "user", "task", "global"}
    BY <1>2 DEF ToSet
  <2>2. todo # <<>> /\ Head(todo) = "call" /\ Len(todo) = 7 /\ Tail(todo) = <<"stream", "window", "inst", "user", "task", "global">>
    BY <1>2
  <2>3. Head(Tail(todo)) = "stream" /\ Tail(todo) \in StreamTodos
    BY <2>2 DEF StreamTodos
  <2>4. Onwards
    BY <2>2, <2>3
  <2>5. Later
    BY <2>1, <2>2
  <2> QED
    BY <2>4, <2>5
<1>3. ASSUME todo = <<"stream", "window", "inst", "user", "task", "global">> PROVE Onwards /\ Later
  <2>1. ToSet(todo) = {"stream", "window", "inst", "user", "task", "global"}
    BY <1>3 DEF ToSet
  <2>2. todo # <<>> /\ Head(todo) = "stream" /\ Len(todo) = 6 /\ Tail(todo) = <<"window", "inst", "user", "task", "global">>
    BY <1>3
  <2>3. Head(Tail(todo)) = "window" /\ Tail(todo) \in StreamTodos
    BY <2>2 DEF StreamTodos
  <2>4. Onwards
    BY <2>2, <2>3
  <2>5. Later
    BY <2>1, <2>2
  <2> QED
    BY <2>4, <2>5
<1>4. ASSUME todo = <<"window", "inst", "user", "task", "global">> PROVE Onwards /\ Later
  <2>1. ToSet(todo) = {"window", "inst", "user", "task", "global"}
    BY <1>4 DEF ToSet
  <2>2. todo # <<>> /\ Head(todo) = "window" /\ Len(todo) = 5 /\ Tail(todo) = <<"inst", "user", "task", "global">>
    BY <1>4
  <2>3. Head(Tail(todo)) = "inst" /\ Tail(todo) \in StreamTodos
    BY <2>2 DEF StreamTodos
  <2>4. Onwards
    BY <2>2, <2>3
  <2>5. Later
    BY <2>1, <2>2
  <2> QED
    BY <2>4, <2>5
<1>5. ASSUME todo = <<"inst", "user", "task", "global">> PROVE Onwards /\ Later
  <2>1. ToSet(todo) = {"inst", "user", "task", "global"}
    BY <1>5 DEF ToSet
  <2>2. todo # <<>> /\ Head(todo) = "inst" /\ Len(todo) = 4 /\ Tail(todo) = <<"user", "task", "global">>
    BY <1>5
  <2>3. Head(Tail(todo)) = "user" /\ Tail(todo) \in StreamTodos
    BY <2>2 DEF StreamTodos
  <2>4. Onwards
    BY <2>2, <2>3
  <2>5. Later
    BY <2>1, <2>2
  <2> QED
    BY <2>4, <2>5
<1>6. ASSUME todo = <<"user", "task", "global">> PROVE Onwards /\ Later
  <2>1. ToSet(todo) = {"user", "task", "global"}
    BY <1>6 DEF ToSet
  <2>2. todo # <<>> /\ Head(todo) = "user" /\ Len(todo) = 3 /\ Tail(todo) = <<"task", "global">>
    BY <1>6
  <2>3. Head(Tail(todo)) = "task" /\ Tail(todo) \in StreamTodos
    BY <2>2 DEF StreamTodos
  <2>4. Onwards
    BY <2>2, <2>3
  <2>5. Later
    BY <2>1, <2>2
  <2> QED
    BY <2>4, <2>5
<1>7. ASSUME todo = <<"task", "global">> PROVE Onwards /\ Later
  <2>1. ToSet(todo) = {"task", "global"}
    BY <1>7 DEF ToSet
  <2>2. todo # <<>> /\ Head(todo) = "task" /\ Len(todo) = 2 /\ Tail(todo) = <<"global">>
    BY <1>7
  <2>3. Head(Tail(todo)) = "global" /\ Tail(todo) \in StreamTodos
    BY <2>2 DEF StreamTodos
  <2>4. Onwards
    BY <2>2, <2>3
  <2>5. Later
    BY <2>1, <2>2
  <2> QED
    BY <2>4, <2>5
<1>8. ASSUME todo = <<"global">> PROVE Onwards /\ Later
  <2>1. ToSet(todo) = {"global"}
    BY <1>8 DEF ToSet
  <2>2. todo # <<>> /\ Head(todo) = "global" /\ Len(todo) = 1 /\ Tail(todo) = <<>>
    BY <1>8
  <2>4. Onwards
    BY <2>2
  <2>5. Later
    BY <2>1, <2>2
  <2> QED
    BY <2>4, <2>5
<1> HIDE DEF Onwards, Later
<1>9. Onwards /\ Later
  BY <1>1, <1>2, <1>3, <1>4, <1>5, <1>6, <1>7, <1>8 DEF StreamTodos
<1> QED
  BY <1>9 DEF Onwards, Later

-----------------------------------------------------------------------------
(* Types.                                                                  *)
Costs == {n \in Nat : n <= MaxCost}
Lines == {"line", "usage", "error"}
Ends == {"open", "done", "cut", "failed", "stopped"}
CallRecord ==
    [todo : PlainTodos \cup StreamTodos, user : Users, inst : Institutions, prompt : Prompts,
     task : Tasks, models : Seq(Models), cost : Costs, known : BOOLEAN, live : BOOLEAN,
     out : Seq(Lines), sent : Nat, taken : Nat, lost : Nat, end : Ends, late : Nat]
TypeInv ==
    /\ call \in [Calls -> {Idle} \cup CallRecord]
    /\ now \in Times /\ faults \in Nat
    /\ billed \in [Institutions -> [Times -> Nat]]
    /\ spend \in [Institutions -> [Times -> Nat]]
    /\ recorded \in [Institutions -> [Times -> Nat]]
    /\ until \in [Institutions -> Nat] /\ purged \in [Institutions -> Nat]
    /\ total \in [Keys -> Nat]
    /\ ceiling \in [Institutions -> Ceilings \cup {Unset}]
    /\ cached \subseteq Prompts /\ begun \in Nat /\ changes \in Nat
    /\ paid \in [Prompts -> Nat] /\ raced \in [Prompts -> Nat]

LEMMA Numbers ==
    /\ Room \in Nat /\ Room > 0 /\ MaxLines \in Nat /\ MaxLines > 0 /\ MaxTime \in Nat /\ MaxFaults \in Nat
    /\ Estimate \in Nat /\ KeyLife \in Nat /\ MaxCalls \in Nat /\ MaxChanges \in Nat
    /\ IsFiniteSet(Calls) /\ IsFiniteSet(Users) /\ IsFiniteSet(Tasks)
    /\ Times \subseteq Nat /\ 0 \in Times
BY CallsAssumption, SpendingAssumption DEF Times

(* No answer costs more than the largest cost there is.                    *)
LEMMA LargestCost ==
    /\ MaxCost \in Nat
    /\ \A m \in Models, r \in Reported : ParseCost(m, r) \in Costs
<1> DEFINE costs == Reported \cup Range(TokenCost)
           self == [r \in Reported |-> r]
           n == SumOf(self, Reported) + SumOf(TokenCost, Models)
<1>1. /\ IsFiniteSet(Reported) /\ \A r \in Reported : self[r] \in Nat
      /\ IsFiniteSet(Models) /\ \A m \in Models : TokenCost[m] \in Nat
  BY CallsAssumption
<1>2. n \in Nat
  <2>1. SumOf(self, Reported) \in Nat /\ SumOf(TokenCost, Models) \in Nat
    <3> HIDE DEF self
    <3> QED
      BY <1>1, SumType
  <2> QED
    BY <2>1
<1>3. \A r \in Reported : r \in Nat /\ r <= n
  <2> SUFFICES ASSUME NEW r \in Reported PROVE r \in Nat /\ r <= n
    OBVIOUS
  <2>1. SumOf(self, Reported) = self[r] + SumOf(self, Reported \ {r})
    <3> HIDE DEF self
    <3> QED
      BY <1>1, SumAny
  <2>2. SumOf(self, Reported \ {r}) \in Nat
    <3>1. IsFiniteSet(Reported \ {r}) /\ \A x \in Reported \ {r} : self[x] \in Nat
      BY <1>1, FS_Subset
    <3> HIDE DEF self
    <3> QED
      BY <3>1, SumType
  <2>3. SumOf(TokenCost, Models) \in Nat /\ self[r] = r /\ r \in Nat
    BY <1>1, SumType
  <2> HIDE DEF self
  <2> QED
    BY <2>1, <2>2, <2>3
<1>4. \A m \in Models : TokenCost[m] <= n
  <2> SUFFICES ASSUME NEW m \in Models PROVE TokenCost[m] <= n
    OBVIOUS
  <2>1. SumOf(TokenCost, Models) = TokenCost[m] + SumOf(TokenCost, Models \ {m})
    BY <1>1, SumAny
  <2>2. SumOf(TokenCost, Models \ {m}) \in Nat
    <3>1. IsFiniteSet(Models \ {m}) /\ \A x \in Models \ {m} : TokenCost[x] \in Nat
      BY <1>1, FS_Subset
    <3> QED
      BY <3>1, SumType
  <2>3. SumOf(self, Reported) \in Nat /\ TokenCost[m] \in Nat
    <3> HIDE DEF self
    <3> QED
      BY <1>1, SumType
  <2> HIDE DEF self
  <2> QED
    BY <2>1, <2>2, <2>3
<1>5. costs \subseteq Nat /\ costs # {} /\ \A x \in costs : x <= n
  <2>1. Range(TokenCost) = {TokenCost[m] : m \in Models} /\ DefaultModel \in Models
    BY CallsAssumption DEF Range, Models
  <2> HIDE DEF n
  <2> QED
    BY <1>1, <1>3, <1>4, <2>1
<1>6. \E x \in costs : \A y \in costs : y <= x
  <2> HIDE DEF n, costs
  <2> QED
    BY <1>2, <1>5, LargestExists
<1>7. MaxCost \in costs /\ \A y \in costs : y <= MaxCost
  <2>1. MaxCost = CHOOSE x \in costs : \A y \in costs : y <= x
    BY DEF MaxCost
  <2> HIDE DEF costs
  <2> QED
    BY <1>6, <2>1
<1>8. \A m \in Models : TokenCost[m] \in costs
  BY CallsAssumption DEF Range, Models
<1> QED
  BY <1>5, <1>7, <1>8 DEF ParseCost, Costs

LEMMA CallFields ==
    ASSUME NEW q \in CallRecord
    PROVE  /\ q.todo \in PlainTodos \cup StreamTodos /\ q.user \in Users /\ q.inst \in Institutions
           /\ q.prompt \in Prompts /\ q.task \in Tasks /\ q.models \in Seq(Models) /\ q.cost \in Costs
           /\ q.known \in BOOLEAN /\ q.live \in BOOLEAN /\ q.out \in Seq(Lines)
           /\ q.sent \in Nat /\ q.taken \in Nat /\ q.lost \in Nat /\ q.end \in Ends /\ q.late \in Nat
BY DEF CallRecord

LEMMA NotIdle ==
    ASSUME NEW q \in CallRecord PROVE q # Idle /\ q.todo # <<>>
<1>1. q.todo \in PlainTodos \cup StreamTodos
  BY CallFields
<1>2. q.todo # <<>>
  BY <1>1, PlainEnds, StreamEnds
<1>3. Idle.todo = <<>>
  BY DEF Idle
<1> QED
  BY <1>2, <1>3

LEMMA DoingMeans ==
    ASSUME TypeInv, NEW c \in Calls, NEW s
    PROVE  Doing(c, s) <=> call[c] \in CallRecord /\ Head(call[c].todo) = s
<1>1. call[c] \in {Idle} \cup CallRecord
  BY DEF TypeInv
<1>2. Idle.todo = <<>>
  BY DEF Idle
<1> QED
  BY <1>1, <1>2, NotIdle DEF Doing

(* What comes next for a call that has done its step.                      *)
After(q) == IF Len(q.todo) = 1 THEN Idle ELSE [q EXCEPT !.todo = Tail(@)]
LEMMA AdvanceMeans ==
    ASSUME NEW c, NEW q PROVE Advance(c, q) <=> Update(c, After(q))
BY DEF Advance, Over, After

LEMMA AfterType ==
    ASSUME NEW q \in CallRecord
    PROVE  /\ After(q) \in {Idle} \cup CallRecord
           /\ Len(q.todo) # 1 => /\ After(q) \in CallRecord /\ After(q) = [q EXCEPT !.todo = Tail(q.todo)]
                                 /\ Tail(q.todo) \in PlainTodos \cup StreamTodos
                                 /\ q.todo \in PlainTodos <=> Tail(q.todo) \in PlainTodos
           /\ Len(q.todo) = 1 => After(q) = Idle
<1>1. q.todo \in PlainTodos \cup StreamTodos
  BY CallFields
<1>2. Len(q.todo) # 1 => /\ Tail(q.todo) \in PlainTodos \cup StreamTodos
                         /\ q.todo \in PlainTodos <=> Tail(q.todo) \in PlainTodos
  <2>1. ASSUME q.todo \in PlainTodos, Len(q.todo) # 1 PROVE Tail(q.todo) \in PlainTodos
    BY <2>1, PlainEnds
  <2>2. ASSUME q.todo \in StreamTodos, Len(q.todo) # 1 PROVE Tail(q.todo) \in StreamTodos
    BY <2>2, StreamEnds
  <2>3. \A t \in PlainTodos : t \notin StreamTodos
    BY PlainEnds, StreamEnds
  <2> QED
    BY <1>1, <2>1, <2>2, <2>3
<1>3. ASSUME Len(q.todo) # 1 PROVE [q EXCEPT !.todo = Tail(q.todo)] \in CallRecord
  BY <1>2, <1>3 DEF CallRecord
<1> QED
  BY <1>2, <1>3 DEF After

LEMMA UpdateType ==
    ASSUME TypeInv, NEW c \in Calls, NEW q \in {Idle} \cup CallRecord, Update(c, q)
    PROVE  /\ call' \in [Calls -> {Idle} \cup CallRecord]
           /\ call'[c] = q /\ \A d \in Calls \ {c} : call'[d] = call[d]
BY DEF TypeInv, Update

(* What a statement does to the number of failures.                        *)
LEMMA FaultsGrow ==
    ASSUME TypeInv, Works \/ Fails
    PROVE  faults' \in Nat /\ (Works => faults' = faults) /\ (Fails => faults' = faults + 1)
BY DEF TypeInv, Works, Fails

LEMMA CallsOnly ==
    ASSUME TypeInv, UNCHANGED <<now, billed, spendVars>>, faults' \in Nat,
           call' \in [Calls -> {Idle} \cup CallRecord]
    PROVE  TypeInv'
BY DEF TypeInv, spendVars

(* A call's own step changes its own record to one of a call, or ends it.  *)
Moves(c, q) == q \in {Idle} \cup CallRecord /\ Update(c, q)

LEMMA LeaveMoves ==
    ASSUME TypeInv, NEW c \in Calls, Leave(c)
    PROVE  call[c] \in CallRecord /\ Moves(c, [call[c] EXCEPT !.live = FALSE])
<1>1. call[c] \in CallRecord
  BY DoingMeans DEF Leave
<1>2. [call[c] EXCEPT !.live = FALSE] \in CallRecord
  BY <1>1 DEF CallRecord
<1> QED
  BY <1>1, <1>2 DEF Leave, Moves

LEMMA AttemptMeans ==
    ASSUME TypeInv, NEW c \in Calls, Attempt(c)
    PROVE  /\ call[c] \in CallRecord /\ Head(call[c].todo) = "call" /\ call[c].live
           /\ call[c].models \in Seq(Models) /\ call[c].models # <<>>
           /\ Head(call[c].models) \in Models /\ Tail(call[c].models) \in Seq(Models)
<1>1. call[c] \in CallRecord /\ Head(call[c].todo) = "call" /\ call[c].live /\ call[c].models # <<>>
  BY DoingMeans DEF Attempt
<1>2. call[c].models \in Seq(Models)
  BY <1>1, CallFields
<1> QED
  BY <1>1, <1>2

LEMMA RefusedMoves ==
    ASSUME TypeInv, NEW c \in Calls, Attempt(c)
    PROVE  [call[c] EXCEPT !.models = Tail(@)] \in CallRecord
<1>1. call[c] \in CallRecord /\ Tail(call[c].models) \in Seq(Models)
  BY AttemptMeans
<1> QED
  BY <1>1 DEF CallRecord

LEMMA CompleteMoves ==
    ASSUME TypeInv, NEW c \in Calls, NEW reported \in Reported, Attempt(c),
           NEW cost, cost = ParseCost(Head(call[c].models), reported)
    PROVE  /\ cost \in Costs
           /\ [call[c] EXCEPT !.cost = cost] \in CallRecord
<1>1. call[c] \in CallRecord /\ Head(call[c].models) \in Models
  BY AttemptMeans
<1>2. cost \in Costs
  BY <1>1, LargestCost
<1> QED
  BY <1>1, <1>2 DEF CallRecord

LEMMA ChargeType ==
    ASSUME TypeInv, NEW c \in Calls, call[c] \in CallRecord, NEW cost \in Costs, Charge(c, cost)
    PROVE  billed' \in [Institutions -> [Times -> Nat]]
<1>1. call[c].inst \in Institutions /\ now \in Times /\ cost \in Nat
  BY CallFields DEF TypeInv, Costs
<1>2. billed[call[c].inst] \in [Times -> Nat]
  BY <1>1 DEF TypeInv
<1>3. [billed[call[c].inst] EXCEPT ![now] = billed[call[c].inst][now] + cost] \in [Times -> Nat]
  BY <1>1, <1>2
<1> QED
  BY <1>3 DEF TypeInv, Charge

(* The lines in the channel of a stream.                                   *)
LEMMA OutType ==
    ASSUME NEW out \in Seq(Lines), NEW x \in Lines
    PROVE  /\ Append(out, x) \in Seq(Lines) /\ Len(Append(out, x)) = Len(out) + 1
           /\ \A k \in 1 .. Len(out) : Append(out, x)[k] = out[k]
           /\ Append(out, x)[Len(out) + 1] = x
           /\ out \o <<x>> = Append(out, x) /\ out \o <<>> = out
           /\ Len(out) \in Nat /\ DOMAIN out = 1 .. Len(out)
           /\ DOMAIN Append(out, x) = 1 .. Len(out) + 1
<1>1. Append(out, x) \in Seq(Lines) /\ Len(Append(out, x)) = Len(out) + 1
  OBVIOUS
<1>2. \A k \in 1 .. Len(out) : Append(out, x)[k] = out[k]
  OBVIOUS
<1>3. Append(out, x)[Len(out) + 1] = x
  OBVIOUS
<1>4. out \o <<x>> = Append(out, x)
  OBVIOUS
<1>5. out \o <<>> = out
  OBVIOUS
<1>6. Len(out) \in Nat /\ DOMAIN out = 1 .. Len(out)
  OBVIOUS
<1>7. DOMAIN Append(out, x) = 1 .. Len(out) + 1
  OBVIOUS
<1> QED
  BY <1>1, <1>2, <1>3, <1>4, <1>5, <1>6, <1>7

LEMMA HeadType ==
    ASSUME NEW out \in Seq(Lines), out # <<>>
    PROVE  /\ Tail(out) \in Seq(Lines) /\ Head(out) = out[1] /\ Head(out) \in Lines
           /\ Len(Tail(out)) = Len(out) - 1 /\ Len(out) \in Nat /\ Len(out) > 0
           /\ \A k \in 1 .. Len(Tail(out)) : Tail(out)[k] = out[k + 1]
           /\ DOMAIN out = 1 .. Len(out) /\ DOMAIN Tail(out) = 1 .. Len(out) - 1
<1>1. Tail(out) \in Seq(Lines) /\ Head(out) = out[1] /\ Len(Tail(out)) = Len(out) - 1
      /\ Len(out) \in Nat /\ Len(out) > 0
  OBVIOUS
<1>2. Head(out) \in Lines
  OBVIOUS
<1>3. \A k \in 1 .. Len(Tail(out)) : Tail(out)[k] = out[k + 1]
  OBVIOUS
<1>4. DOMAIN out = 1 .. Len(out) /\ DOMAIN Tail(out) = 1 .. Len(out) - 1
  BY <1>1
<1> QED
  BY <1>1, <1>2, <1>3, <1>4

LEMMA SendMoves ==
    ASSUME TypeInv, NEW c \in Calls, call[c] \in CallRecord, NEW x \in Lines, NEW end \in Ends
    PROVE  /\ Send(c, x) \in CallRecord /\ Close(c, <<x>>, end) \in CallRecord
           /\ Close(c, <<>>, end) \in CallRecord
<1>1. call[c].out \in Seq(Lines) /\ call[c].sent + 1 \in Nat
  BY CallFields
<1>2. Append(call[c].out, x) \in Seq(Lines) /\ call[c].out \o <<x>> \in Seq(Lines)
      /\ call[c].out \o <<>> \in Seq(Lines)
  BY <1>1, OutType
<1>3. Send(c, x) \in CallRecord
  BY <1>1, <1>2 DEF CallRecord, Send
<1>4. Close(c, <<x>>, end) \in CallRecord
  BY <1>1, <1>2 DEF CallRecord, Close
<1>5. Close(c, <<>>, end) \in CallRecord
  BY <1>1, <1>2 DEF CallRecord, Close
<1> QED
  BY <1>3, <1>4, <1>5

LEMMA GarbledMoves ==
    ASSUME NEW q \in CallRecord
    PROVE  [q EXCEPT !.sent = @ + 1, !.lost = @ + 1] \in CallRecord
<1>1. q.sent + 1 \in Nat /\ q.lost + 1 \in Nat
  BY CallFields
<1> QED
  BY <1>1 DEF CallRecord

TakenFrom(q) ==
    [q EXCEPT !.out = Tail(@), !.taken = @ + 1, !.known = @ \/ Head(q.out) = "usage",
              !.late = IF q.end = "open" THEN @ ELSE @ + 1]
LEMMA TakeMoves ==
    ASSUME NEW q \in CallRecord, q.out # <<>>
    PROVE  TakenFrom(q) \in CallRecord
<1>1. /\ Tail(q.out) \in Seq(Lines) /\ q.taken + 1 \in Nat /\ (q.known \/ Head(q.out) = "usage") \in BOOLEAN
      /\ (IF q.end = "open" THEN q.late ELSE q.late + 1) \in Nat
  BY CallFields, HeadType
<1> QED
  BY <1>1 DEF CallRecord, TakenFrom

(* The steps of a call's stream.                                           *)
LEMMA OpenMeans ==
    ASSUME TypeInv, NEW c \in Calls, Streaming(c)
    PROVE  call[c] \in CallRecord /\ Head(call[c].todo) = "stream"
BY DoingMeans DEF Streaming

StreamMoves(c) ==
    \/ \E x \in {"line", "usage"} : Update(c, Send(c, x))
    \/ Update(c, [call[c] EXCEPT !.sent = @ + 1, !.lost = @ + 1])
    \/ \E end \in Ends : Update(c, Close(c, <<>>, end)) \/ Update(c, Close(c, <<"error">>, end))
    \/ Over(c)
    \/ call[c].out # <<>> /\ Update(c, TakenFrom(call[c]))
    \/ Advance(c, call[c])

LEMMA StreamSteps ==
    ASSUME NEW c, StreamNext(c)
    PROVE  Streaming(c) /\ StreamMoves(c) /\ UNCHANGED <<now, billed>> /\ (Works \/ Fails)
<1>1. CASE Forward(c)
  BY <1>1 DEF Forward, Open, StreamMoves, Works
<1>2. CASE Garbled(c)
  BY <1>2 DEF Garbled, Open, StreamMoves
<1>3. CASE Finished(c)
  BY <1>3 DEF Finished, Open, StreamMoves, Works, Ends
<1>4. CASE ProviderError(c)
  BY <1>4 DEF ProviderError, Open, StreamMoves, Ends
<1>9. CASE EndsEarly(c)
  BY <1>9 DEF EndsEarly, Open, StreamMoves, Ends
<1>5. CASE Broken(c)
  BY <1>5 DEF Broken, Open, StreamMoves, Ends
<1>6. CASE Stopped(c)
  BY <1>6 DEF Stopped, Open, StreamMoves, Works, Ends
<1>7. CASE Take(c)
  BY <1>7 DEF Take, StreamMoves, Works, TakenFrom
<1>8. CASE TakeEnd(c)
  BY <1>8 DEF TakeEnd, ReachedEnd, StreamMoves, Works
<1> QED
  BY <1>1, <1>2, <1>3, <1>4, <1>5, <1>6, <1>7, <1>8, <1>9 DEF StreamNext

LEMMA StreamType ==
    ASSUME TypeInv, NEW c \in Calls, Streaming(c), StreamMoves(c)
    PROVE  call' \in [Calls -> {Idle} \cup CallRecord]
<1>0. call[c] \in CallRecord
  BY OpenMeans
<1>1. ASSUME NEW x \in {"line", "usage"}, Update(c, Send(c, x))
      PROVE  call' \in [Calls -> {Idle} \cup CallRecord]
  <2>1. Send(c, x) \in CallRecord
    BY <1>0, SendMoves DEF Lines, Ends
  <2> QED
    BY <1>1, <2>1, UpdateType
<1>2. ASSUME Update(c, [call[c] EXCEPT !.sent = @ + 1, !.lost = @ + 1])
      PROVE  call' \in [Calls -> {Idle} \cup CallRecord]
  BY <1>0, <1>2, GarbledMoves, UpdateType
<1>3. ASSUME NEW end \in Ends, Update(c, Close(c, <<>>, end)) \/ Update(c, Close(c, <<"error">>, end))
      PROVE  call' \in [Calls -> {Idle} \cup CallRecord]
  <2>1. Close(c, <<>>, end) \in CallRecord /\ Close(c, <<"error">>, end) \in CallRecord
    BY <1>0, SendMoves DEF Lines
  <2> QED
    BY <1>3, <2>1, UpdateType
<1>4. ASSUME Over(c) PROVE call' \in [Calls -> {Idle} \cup CallRecord]
  BY <1>4, UpdateType DEF Over
<1>5. ASSUME call[c].out # <<>>, Update(c, TakenFrom(call[c]))
      PROVE  call' \in [Calls -> {Idle} \cup CallRecord]
  BY <1>0, <1>5, TakeMoves, UpdateType
<1>6. ASSUME Advance(c, call[c]) PROVE call' \in [Calls -> {Idle} \cup CallRecord]
  BY <1>0, <1>6, AdvanceMeans, AfterType, UpdateType
<1> QED
  BY <1>1, <1>2, <1>3, <1>4, <1>5, <1>6 DEF StreamMoves

-----------------------------------------------------------------------------
(* Every action keeps the types.                                           *)
LEMMA TypeInit == Init => TypeInv
<1> SUFFICES ASSUME Init PROVE TypeInv
  OBVIOUS
<1>1. call \in [Calls -> {Idle} \cup CallRecord] /\ now \in Times /\ faults \in Nat
  BY Numbers DEF Init, CallsInit
<1>2. billed \in [Institutions -> [Times -> Nat]]
  BY DEF Init, CallsInit
<1>3. spend \in [Institutions -> [Times -> Nat]] /\ recorded \in [Institutions -> [Times -> Nat]]
  BY DEF Init, Nothing
<1>6. until \in [Institutions -> Nat] /\ purged \in [Institutions -> Nat]
  BY DEF Init
<1>4. total \in [Keys -> Nat] /\ ceiling \in [Institutions -> Ceilings \cup {Unset}]
  BY DEF Init
<1>5. cached \subseteq Prompts /\ begun \in Nat /\ changes \in Nat
      /\ paid \in [Prompts -> Nat] /\ raced \in [Prompts -> Nat]
  BY DEF Init
<1> QED
  BY <1>1, <1>2, <1>3, <1>4, <1>5, <1>6 DEF TypeInv

(* A call as it begins.                                                    *)
Fresh(u, i, task, p, todo) ==
    LET q == RouteRequest(task, Unset) IN
    [todo |-> todo, user |-> u, inst |-> i, prompt |-> p, task |-> q.task,
     models |-> Candidates(q.model, q.fallbacks), cost |-> 0,
     known |-> "stream" \notin ToSet(todo), live |-> TRUE, out |-> <<>>, sent |-> 0, taken |-> 0, lost |-> 0,
     end |-> "open", late |-> 0]

LEMMA FreshType ==
    ASSUME NEW u \in Users, NEW i \in Institutions, NEW task \in Tasks, NEW p \in Prompts,
           NEW todo \in {Plain, Streamed}
    PROVE  /\ Fresh(u, i, task, p, todo) \in CallRecord
           /\ Head(todo) \in {"lookup", "check"}
           /\ todo = Plain => todo \in PlainTodos /\ Head(todo) = "lookup"
           /\ todo = Streamed => todo \in StreamTodos /\ Head(todo) = "check"
<1>1. /\ Plain \in PlainTodos /\ Head(Plain) = "lookup"
      /\ Streamed \in StreamTodos /\ Head(Streamed) = "check"
  BY DEF Plain, Streamed, PlainTodos, StreamTodos
<1>2. Candidates(RouteRequest(task, Unset).model, RouteRequest(task, Unset).fallbacks) \in Seq(Models)
      /\ RouteRequest(task, Unset).task \in Tasks
  BY RouteType
<1>3. 0 \in Costs
  BY LargestCost DEF Costs
<1>4. todo \in PlainTodos \cup StreamTodos /\ <<>> \in Seq(Lines) /\ "open" \in Ends
  BY <1>1 DEF Ends
<1> HIDE DEF Plain, Streamed
<1>5. Fresh(u, i, task, p, todo) \in CallRecord
  BY <1>2, <1>3, <1>4, Zenon DEF Fresh, CallRecord
<1> QED
  BY <1>1, <1>5

LEMMA BeginMeans ==
    ASSUME NEW c \in Calls, NEW todo \in {Plain, Streamed}, Begin(c, todo)
    PROVE  /\ call[c] = Idle
           /\ \E u \in Users, i \in Institutions, k \in Tasks, p \in Prompts :
                 Update(c, Fresh(u, i, k, p, todo))
           /\ UNCHANGED <<now, billed, faults, spend, until, total, ceiling, cached, changes, recorded, purged, paid, raced>>
           /\ begun' = begun + 1
BY DEF Begin, Ask, Fresh

LEMMA BeginType ==
    ASSUME TypeInv, NEW c \in Calls, NEW todo \in {Plain, Streamed}, Begin(c, todo)
    PROVE  TypeInv'
<1>1. PICK u \in Users, i \in Institutions, k \in Tasks, p \in Prompts : Update(c, Fresh(u, i, k, p, todo))
  BY BeginMeans
<1>2. Fresh(u, i, k, p, todo) \in CallRecord
  BY FreshType
<1>3. call' \in [Calls -> {Idle} \cup CallRecord]
  BY <1>1, <1>2, UpdateType
<1>4. begun' \in Nat /\ UNCHANGED <<now, billed, faults, spend, until, total, ceiling, cached, changes, recorded, purged, paid, raced>>
  BY BeginMeans DEF TypeInv
<1> QED
  BY <1>3, <1>4 DEF TypeInv

LEMMA OverType ==
    ASSUME TypeInv, NEW c \in Calls, Over(c)
    PROVE  call' \in [Calls -> {Idle} \cup CallRecord] /\ call'[c] = Idle
BY UpdateType DEF Over

LEMMA AdvanceType ==
    ASSUME TypeInv, NEW c \in Calls, call[c] \in CallRecord, Advance(c, call[c])
    PROVE  call' \in [Calls -> {Idle} \cup CallRecord] /\ call'[c] = After(call[c])
BY AdvanceMeans, AfterType, UpdateType

LEMMA StepFailsMeans ==
    ASSUME TypeInv, NEW c \in Calls, StepFails(c)
    PROVE  /\ call[c] \in CallRecord
           /\ Head(call[c].todo) \in {"lookup", "check", "window", "inst", "user", "task", "global", "keep"}
           /\ Over(c) /\ UNCHANGED <<now, billed, spendVars>>
           /\ faults' = IF call[c].live THEN faults + 1 ELSE faults
<1>1. PICK s \in {"lookup", "check", "window", "inst", "user", "task", "global", "keep"} : Doing(c, s)
  BY DEF StepFails
<1>2. call[c] \in CallRecord /\ Head(call[c].todo) = s
  BY <1>1, DoingMeans
<1> QED
  BY <1>2 DEF StepFails, Works, Fails

LEMMA StepFailsType ==
    ASSUME TypeInv, NEW c \in Calls, StepFails(c)
    PROVE  TypeInv'
<1>1. faults' \in Nat
  BY StepFailsMeans DEF TypeInv
<1>2. call' \in [Calls -> {Idle} \cup CallRecord]
  BY StepFailsMeans, OverType
<1> QED
  BY <1>1, <1>2, StepFailsMeans, CallsOnly

LEMMA StepMeans ==
    ASSUME TypeInv, NEW c \in Calls, NEW s, Step(c, s)
    PROVE  /\ call[c] \in CallRecord /\ Head(call[c].todo) = s /\ call[c].live
           /\ call' \in [Calls -> {Idle} \cup CallRecord]
           /\ Update(c, After(call[c])) /\ call'[c] = After(call[c])
           /\ UNCHANGED <<now, billed, faults>>
<1>1. call[c] \in CallRecord /\ Head(call[c].todo) = s
  BY DoingMeans DEF Step
<1> QED
  BY <1>1, AdvanceMeans, AdvanceType DEF Step

LEMMA CacheGetMeans ==
    ASSUME TypeInv, NEW c \in Calls, CacheGet(c)
    PROVE  /\ call[c] \in CallRecord /\ Head(call[c].todo) = "lookup" /\ call[c].live
           /\ UNCHANGED <<now, billed, faults, spend, until, total, ceiling, cached, begun, changes, recorded, purged, paid>>
           /\ \/ call[c].prompt \in cached /\ Over(c) /\ UNCHANGED raced
              \/ /\ call[c].prompt \notin cached /\ Update(c, After(call[c]))
                 /\ raced' = [raced EXCEPT ![call[c].prompt] =
                                @ + IF \E d \in Calls : Making(d, call[c].prompt) THEN 1 ELSE 0]
           /\ call' \in [Calls -> {Idle} \cup CallRecord]
<1>1. call[c] \in CallRecord /\ Head(call[c].todo) = "lookup"
  BY DoingMeans DEF CacheGet
<1> QED
  BY <1>1, AdvanceMeans, AdvanceType, OverType DEF CacheGet

LEMMA CacheGetType ==
    ASSUME TypeInv, NEW c \in Calls, CacheGet(c)
    PROVE  TypeInv'
<1>1. call[c].prompt \in Prompts
  BY CacheGetMeans, CallFields
<1>2. raced' \in [Prompts -> Nat]
  <2>1. raced[call[c].prompt] + (IF \E d \in Calls : Making(d, call[c].prompt) THEN 1 ELSE 0) \in Nat
    BY <1>1 DEF TypeInv
  <2> QED
    BY <1>1, <2>1, CacheGetMeans DEF TypeInv
<1> QED
  BY <1>2, CacheGetMeans DEF TypeInv

LEMMA CacheSetType ==
    ASSUME TypeInv, NEW c \in Calls, CacheSet(c)
    PROVE  TypeInv'
<1>1. Step(c, "keep") /\ cached' = cached \cup {call[c].prompt}
      /\ UNCHANGED <<spend, until, total, ceiling, begun, changes, recorded, purged, paid, raced>>
  BY DEF CacheSet
<1>2. call[c].prompt \in Prompts
  BY <1>1, StepMeans, CallFields
<1> QED
  BY <1>1, <1>2, StepMeans DEF TypeInv

LEMMA CeilingType ==
    ASSUME TypeInv, NEW i \in Institutions, GetBudgetCeiling(i) # Unset
    PROVE  GetBudgetCeiling(i).max \in Nat /\ GetBudgetCeiling(i).window \in Nat
<1>1. GetBudgetCeiling(i) \in Ceilings \cup {DefaultCeiling}
  BY DEF GetBudgetCeiling, TypeInv
<1> QED
  BY <1>1, SpendingAssumption

LEMMA FromType ==
    ASSUME TypeInv, NEW window \in Nat
    PROVE  From(window) \in 0 .. now /\ now \in Nat
BY Numbers DEF From, TypeInv, Times

LEMMA PurgedType ==
    ASSUME TypeInv, NEW i \in Institutions, NEW window \in Nat, Purge(i, window)
    PROVE  spend' \in [Institutions -> [Times -> Nat]] /\ purged' \in [Institutions -> Nat]
<1>1. Purged(i, window) \in [Times -> Nat]
  BY DEF TypeInv, Purged
<1>2. From(window) \in Nat /\ purged[i] \in Nat
  BY FromType DEF TypeInv
<1> QED
  BY <1>1, <1>2 DEF TypeInv, Purge

LEMMA CheckSpendMeans ==
    ASSUME TypeInv, NEW c \in Calls, CheckSpend(c)
    PROVE  /\ call[c] \in CallRecord /\ Head(call[c].todo) = "check" /\ call[c].live
           /\ UNCHANGED <<now, billed, faults, until, total, ceiling, cached, begun, changes, recorded, paid, raced>>
           /\ \/ UNCHANGED <<spend, purged>>
              \/ Purge(call[c].inst, GetBudgetCeiling(call[c].inst).window)
           /\ spend' \in [Institutions -> [Times -> Nat]] /\ purged' \in [Institutions -> Nat]
           /\ \/ Over(c)
              \/ Update(c, After(call[c])) /\ Allowed(call[c].inst, GetBudgetCeiling(call[c].inst))
           /\ call' \in [Calls -> {Idle} \cup CallRecord]
<1>1. call[c] \in CallRecord /\ Head(call[c].todo) = "check"
  BY DoingMeans DEF CheckSpend
<1>2. call[c].inst \in Institutions
  BY <1>1, CallFields
<1>6. \/ UNCHANGED <<spend, purged>>
      \/ /\ Purge(call[c].inst, GetBudgetCeiling(call[c].inst).window)
         /\ GetBudgetCeiling(call[c].inst) # Unset
  BY DEF CheckSpend
<1>3. spend' \in [Institutions -> [Times -> Nat]] /\ purged' \in [Institutions -> Nat]
  <2>1. ASSUME Purge(call[c].inst, GetBudgetCeiling(call[c].inst).window), GetBudgetCeiling(call[c].inst) # Unset
        PROVE  spend' \in [Institutions -> [Times -> Nat]] /\ purged' \in [Institutions -> Nat]
    <3>1. GetBudgetCeiling(call[c].inst).window \in Nat
      BY <1>2, <2>1, CeilingType
    <3> QED
      BY <1>2, <2>1, <3>1, PurgedType
  <2> QED
    BY <1>6, <2>1 DEF TypeInv
<1>4. \/ Over(c)
      \/ Advance(c, call[c]) /\ Allowed(call[c].inst, GetBudgetCeiling(call[c].inst))
  BY DEF CheckSpend
<1>5. call' \in [Calls -> {Idle} \cup CallRecord]
  BY <1>1, <1>4, AdvanceType, OverType
<1> QED
  BY <1>1, <1>3, <1>4, <1>5, <1>6, AdvanceMeans DEF CheckSpend

LEMMA CheckSpendType ==
    ASSUME TypeInv, NEW c \in Calls, CheckSpend(c)
    PROVE  TypeInv'
BY CheckSpendMeans DEF TypeInv

LEMMA AddedType ==
    ASSUME NEW f \in [Institutions -> [Times -> Nat]], NEW i \in Institutions, NEW t \in Times, NEW n \in Nat
    PROVE  [f EXCEPT ![i][t] = @ + n] \in [Institutions -> [Times -> Nat]]
<1>1. f[i] \in [Times -> Nat]
  OBVIOUS
<1>2. [f[i] EXCEPT ![t] = f[i][t] + n] \in [Times -> Nat]
  BY <1>1
<1> QED
  BY <1>2

LEMMA RecordSpendType ==
    ASSUME TypeInv, NEW c \in Calls, RecordSpend(c)
    PROVE  TypeInv'
<1>1. Step(c, "window")
  BY DEF RecordSpend
<1>2. call[c].inst \in Institutions /\ call[c].cost \in Nat /\ now \in Times
  BY <1>1, StepMeans, CallFields DEF Costs, TypeInv
<1>3. spend' \in [Institutions -> [Times -> Nat]] /\ recorded' \in [Institutions -> [Times -> Nat]]
  BY <1>2, AddedType DEF RecordSpend, TypeInv
<1>4. until' \in [Institutions -> Nat]
  BY <1>2, Numbers DEF RecordSpend, TypeInv
<1> QED
  BY <1>1, <1>3, <1>4, StepMeans DEF TypeInv, RecordSpend

LEMMA MetricType ==
    ASSUME TypeInv, NEW c \in Calls, IncrementMetrics(c)
    PROVE  \E s \in {"inst", "user", "task", "global"} :
             /\ Step(c, s)
             /\ MetricKey(c, s) \in Keys
             /\ total' = [total EXCEPT ![MetricKey(c, s)] = @ + call[c].cost]
             /\ UNCHANGED <<spend, until, ceiling, cached, begun, changes, recorded, purged, paid, raced>>
             /\ call[c].cost \in Nat
<1>1. PICK s \in {"inst", "user", "task", "global"} :
             /\ Step(c, s)
             /\ total' = [total EXCEPT ![MetricKey(c, s)] = @ + call[c].cost]
             /\ UNCHANGED <<spend, until, ceiling, cached, begun, changes, recorded, purged, paid, raced>>
  BY DEF IncrementMetrics
<1>2. call[c] \in CallRecord
  BY <1>1, StepMeans
<1>3. MetricKey(c, s) \in Keys /\ call[c].cost \in Nat
  BY <1>2, CallFields DEF MetricKey, Keys, Costs
<1> QED
  BY <1>1, <1>3

LEMMA IncrementMetricsType ==
    ASSUME TypeInv, NEW c \in Calls, IncrementMetrics(c)
    PROVE  TypeInv'
<1>1. PICK s \in {"inst", "user", "task", "global"} :
             /\ Step(c, s)
             /\ MetricKey(c, s) \in Keys
             /\ total' = [total EXCEPT ![MetricKey(c, s)] = @ + call[c].cost]
             /\ UNCHANGED <<spend, until, ceiling, cached, begun, changes, recorded, purged, paid, raced>>
             /\ call[c].cost \in Nat
  BY MetricType
<1>2. total' \in [Keys -> Nat]
  BY <1>1 DEF TypeInv
<1>3. call' \in [Calls -> {Idle} \cup CallRecord] /\ UNCHANGED <<now, billed, faults>>
  BY <1>1, StepMeans
<1> QED
  BY <1>1, <1>2, <1>3 DEF TypeInv

(* A call of a model: the attempts, the stream, and leaving it.            *)
CallMoves(c) ==
    \/ Leave(c)
    \/ GiveUp(c)
    \/ Refused(c)
    \/ \E reported \in Reported : LostAnswer(c, reported) \/ Complete(c, reported)
    \/ StreamNext(c)

LEMMA CallNextType ==
    ASSUME TypeInv, NEW c \in Calls, CallNext(c)
    PROVE  /\ call[c] \in CallRecord /\ call' \in [Calls -> {Idle} \cup CallRecord] /\ faults' \in Nat
           /\ billed' \in [Institutions -> [Times -> Nat]] /\ UNCHANGED now
<1> DEFINE Goal == /\ call[c] \in CallRecord /\ call' \in [Calls -> {Idle} \cup CallRecord] /\ faults' \in Nat
                   /\ billed' \in [Institutions -> [Times -> Nat]] /\ UNCHANGED now
<1>0. faults \in Nat /\ billed \in [Institutions -> [Times -> Nat]]
  BY DEF TypeInv
<1>1. ASSUME Leave(c) PROVE Goal
  <2>1. call[c] \in CallRecord /\ Moves(c, [call[c] EXCEPT !.live = FALSE])
    BY <1>1, LeaveMoves
  <2>2. call' \in [Calls -> {Idle} \cup CallRecord]
    BY <2>1, UpdateType DEF Moves
  <2> QED
    BY <1>0, <1>1, <2>1, <2>2, FaultsGrow DEF Leave
<1>2. ASSUME GiveUp(c) PROVE Goal
  <2>1. call[c] \in CallRecord
    BY <1>2, DoingMeans DEF GiveUp
  <2> QED
    BY <1>0, <1>2, <2>1, OverType DEF GiveUp
<1>3. ASSUME Refused(c) PROVE Goal
  <2>1. Attempt(c) /\ call[c] \in CallRecord /\ [call[c] EXCEPT !.models = Tail(@)] \in CallRecord
    BY <1>3, AttemptMeans, RefusedMoves DEF Refused
  <2> QED
    BY <1>0, <1>3, <2>1, UpdateType DEF Refused
<1>4. ASSUME NEW reported \in Reported, LostAnswer(c, reported) PROVE Goal
  <2>1. Attempt(c) /\ call[c] \in CallRecord /\ [call[c] EXCEPT !.models = Tail(@)] \in CallRecord
        /\ Head(call[c].models) \in Models
    BY <1>4, AttemptMeans, RefusedMoves DEF LostAnswer
  <2>2. ParseCost(Head(call[c].models), reported) \in Costs
    BY <2>1, LargestCost
  <2>3. billed' \in [Institutions -> [Times -> Nat]]
    BY <1>4, <2>1, <2>2, ChargeType DEF LostAnswer
  <2>4. call' \in [Calls -> {Idle} \cup CallRecord]
    BY <1>4, <2>1, UpdateType DEF LostAnswer
  <2> QED
    BY <1>4, <2>1, <2>3, <2>4, FaultsGrow DEF LostAnswer
<1>5. ASSUME NEW reported \in Reported, Complete(c, reported) PROVE Goal
  <2> DEFINE cost == ParseCost(Head(call[c].models), reported)
             q == [call[c] EXCEPT !.cost = cost]
  <2>1. Attempt(c) /\ call[c] \in CallRecord
    BY <1>5, AttemptMeans DEF Complete
  <2>2. cost \in Costs /\ q \in CallRecord
    BY <2>1, CompleteMoves
  <2>3. billed' \in [Institutions -> [Times -> Nat]]
    BY <1>5, <2>1, <2>2, ChargeType DEF Complete
  <2>4. Advance(c, q) /\ Works /\ UNCHANGED now
    BY <1>5 DEF Complete
  <2> HIDE DEF q
  <2>5. call' \in [Calls -> {Idle} \cup CallRecord]
    BY <2>2, <2>4, AdvanceMeans, AfterType, UpdateType
  <2> QED
    BY <2>1, <2>3, <2>4, <2>5, FaultsGrow
<1>6. ASSUME StreamNext(c) PROVE Goal
  BY <1>0, <1>6, StreamSteps, StreamType, OpenMeans, FaultsGrow
<1> QED
  BY <1>1, <1>2, <1>3, <1>4, <1>5, <1>6 DEF CallNext

LEMMA CountedType ==
    ASSUME TypeInv, NEW c \in Calls, call[c] \in CallRecord, Counted(c)
    PROVE  paid' \in [Prompts -> Nat]
BY CallFields DEF TypeInv, Counted

LEMMA ByOthersType ==
    ASSUME TypeInv, ByOthers
    PROVE  TypeInv'
<1>0. changes \in Nat /\ changes + 1 \in Nat
  BY DEF TypeInv
<1>1. ASSUME NEW p \in Prompts, CacheDelete(p) PROVE TypeInv'
  BY <1>0, <1>1 DEF TypeInv, CacheDelete, callVars
<1>2. ASSUME NEW i \in Institutions, NEW x \in Ceilings \cup {Unset}, SetBudgetCeiling(i, x) PROVE TypeInv'
  BY <1>0, <1>2 DEF TypeInv, SetBudgetCeiling, callVars
<1>3. ASSUME NEW i \in Institutions, NEW w \in Windows, GetSlidingWindowSpend(i, w) PROVE TypeInv'
  <2>1. spend' \in [Institutions -> [Times -> Nat]] /\ purged' \in [Institutions -> Nat]
    BY <1>3, SpendingAssumption, PurgedType DEF GetSlidingWindowSpend
  <2> QED
    BY <1>0, <1>3, <2>1 DEF TypeInv, GetSlidingWindowSpend, callVars
<1>4. ASSUME NEW i \in Institutions, ResetInstitutionMetrics(i) PROVE TypeInv'
  <2>1. Nothing \in [Times -> Nat] /\ i \in Keys
    BY DEF Nothing, Keys
  <2>2. /\ spend' \in [Institutions -> [Times -> Nat]] /\ recorded' \in [Institutions -> [Times -> Nat]]
        /\ billed' \in [Institutions -> [Times -> Nat]] /\ total' \in [Keys -> Nat]
    BY <1>4, <2>1 DEF ResetInstitutionMetrics, TypeInv
  <2> QED
    BY <1>0, <1>4, <2>2 DEF TypeInv, ResetInstitutionMetrics
<1> QED
  BY <1>1, <1>2, <1>3, <1>4 DEF ByOthers

CallStep(c) ==
    \/ Begin(c, Plain) \/ Begin(c, Streamed) \/ StepFails(c)
    \/ CacheGet(c) \/ CacheSet(c) \/ CheckSpend(c) \/ RecordSpend(c) \/ IncrementMetrics(c)
    \/ /\ CallNext(c) /\ Counted(c)
       /\ UNCHANGED <<spend, until, total, ceiling, cached, begun, changes, recorded, purged, raced>>
LEMMA NextMeans ==
    Next => \/ \E c \in Calls : (\A d \in Calls \ {c} : ~ Totalling(d)) /\ CallStep(c)
            \/ /\ \A c \in Calls : ~ Totalling(c)
               /\ ByOthers \/ Pass
BY DEF Next, CallStep

LEMMA TypeNext == TypeInv /\ [Next]_vars => TypeInv'
<1> SUFFICES ASSUME TypeInv, [Next]_vars PROVE TypeInv'
  OBVIOUS
<1>1. ASSUME NEW c \in Calls, CallStep(c) PROVE TypeInv'
  <2>1. CASE Begin(c, Plain)
    BY <2>1, BeginType
  <2>2. CASE Begin(c, Streamed)
    BY <2>2, BeginType
  <2>3. CASE StepFails(c)
    BY <2>3, StepFailsType
  <2>4. CASE CacheGet(c)
    BY <2>4, CacheGetType
  <2>5. CASE CacheSet(c)
    BY <2>5, CacheSetType
  <2>6. CASE CheckSpend(c)
    BY <2>6, CheckSpendType
  <2>7. CASE RecordSpend(c)
    BY <2>7, RecordSpendType
  <2>8. CASE IncrementMetrics(c)
    BY <2>8, IncrementMetricsType
  <2>9. ASSUME CallNext(c), Counted(c), UNCHANGED <<spend, until, total, ceiling, cached, begun, changes, recorded, purged, raced>>
        PROVE  TypeInv'
    BY <2>9, CallNextType, CountedType DEF TypeInv
  <2> QED
    BY <1>1, <2>1, <2>2, <2>3, <2>4, <2>5, <2>6, <2>7, <2>8, <2>9 DEF CallStep
<1>2. ASSUME Pass PROVE TypeInv'
  <2>1. now' \in Times
    BY <1>2, Numbers DEF Pass, Tick, TypeInv, Times
  <2>2. spend' \in [Institutions -> [Times -> Nat]]
    BY <1>2 DEF Pass, TypeInv, Nothing
  <2> QED
    BY <1>2, <2>1, <2>2 DEF TypeInv, Pass, Tick
<1>3. ASSUME UNCHANGED vars PROVE TypeInv'
  BY <1>3 DEF TypeInv, vars, callVars, spendVars
<1> QED
  BY <1>1, <1>2, <1>3, NextMeans, ByOthersType

-----------------------------------------------------------------------------
(* The lines of a stream: what a call has of them, is still in the         *)
(* channel, or was passed over, is what was read; an error is at the end   *)
(* of the channel or was dropped because a whole channel was waiting; and  *)
(* the last line, if it was not lost, is taken or still to be taken, and   *)
(* comes last.                                                             *)
Told(q) == IF Len(q.out) > 0 /\ q.out[Len(q.out)] = "error" THEN 1 ELSE 0
StreamFits(q) ==
    /\ Head(q.todo) \in {"check", "call"} /\ q.todo \in StreamTodos => ~ q.known
    /\ Head(q.todo) \in {"lookup", "check", "call"} =>
         q.out = <<>> /\ q.sent = 0 /\ q.taken = 0 /\ q.lost = 0 /\ q.late = 0 /\ q.end = "open"
    /\ Head(q.todo) = "stream" =>
         /\ q.sent <= MaxLines
         /\ q.known \/ (\E k \in DOMAIN q.out : q.out[k] = "usage") => q.sent = MaxLines
         /\ q.taken + Len(q.out) + q.lost = q.sent + Told(q)
         /\ q.end \in {"open", "done", "cut"} =>
              /\ \A k \in DOMAIN q.out : q.out[k] # "error"
              /\ q.lost = 0 /\ q.sent = MaxLines => q.known \/ \E k \in DOMAIN q.out : q.out[k] = "usage"
         /\ q.end = "done" => q.sent = MaxLines
         /\ q.end = "cut" => q.sent < MaxLines
         /\ q.end = "failed" => \/ q.late + Len(q.out) >= Room
                                \/ Len(q.out) > 0 /\ q.out[Len(q.out)] = "error"
         /\ q.end = "stopped" => ~ q.live
StreamInv == \A c \in Calls : call[c] # Idle => StreamFits(call[c])

(* What a call has been charged for an institution and will record, if     *)
(* nothing fails any more.                                                 *)
Worth(q, i) ==
    IF /\ q # Idle /\ q.inst = i /\ Head(q.todo) \in {"stream", "window"}
       /\ q.live /\ q.end \in {"open", "done"} /\ q.lost = 0
    THEN q.cost ELSE 0
Pending(i) == SumOf([c \in Calls |-> Worth(call[c], i)], Calls)
(* What is charged is recorded, under way, or paid for by a failure.       *)
SpendInv ==
    \A i \in Institutions :
        /\ \A t \in Times : t > now => billed[i][t] = 0
        /\ \A from \in 0 .. now :
             Since(billed[i], from) <= Since(recorded[i], from) + Pending(i) + MaxCost * faults

(* One call at a time adds to the totals, by user, then by task, then to   *)
(* the overall one.                                                        *)
TotalsInv ==
    LET u == SumOver(Users)  k == SumOver(Tasks)  g == Summary(Global) IN
    /\ \A c \in Calls : Totalling(c) => call[c].live /\ \A d \in Calls : Totalling(d) => d = c
    /\ k <= u /\ g <= k
    /\ \A c \in Calls : /\ Doing(c, "task") => k + call[c].cost <= u
                        /\ Doing(c, "global") => g + call[c].cost <= k
                        /\ c \in Adding => u <= g + MaxCost * faults + call[c].cost
    /\ Adding = {} => u <= g + MaxCost * faults

(* A call that will ask a model for a prompt's answer, or lose the answer  *)
(* it has.                                                                 *)
Makes(q, p) == q # Idle /\ q.prompt = p /\ q.todo \in PlainTodos /\ Head(q.todo) # "lookup"
Owes(q, p) ==
    IF Makes(q, p) /\ (Head(q.todo) \in {"check", "call"} \/ ~ q.live) THEN 1 ELSE 0
Owing(p) == SumOf([c \in Calls |-> Owes(call[c], p)], Calls)
(* The next lookup of a prompt asks a model and is nobody's to answer for. *)
Free(p) == IF p \in cached \/ \E c \in Calls : Makes(call[c], p) THEN 0 ELSE 1
PaidInv == \A p \in Prompts : paid[p] + Owing(p) + Free(p) <= 1 + raced[p] + faults + changes

(* Every step of a stream keeps its lines together.                        *)
LEMMA AfterFits ==
    ASSUME NEW q \in CallRecord, StreamFits(q), After(q) # Idle
    PROVE  StreamFits(After(q))
<1> DEFINE r == [q EXCEPT !.todo = Tail(q.todo)]
<1>1. /\ Len(q.todo) # 1 /\ After(q) = r
  BY AfterType
<1>2. /\ r.todo = Tail(q.todo) /\ r.out = q.out /\ r.sent = q.sent /\ r.taken = q.taken /\ r.lost = q.lost
      /\ r.late = q.late /\ r.end = q.end /\ r.live = q.live /\ r.known = q.known
  BY DEF CallRecord
<1>3. q.todo \in PlainTodos \cup StreamTodos
  BY CallFields
<1>4. /\ Head(r.todo) \in {"lookup", "check", "call"} => Head(q.todo) \in {"lookup", "check"}
      /\ Head(r.todo) = "stream" => Head(q.todo) = "call"
  <2>1. ASSUME q.todo \in PlainTodos
        PROVE  /\ Head(Tail(q.todo)) \in {"lookup", "check", "call"} => Head(q.todo) \in {"lookup", "check"}
               /\ Head(Tail(q.todo)) # "stream"
    BY <1>1, <2>1, PlainEnds
  <2>2. ASSUME q.todo \in StreamTodos
        PROVE  /\ Head(Tail(q.todo)) \in {"lookup", "check", "call"} => Head(q.todo) \in {"lookup", "check"}
               /\ Head(Tail(q.todo)) = "stream" => Head(q.todo) = "call"
    BY <1>1, <2>2, StreamEnds
  <2> QED
    BY <1>2, <1>3, <2>1, <2>2
<1>7. /\ r.todo \in StreamTodos => q.todo \in StreamTodos
      /\ Head(r.todo) = "stream" => q.todo \in StreamTodos
      /\ Head(r.todo) \in {"check", "call"} /\ r.todo \in StreamTodos => Head(q.todo) \in {"check", "call"}
  <2>1. ASSUME q.todo \in PlainTodos PROVE Tail(q.todo) \notin StreamTodos /\ Head(Tail(q.todo)) # "stream"
    <3>1. Tail(q.todo) \in PlainTodos
      BY <1>1, <2>1, PlainEnds
    <3>2. \A t \in PlainTodos : t \notin StreamTodos
      BY PlainEnds, StreamEnds
    <3> QED
      BY <1>1, <2>1, <3>1, <3>2, PlainEnds
  <2>2. ASSUME q.todo \in StreamTodos
        PROVE  Head(Tail(q.todo)) \in {"check", "call"} => Head(q.todo) \in {"check", "call"}
    BY <1>1, <2>2, StreamEnds
  <2> QED
    BY <1>2, <1>3, <2>1, <2>2
<1> HIDE DEF r
<1>5. Len(<<>>) = 0 /\ DOMAIN <<>> = {}
  OBVIOUS
<1>6. StreamFits(r)
  <2>1. ASSUME Head(r.todo) = "stream"
        PROVE  r.out = <<>> /\ r.sent = 0 /\ r.taken = 0 /\ r.lost = 0 /\ r.end = "open" /\ ~ r.known
    BY <1>2, <1>4, <1>7, <2>1 DEF StreamFits
  <2>2. ASSUME Head(r.todo) \in {"lookup", "check", "call"}
        PROVE  r.out = <<>> /\ r.sent = 0 /\ r.taken = 0 /\ r.lost = 0 /\ r.late = 0 /\ r.end = "open"
    BY <1>2, <1>4, <2>2 DEF StreamFits
  <2>3. ASSUME Head(r.todo) \in {"check", "call"}, r.todo \in StreamTodos PROVE ~ r.known
    BY <1>2, <1>4, <1>7, <2>3 DEF StreamFits
  <2>4. Head(r.todo) = "stream" => r.taken + Len(r.out) + r.lost = r.sent + Told(r)
    BY <1>5, <2>1 DEF Told
  <2> QED
    BY <1>5, <2>1, <2>2, <2>3, <2>4, Numbers DEF StreamFits
<1> QED
  BY <1>1, <1>6

LEMMA FreshFits ==
    ASSUME NEW u \in Users, NEW i \in Institutions, NEW task \in Tasks, NEW p \in Prompts,
           NEW todo \in {Plain, Streamed}
    PROVE  StreamFits(Fresh(u, i, task, p, todo))
<1>1. Head(todo) \in {"lookup", "check"}
  BY FreshType
<1>2. todo \in StreamTodos => "stream" \in ToSet(todo) \/ Head(todo) \notin {"check", "call"}
  BY StreamEnds
<1> HIDE DEF Plain, Streamed
<1> QED
  BY <1>1, <1>2 DEF Fresh, StreamFits

(* What does not touch the stream.                                         *)
LEMMA OtherFits ==
    ASSUME NEW q \in CallRecord, StreamFits(q)
    PROVE  /\ \A cost : Head(q.todo) = "call" => StreamFits([q EXCEPT !.cost = cost])
           /\ StreamFits([q EXCEPT !.models = Tail(@)])
           /\ StreamFits([q EXCEPT !.live = FALSE])
<1>1. ASSUME NEW cost, Head(q.todo) = "call"
      PROVE  StreamFits([q EXCEPT !.cost = cost])
  <2> DEFINE r == [q EXCEPT !.cost = cost]
  <2>1. /\ r.todo = q.todo /\ r.out = q.out /\ r.sent = q.sent /\ r.taken = q.taken /\ r.lost = q.lost
        /\ r.late = q.late /\ r.end = q.end /\ r.known = q.known
    BY DEF CallRecord
  <2> HIDE DEF r
  <2>2. StreamFits(r)
    BY <1>1, <2>1 DEF StreamFits
  <2> QED
    BY <2>2 DEF r
<1>2. StreamFits([q EXCEPT !.models = Tail(@)])
  <2> DEFINE r == [q EXCEPT !.models = Tail(@)]
  <2>1. /\ r.todo = q.todo /\ r.out = q.out /\ r.sent = q.sent /\ r.taken = q.taken /\ r.lost = q.lost
        /\ r.late = q.late /\ r.end = q.end /\ r.live = q.live /\ r.known = q.known
    BY DEF CallRecord
  <2> HIDE DEF r
  <2>2. StreamFits(r)
    BY <2>1 DEF StreamFits, Told
  <2> QED
    BY <2>2 DEF r
<1>3. StreamFits([q EXCEPT !.live = FALSE])
  <2> DEFINE r == [q EXCEPT !.live = FALSE]
  <2>1. /\ r.todo = q.todo /\ r.out = q.out /\ r.sent = q.sent /\ r.taken = q.taken /\ r.lost = q.lost
        /\ r.late = q.late /\ r.end = q.end /\ r.live = FALSE /\ r.known = q.known
    BY DEF CallRecord
  <2> HIDE DEF r
  <2>2. StreamFits(r)
    BY <2>1 DEF StreamFits, Told
  <2> QED
    BY <2>2 DEF r
<1> QED
  BY <1>1, <1>2, <1>3

LEMMA GarbledFits ==
    ASSUME NEW q \in CallRecord, StreamFits(q), Head(q.todo) = "stream", q.end = "open", q.sent < MaxLines
    PROVE  StreamFits([q EXCEPT !.sent = @ + 1, !.lost = @ + 1])
<1> DEFINE r == [q EXCEPT !.sent = @ + 1, !.lost = @ + 1]
<1>1. /\ r.todo = q.todo /\ r.out = q.out /\ r.sent = q.sent + 1 /\ r.taken = q.taken /\ r.lost = q.lost + 1
      /\ r.end = q.end /\ r.known = q.known
  BY DEF CallRecord
<1>2. q.sent \in Nat /\ q.lost \in Nat /\ q.taken \in Nat /\ Len(q.out) \in Nat
  BY CallFields
<1> HIDE DEF r
<1>3. (\A k \in DOMAIN r.out : r.out[k] # "error") /\ q.taken + Len(q.out) + q.lost = q.sent + Told(q)
  BY <1>1 DEF StreamFits
<1>4. r.taken + Len(r.out) + r.lost = r.sent + Told(r) /\ r.lost # 0 /\ r.sent <= MaxLines
  <2>1. Told(r) = Told(q) /\ Told(q) \in {0, 1}
    BY <1>1 DEF Told
  <2> DEFINE told == Told(q)
             n == Len(q.out)
  <2>2. /\ q.taken + n + q.lost = q.sent + told /\ told \in {0, 1} /\ n \in Nat
        /\ Len(r.out) = n /\ Told(r) = told
    BY <1>1, <1>2, <1>3, <2>1
  <2> HIDE DEF told, n
  <2>3. q.taken + n + (q.lost + 1) = (q.sent + 1) + told /\ q.lost + 1 # 0
    BY <1>2, <2>2
  <2>4. q.sent + 1 <= MaxLines
    BY <1>2, Numbers
  <2> QED
    BY <1>1, <2>2, <2>3, <2>4
<1>6. ~ r.known /\ \A k \in DOMAIN r.out : r.out[k] # "usage"
  BY <1>1, <1>2, Numbers DEF StreamFits
<1>5. StreamFits(r)
  BY <1>1, <1>3, <1>4, <1>6 DEF StreamFits
<1> QED
  BY <1>5 DEF r

LEMMA SendFits ==
    ASSUME TypeInv, NEW c \in Calls, call[c] \in CallRecord, StreamFits(call[c]), Head(call[c].todo) = "stream",
           call[c].end = "open", call[c].sent < MaxLines
    PROVE  StreamFits(Send(c, IF call[c].sent = MaxLines - 1 THEN "usage" ELSE "line"))
<1> DEFINE q == call[c]
           x == IF q.sent = MaxLines - 1 THEN "usage" ELSE "line"
           r == Send(c, x)
<1>1. q.sent \in Nat /\ q.lost \in Nat /\ q.taken \in Nat /\ q.out \in Seq(Lines)
  BY CallFields
<1>2. /\ r.todo = q.todo /\ r.out = Append(q.out, x) /\ r.sent = q.sent + 1 /\ r.taken = q.taken
      /\ r.lost = q.lost /\ r.end = q.end /\ r.known = q.known
  BY DEF Send, CallRecord
<1>3. x \in Lines /\ x # "error" /\ (q.sent = MaxLines - 1 => x = "usage")
  BY DEF Lines
<1> HIDE DEF q, r, x
<1>4. Len(r.out) = Len(q.out) + 1 /\ Len(q.out) \in Nat /\ \A k \in 1 .. Len(q.out) : r.out[k] = q.out[k]
  BY <1>1, <1>2, <1>3, OutType
<1>5. r.out[Len(q.out) + 1] = x /\ DOMAIN r.out = 1 .. Len(q.out) + 1 /\ DOMAIN q.out = 1 .. Len(q.out)
  BY <1>1, <1>2, <1>3, OutType
<1>6. \A k \in DOMAIN r.out : r.out[k] # "error"
  <2>1. \A k \in DOMAIN q.out : q.out[k] # "error"
    BY DEF StreamFits, q
  <2> QED
    BY <1>3, <1>4, <1>5, <2>1
<1>7. r.sent <= MaxLines /\ r.taken + Len(r.out) + r.lost = r.sent + Told(r)
  <2>0. Told(r) = 0 /\ Told(q) = 0
    <3>1. \A k \in DOMAIN q.out : q.out[k] # "error"
      BY DEF StreamFits, q
    <3>2. \A k \in DOMAIN r.out : r.out[k] # "error"
      BY <1>6
    <3>3. Len(r.out) > 0 => Len(r.out) \in DOMAIN r.out
      BY <1>4, <1>5
    <3>4. Len(q.out) > 0 => Len(q.out) \in DOMAIN q.out
      BY <1>4, <1>5
    <3> QED
      BY <3>1, <3>2, <3>3, <3>4 DEF Told
  <2>1. q.taken + Len(q.out) + q.lost = q.sent
    <3>1. q.taken + Len(q.out) + q.lost = q.sent + Told(q)
      BY DEF StreamFits, q
    <3> QED
      BY <1>1, <2>0, <3>1
  <2>2. q.sent < MaxLines
    BY DEF q
  <2> QED
    BY <1>1, <1>2, <1>4, <2>0, <2>1, <2>2, Numbers
<1>11. r.known \/ (\E k \in DOMAIN r.out : r.out[k] = "usage") => r.sent = MaxLines
  <2>1. ~ q.known /\ \A k \in DOMAIN q.out : q.out[k] # "usage"
    <3>1. q.known \/ (\E k \in DOMAIN q.out : q.out[k] = "usage") => q.sent = MaxLines
      BY DEF StreamFits, q
    <3>2. q.sent # MaxLines
      BY <1>1, Numbers DEF q
    <3> QED
      BY <3>1, <3>2
  <2>2. q.sent + 1 = MaxLines \/ x = "line"
    BY <1>1, Numbers DEF x
  <2> QED
    BY <1>2, <1>4, <1>5, <2>1, <2>2
<1>8. r.sent = MaxLines => \E k \in DOMAIN r.out : r.out[k] = "usage"
  <2>1. r.sent = MaxLines => x = "usage"
    BY <1>1, <1>2, <1>3, Numbers
  <2>2. Len(q.out) + 1 \in DOMAIN r.out
    BY <1>4, <1>5
  <2> QED
    BY <1>5, <2>1, <2>2
<1>9. r.end = "open" /\ Head(r.todo) = "stream"
  BY <1>2 DEF q
<1>10. StreamFits(r)
  BY <1>6, <1>7, <1>8, <1>9, <1>11 DEF StreamFits
<1> QED
  BY <1>10 DEF r, x, q

(* The goroutine ends: the answer was read, or it tells an error, or there *)
(* is no room to tell one.                                                 *)
LEMMA CloseFits ==
    ASSUME TypeInv, NEW c \in Calls, call[c] \in CallRecord, StreamFits(call[c]), Head(call[c].todo) = "stream",
           call[c].end = "open"
    PROVE  /\ call[c].sent = MaxLines => StreamFits(Close(c, <<>>, "done"))
           /\ call[c].sent < MaxLines => StreamFits(Close(c, <<>>, "cut"))
           /\ StreamFits(Close(c, <<"error">>, "failed"))
           /\ ~ HasRoom(c) => StreamFits(Close(c, <<>>, "failed"))
           /\ ~ call[c].live => /\ StreamFits(Close(c, <<"error">>, "stopped"))
                                /\ StreamFits(Close(c, <<>>, "stopped"))
<1> DEFINE q == call[c]
<1>1. q.sent \in Nat /\ q.late \in Nat /\ q.out \in Seq(Lines) /\ Len(q.out) \in Nat
  BY CallFields
<1>2. q.out \o <<>> = q.out /\ q.out \o <<"error">> = Append(q.out, "error")
  BY <1>1, OutType DEF Lines
<1>3. ASSUME NEW end \in {"done", "cut"}, end = "done" => q.sent = MaxLines,
             end = "cut" => q.sent < MaxLines
      PROVE  StreamFits(Close(c, <<>>, end))
  <2> DEFINE r == Close(c, <<>>, end)
  <2>1. /\ r.todo = q.todo /\ r.out = q.out /\ r.sent = q.sent /\ r.taken = q.taken
        /\ r.lost = q.lost /\ r.end = end /\ r.known = q.known
    BY <1>2 DEF Close, CallRecord
  <2> HIDE DEF r
  <2>2. StreamFits(r)
    BY <1>3, <2>1 DEF StreamFits, Told
  <2> QED
    BY <2>2 DEF r
<1>4. ASSUME NEW end \in {"failed", "stopped"}, end = "stopped" => ~ q.live
      PROVE  StreamFits(Close(c, <<"error">>, end))
  <2> DEFINE r == Close(c, <<"error">>, end)
  <2>1. /\ r.todo = q.todo /\ r.out = Append(q.out, "error") /\ r.sent = q.sent /\ r.end = end /\ r.live = q.live
        /\ r.taken = q.taken /\ r.lost = q.lost /\ r.known = q.known
    BY <1>2 DEF Close, CallRecord
  <2>2. Len(r.out) = Len(q.out) + 1 /\ r.out[Len(q.out) + 1] = "error"
    BY <1>1, <2>1, OutType DEF Lines
  <2>3. Len(r.out) > 0 /\ r.out[Len(r.out)] = "error"
    BY <1>1, <2>2
  <2> HIDE DEF r
  <2>5. r.taken + Len(r.out) + r.lost = r.sent + Told(r)
    <3>1. Told(q) = 0
      <4>1. Len(q.out) > 0 => Len(q.out) \in DOMAIN q.out
        BY <1>1
      <4> QED
        BY <4>1 DEF StreamFits, Told
    <3>2. q.taken + Len(q.out) + q.lost = q.sent + Told(q)
      BY DEF StreamFits
    <3>3. q.taken \in Nat /\ q.lost \in Nat
      BY CallFields
    <3>4. Told(r) = 1
      BY <2>3 DEF Told
    <3> HIDE DEF q
    <3> QED
      BY <1>1, <2>1, <2>2, <3>1, <3>2, <3>3, <3>4
  <2>6. r.known \/ (\E k \in DOMAIN r.out : r.out[k] = "usage") => r.sent = MaxLines
    <3>1. ASSUME NEW k \in DOMAIN r.out, r.out[k] = "usage" PROVE \E j \in DOMAIN q.out : q.out[j] = "usage"
      BY <1>1, <2>1, <2>2, <3>1, OutType DEF Lines
    <3> QED
      BY <2>1, <3>1 DEF StreamFits
  <2>4. StreamFits(r)
    BY <1>4, <2>1, <2>3, <2>5, <2>6 DEF StreamFits
  <2> QED
    BY <2>4 DEF r
<1>5. ASSUME NEW end \in {"failed", "stopped"}, end = "stopped" => ~ q.live, end = "failed" => ~ HasRoom(c)
      PROVE  StreamFits(Close(c, <<>>, end))
  <2> DEFINE r == Close(c, <<>>, end)
  <2>1. /\ r.todo = q.todo /\ r.out = q.out /\ r.sent = q.sent /\ r.end = end /\ r.live = q.live /\ r.late = q.late
        /\ r.taken = q.taken /\ r.lost = q.lost /\ r.known = q.known
    BY <1>2 DEF Close, CallRecord
  <2>2. end = "failed" => r.late + Len(r.out) >= Room
    BY <1>1, <1>5, <2>1, Numbers DEF HasRoom
  <2> HIDE DEF r
  <2>3. StreamFits(r)
    BY <1>5, <2>1, <2>2 DEF StreamFits, Told
  <2> QED
    BY <2>3 DEF r
<1> QED
  BY <1>3, <1>4, <1>5

LEMMA TakeFits ==
    ASSUME NEW q \in CallRecord, StreamFits(q), Head(q.todo) = "stream", q.out # <<>>, Head(q.out) # "error"
    PROVE  StreamFits(TakenFrom(q))
<1> DEFINE r == TakenFrom(q)
<1>1. q.sent \in Nat /\ q.late \in Nat /\ q.out \in Seq(Lines) /\ q.lost \in Nat /\ q.taken \in Nat /\ q.end \in Ends
  BY CallFields
<1>2. /\ Len(q.out) \in Nat /\ Len(q.out) > 0 /\ Len(Tail(q.out)) = Len(q.out) - 1 /\ Head(q.out) = q.out[1]
      /\ \A k \in 1 .. Len(Tail(q.out)) : Tail(q.out)[k] = q.out[k + 1]
      /\ DOMAIN q.out = 1 .. Len(q.out) /\ DOMAIN Tail(q.out) = 1 .. Len(q.out) - 1
  BY <1>1, HeadType
<1>3. /\ r.todo = q.todo /\ r.out = Tail(q.out) /\ r.sent = q.sent /\ r.taken = q.taken + 1 /\ r.lost = q.lost
      /\ r.end = q.end /\ r.live = q.live /\ (r.known <=> q.known \/ Head(q.out) = "usage")
      /\ (q.end = "open" => r.late = q.late) /\ (q.end # "open" => r.late = q.late + 1)
  BY DEF TakenFrom, CallRecord
<1> HIDE DEF r
<1>4. q.end \in {"open", "done", "cut"} => \A k \in DOMAIN r.out : r.out[k] # "error"
  <2> HAVE q.end \in {"open", "done", "cut"}
  <2>1. \A k \in DOMAIN q.out : q.out[k] # "error"
    BY DEF StreamFits
  <2> QED
    BY <1>2, <1>3, <2>1
<1>9. r.taken + Len(r.out) + r.lost = r.sent + Told(r)
  <2>1. q.taken + Len(q.out) + q.lost = q.sent + Told(q)
    BY DEF StreamFits
  <2>2. Told(r) = Told(q) /\ Told(q) \in {0, 1}
    <3>1. CASE Len(q.out) = 1
      <4>1. Told(q) = 0
        BY <1>2, <3>1 DEF Told
      <4>2. Told(r) = 0
        BY <1>2, <1>3, <3>1 DEF Told
      <4> QED
        BY <4>1, <4>2
    <3>2. CASE Len(q.out) # 1
      <4> DEFINE n == Len(q.out)
                 m == Len(r.out)
      <4>1. m = n - 1 /\ n \in Nat /\ n > 0 /\ n # 1 /\ Len(Tail(q.out)) = m
        BY <1>2, <1>3, <3>2
      <4>2. \A k \in 1 .. m : r.out[k] = q.out[k + 1]
        BY <1>2, <1>3
      <4> HIDE DEF n, m
      <4>3. m \in 1 .. m /\ m > 0 /\ m + 1 = n
        BY <4>1
      <4>4. r.out[m] = q.out[n]
        BY <4>2, <4>3
      <4> QED
        BY <4>1, <4>3, <4>4 DEF Told, n, m
    <3> QED
      BY <3>1, <3>2
  <2> DEFINE told == Told(q)
             n == Len(q.out)
  <2>3. /\ q.taken + n + q.lost = q.sent + told /\ told \in {0, 1} /\ n \in Nat /\ n > 0
        /\ Len(r.out) = n - 1 /\ Told(r) = told
    BY <1>2, <1>3, <2>1, <2>2
  <2> HIDE DEF told, n
  <2>4. (q.taken + 1) + (n - 1) + q.lost = q.sent + told
    BY <1>1, <2>3
  <2> QED
    BY <1>3, <2>3, <2>4
<1>10. r.known \/ (\E k \in DOMAIN r.out : r.out[k] = "usage") => r.sent = MaxLines
  <2>1. ASSUME NEW k \in DOMAIN r.out, r.out[k] = "usage" PROVE \E j \in DOMAIN q.out : q.out[j] = "usage"
    <3>1. k + 1 \in DOMAIN q.out /\ q.out[k + 1] = "usage"
      BY <1>2, <1>3, <2>1
    <3> QED
      BY <3>1
  <2>2. Head(q.out) = "usage" => \E j \in DOMAIN q.out : q.out[j] = "usage"
    BY <1>2
  <2> QED
    BY <1>3, <2>1, <2>2 DEF StreamFits
<1>5. ASSUME q.end \in {"open", "done", "cut"}, q.lost = 0, q.sent = MaxLines, ~ r.known
      PROVE  \E k \in DOMAIN r.out : r.out[k] = "usage"
  <2>1. ~ q.known /\ Head(q.out) # "usage"
    BY <1>3, <1>5
  <2>2. PICK k \in DOMAIN q.out : q.out[k] = "usage"
    BY <1>5, <2>1 DEF StreamFits
  <2>3. k # 1 /\ k \in 1 .. Len(q.out)
    BY <1>2, <2>1, <2>2
  <2>4. k - 1 \in DOMAIN r.out /\ r.out[k - 1] = q.out[k]
    <3>1. k - 1 \in 1 .. Len(Tail(q.out)) /\ (k - 1) + 1 = k
      BY <1>2, <2>3
    <3> QED
      BY <1>2, <1>3, <3>1
  <2> QED
    BY <2>2, <2>4
<1>6. q.end = "failed" => \/ r.late + Len(r.out) >= Room
                          \/ Len(r.out) > 0 /\ r.out[Len(r.out)] = "error"
  <2> HAVE q.end = "failed"
  <2>1. CASE q.late + Len(q.out) >= Room
    BY <1>1, <1>2, <1>3, <2>1, Numbers
  <2>2. CASE q.out[Len(q.out)] = "error"
    <3>1. Len(q.out) # 1
      BY <1>2, <2>2
    <3>2. Len(r.out) > 0 /\ Len(r.out) \in 1 .. Len(Tail(q.out)) /\ Len(r.out) + 1 = Len(q.out)
      <4>1. Len(r.out) = Len(q.out) - 1 /\ Len(Tail(q.out)) = Len(r.out)
        BY <1>2, <1>3
      <4>2. Len(q.out) \in Nat /\ Len(q.out) > 0
        BY <1>2
      <4> DEFINE n == Len(q.out)
                 m == Len(r.out)
      <4>3. m = n - 1 /\ n \in Nat /\ n > 0 /\ n # 1
        BY <3>1, <4>1, <4>2
      <4> HIDE DEF n, m
      <4>4. m > 0 /\ m \in 1 .. m /\ m + 1 = n
        BY <4>3
      <4> QED
        BY <4>1, <4>4 DEF n, m
    <3> QED
      BY <1>2, <1>3, <2>2, <3>2
  <2> QED
    BY <2>1, <2>2 DEF StreamFits
<1>7. /\ r.sent <= MaxLines /\ (r.end = "done" => r.sent = MaxLines) /\ (r.end = "stopped" => ~ r.live)
      /\ r.end = "cut" => r.sent < MaxLines
  BY <1>3 DEF StreamFits
<1>8. StreamFits(r)
  BY <1>3, <1>4, <1>5, <1>6, <1>7, <1>9, <1>10 DEF StreamFits
<1> QED
  BY <1>8 DEF r

LEMMA StreamUpdate ==
    ASSUME TypeInv, StreamInv, NEW c \in Calls, NEW q \in {Idle} \cup CallRecord, Update(c, q),
           q # Idle => StreamFits(q)
    PROVE  StreamInv'
<1>1. call'[c] = q /\ \A d \in Calls \ {c} : call'[d] = call[d]
  BY UpdateType
<1>2. ASSUME NEW d \in Calls, call'[d] # Idle PROVE StreamFits(call'[d])
  BY <1>1, <1>2 DEF StreamInv
<1> QED
  BY <1>2 DEF StreamInv

LEMMA StreamSame == StreamInv /\ UNCHANGED call => StreamInv'
BY DEF StreamInv

LEMMA FitsNow ==
    ASSUME TypeInv, StreamInv, NEW c \in Calls, call[c] \in CallRecord
    PROVE  StreamFits(call[c])
BY NotIdle DEF StreamInv

LEMMA StreamAdvance ==
    ASSUME TypeInv, StreamInv, NEW c \in Calls, NEW q \in CallRecord, StreamFits(q), Update(c, After(q))
    PROVE  StreamInv'
BY AfterType, AfterFits, StreamUpdate

LEMMA StreamOver ==
    ASSUME TypeInv, StreamInv, NEW c \in Calls, Over(c)
    PROVE  StreamInv'
BY StreamUpdate DEF Over

LEMMA GoroutineKeeps ==
    ASSUME TypeInv, StreamInv, NEW c \in Calls, StreamNext(c)
    PROVE  StreamInv'
<1>0. call[c] \in CallRecord /\ Head(call[c].todo) = "stream" /\ StreamFits(call[c])
  BY StreamSteps, OpenMeans, FitsNow
<1>1. CASE Forward(c)
  <2>1. Send(c, IF call[c].sent = MaxLines - 1 THEN "usage" ELSE "line") \in CallRecord
    BY <1>0, SendMoves DEF Lines, Ends
  <2> QED
    BY <1>0, <1>1, <2>1, SendFits, StreamUpdate DEF Forward, Open
<1>2. CASE Garbled(c)
  BY <1>0, <1>2, GarbledMoves, GarbledFits, StreamUpdate DEF Garbled, Open
<1>3. ASSUME NEW end \in Ends, Close(c, <<>>, end) = Close(c, <<>>, end)
      PROVE  Close(c, <<>>, end) \in CallRecord /\ Close(c, <<"error">>, end) \in CallRecord
  BY <1>0, SendMoves DEF Lines
<1>4. CASE Finished(c)
  <2>1. Close(c, <<>>, "done") \in CallRecord
    BY <1>3 DEF Ends
  <2> QED
    BY <1>0, <1>4, <2>1, CloseFits, StreamUpdate DEF Finished, Open
<1>10. CASE EndsEarly(c)
  <2>1. Close(c, <<>>, "cut") \in CallRecord
    BY <1>3 DEF Ends
  <2> QED
    BY <1>0, <1>10, <2>1, CloseFits, StreamUpdate DEF EndsEarly, Open
<1>5. CASE ProviderError(c)
  <2>1. Close(c, <<"error">>, "failed") \in CallRecord
    BY <1>3 DEF Ends
  <2> QED
    BY <1>0, <1>5, <2>1, CloseFits, StreamUpdate DEF ProviderError, Open
<1>6. CASE Broken(c)
  <2>1. Close(c, <<>>, "failed") \in CallRecord /\ Close(c, <<"error">>, "failed") \in CallRecord
    BY <1>3 DEF Ends
  <2>2. CASE HasRoom(c)
    BY <1>0, <1>6, <2>1, <2>2, CloseFits, StreamUpdate DEF Broken, Open
  <2>3. CASE ~ HasRoom(c)
    BY <1>0, <1>6, <2>1, <2>3, CloseFits, StreamUpdate DEF Broken, Open
  <2> QED
    BY <2>2, <2>3
<1>7. CASE Stopped(c)
  <2>1. Close(c, <<>>, "stopped") \in CallRecord /\ Close(c, <<"error">>, "stopped") \in CallRecord
    BY <1>3 DEF Ends
  <2>2. \/ Update(c, Close(c, <<"error">>, "stopped"))
        \/ Update(c, Close(c, <<>>, "stopped"))
    BY <1>7 DEF Stopped
  <2>3. ~ call[c].live /\ call[c].end = "open"
    BY <1>7 DEF Stopped, Open
  <2> QED
    BY <1>0, <2>1, <2>2, <2>3, CloseFits, StreamUpdate
<1>8. CASE Take(c)
  <2>1. CASE Head(call[c].out) = "error"
    BY <1>8, <2>1, StreamOver DEF Take
  <2>2. CASE Head(call[c].out) # "error"
    <3>1. call[c].out # <<>> /\ Update(c, TakenFrom(call[c]))
      BY <1>8, <2>2 DEF Take, TakenFrom
    <3> QED
      BY <1>0, <2>2, <3>1, TakeMoves, TakeFits, StreamUpdate
  <2> QED
    BY <2>1, <2>2
<1>9. CASE TakeEnd(c)
  BY <1>0, <1>9, StreamOver, StreamAdvance, AdvanceMeans DEF TakeEnd
<1> QED
  BY <1>1, <1>2, <1>4, <1>5, <1>6, <1>7, <1>8, <1>9, <1>10 DEF StreamNext

LEMMA CallNextKeeps ==
    ASSUME TypeInv, StreamInv, NEW c \in Calls, CallNext(c)
    PROVE  StreamInv'
<1>0. call[c] \in CallRecord /\ StreamFits(call[c])
  BY CallNextType, FitsNow
<1>1. CASE Leave(c)
  <2>1. [call[c] EXCEPT !.live = FALSE] \in CallRecord
    BY <1>0 DEF CallRecord
  <2> QED
    BY <1>0, <1>1, <2>1, OtherFits, StreamUpdate DEF Leave
<1>2. CASE GiveUp(c)
  BY <1>2, StreamOver DEF GiveUp
<1>3. ASSUME Attempt(c), Update(c, [call[c] EXCEPT !.models = Tail(@)]) PROVE StreamInv'
  BY <1>0, <1>3, RefusedMoves, OtherFits, StreamUpdate
<1>4. ASSUME NEW reported \in Reported, Complete(c, reported) PROVE StreamInv'
  <2> DEFINE cost == ParseCost(Head(call[c].models), reported)
             q == [call[c] EXCEPT !.cost = cost]
  <2>1. Attempt(c) /\ Head(call[c].todo) = "call"
    BY <1>4, AttemptMeans DEF Complete
  <2>2. q \in CallRecord
    BY <2>1, CompleteMoves
  <2>3. StreamFits(q)
    BY <1>0, <2>1, OtherFits
  <2>4. Advance(c, q)
    BY <1>4 DEF Complete
  <2> HIDE DEF q
  <2> QED
    BY <2>2, <2>3, <2>4, AdvanceMeans, StreamAdvance
<1> QED
  BY <1>1, <1>2, <1>3, <1>4, GoroutineKeeps DEF CallNext, Refused, LostAnswer

LEMMA StreamNextKeeps == TypeInv /\ StreamInv /\ [Next]_vars => StreamInv'
<1> SUFFICES ASSUME TypeInv, StreamInv, [Next]_vars PROVE StreamInv'
  OBVIOUS
<1>1. ASSUME NEW c \in Calls, CallStep(c) PROVE StreamInv'
  <2>1. ASSUME NEW todo \in {Plain, Streamed}, Begin(c, todo) PROVE StreamInv'
    <3>1. PICK u \in Users, i \in Institutions, k \in Tasks, p \in Prompts : Update(c, Fresh(u, i, k, p, todo))
      BY <2>1, BeginMeans
    <3>2. Fresh(u, i, k, p, todo) \in CallRecord
      BY FreshType
    <3>3. StreamFits(Fresh(u, i, k, p, todo))
      BY FreshFits
    <3> QED
      BY <3>1, <3>2, <3>3, StreamUpdate
  <2>2. CASE StepFails(c)
    BY <2>2, StepFailsMeans, StreamOver
  <2>3. CASE CacheGet(c)
    BY <2>3, CacheGetMeans, FitsNow, StreamOver, StreamAdvance
  <2>4. ASSUME NEW s, Step(c, s) PROVE StreamInv'
    BY <2>4, StepMeans, FitsNow, StreamAdvance
  <2>5. CASE CheckSpend(c)
    BY <2>5, CheckSpendMeans, FitsNow, StreamOver, StreamAdvance
  <2>6. CASE CacheSet(c) \/ RecordSpend(c) \/ IncrementMetrics(c)
    BY <2>4, <2>6 DEF CacheSet, RecordSpend, IncrementMetrics
  <2>7. CASE CallNext(c)
    BY <2>7, CallNextKeeps
  <2> QED
    BY <1>1, <2>1, <2>2, <2>3, <2>5, <2>6, <2>7 DEF CallStep
<1>2. CASE ByOthers
  <2>1. UNCHANGED call
    BY <1>2 DEF ByOthers, CacheDelete, SetBudgetCeiling, GetSlidingWindowSpend, ResetInstitutionMetrics, callVars
  <2> QED
    BY <2>1, StreamSame
<1>3. CASE Pass
  BY <1>3, StreamSame DEF Pass, Tick
<1>4. CASE UNCHANGED vars
  BY <1>4, StreamSame DEF vars, callVars
<1> QED
  BY <1>1, <1>2, <1>3, <1>4, NextMeans

LEMMA StreamInit == Init => StreamInv
BY DEF Init, CallsInit, StreamInv

(* What a stream that ends without an error has told its caller            *)
(* (processSSEStream).                                                     *)
LEMMA QuietEnd == TypeInv /\ StreamInv => QuietEndIsComplete
<1> SUFFICES ASSUME TypeInv, StreamInv, NEW c \in Calls, ReachedEnd(c)
             PROVE  /\ call[c].known => call[c].taken + call[c].lost = MaxLines
                    /\ CASE call[c].end = "done" -> call[c].taken + call[c].lost = MaxLines
                         [] call[c].end = "cut" -> /\ ~ call[c].known
                                                   /\ call[c].taken + call[c].lost = call[c].sent
                         [] call[c].end = "failed" -> call[c].late >= Room
                         [] OTHER -> ~ call[c].live
  BY DEF QuietEndIsComplete
<1>1. call[c] \in CallRecord /\ Head(call[c].todo) = "stream" /\ StreamFits(call[c])
  BY OpenMeans, FitsNow DEF ReachedEnd
<1>2. call[c].out = <<>> /\ call[c].end # "open" /\ call[c].end \in Ends
      /\ call[c].taken \in Nat /\ call[c].lost \in Nat /\ call[c].late \in Nat /\ call[c].sent \in Nat
  BY <1>1, CallFields DEF ReachedEnd
<1>3. Len(call[c].out) = 0 /\ Told(call[c]) = 0
  BY <1>2 DEF Told
<1>7. call[c].taken + call[c].lost = call[c].sent /\ (call[c].known => call[c].sent = MaxLines)
  <2>1. /\ call[c].taken + Len(call[c].out) + call[c].lost = call[c].sent + Told(call[c])
        /\ call[c].known => call[c].sent = MaxLines
    BY <1>1 DEF StreamFits
  <2> QED
    BY <1>2, <1>3, <2>1
<1>4. CASE call[c].end = "done"
  BY <1>1, <1>4, <1>7 DEF StreamFits
<1>8. CASE call[c].end = "cut"
  <2>1. call[c].sent < MaxLines
    BY <1>1, <1>8 DEF StreamFits
  <2>2. ~ call[c].known
    BY <1>2, <1>7, <2>1, Numbers
  <2> QED
    BY <1>7, <1>8, <2>2
<1>5. CASE call[c].end = "failed"
  <2>1. call[c].late + Len(call[c].out) >= Room
    BY <1>1, <1>3, <1>5 DEF StreamFits
  <2> QED
    BY <1>2, <1>3, <1>5, <1>7, <2>1
<1>6. CASE call[c].end = "stopped"
  BY <1>1, <1>6, <1>7 DEF StreamFits
<1> QED
  BY <1>2, <1>4, <1>5, <1>6, <1>8 DEF Ends

-----------------------------------------------------------------------------
(* Amounts in a window.                                                    *)
LEMMA SinceIs ==
    ASSUME NEW amounts, NEW from
    PROVE  Since(amounts, from) = SumOf(amounts, {t \in Times : t >= from})
BY DEF Since

LEMMA Windowed ==
    ASSUME NEW from \in Nat
    PROVE  /\ IsFiniteSet({t \in Times : t >= from})
           /\ {t \in Times : t >= from} \subseteq Times
<1>1. IsFiniteSet(Times)
  BY Numbers, FS_Interval DEF Times
<1> QED
  BY <1>1, FS_Subset

LEMMA SinceType ==
    ASSUME NEW amounts \in [Times -> Nat], NEW from \in Nat
    PROVE  Since(amounts, from) \in Nat
BY SinceIs, Windowed, SumType

LEMMA SinceZero ==
    ASSUME NEW amounts, NEW from \in Nat, \A t \in Times : t >= from => amounts[t] = 0
    PROVE  Since(amounts, from) = 0
BY SinceIs, Windowed, SumZero

LEMMA SinceAdd ==
    ASSUME NEW amounts \in [Times -> Nat], NEW from \in Nat, NEW t \in Times, NEW n \in Nat
    PROVE  /\ Since(amounts, from) \in Nat
           /\ Since([amounts EXCEPT ![t] = @ + n], from) =
                IF t >= from THEN Since(amounts, from) + n ELSE Since(amounts, from)
<1> DEFINE g == [amounts EXCEPT ![t] = @ + n]
           S == {s \in Times : s >= from}
<1>1. /\ g \in [Times -> Nat] /\ g[t] = amounts[t] + n /\ \A s \in Times \ {t} : g[s] = amounts[s]
      /\ amounts[t] \in Nat
  OBVIOUS
<1>2. IsFiniteSet(S) /\ S \subseteq Times /\ (t \in S <=> t >= from)
  BY Windowed
<1>3. Since(amounts, from) = SumOf(amounts, S) /\ Since(g, from) = SumOf(g, S)
  BY SinceIs
<1>4. Since(amounts, from) \in Nat /\ Since(g, from) \in Nat
  BY <1>1, SinceType
<1> HIDE DEF g, S
<1>5. CASE t >= from
  <2>1. SumOf(g, S) + amounts[t] = SumOf(amounts, S) + g[t]
    BY <1>1, <1>2, <1>5, SumChange
  <2>2. Since(g, from) = Since(amounts, from) + n
    BY <1>1, <1>3, <1>4, <2>1
  <2> QED
    BY <1>4, <1>5, <2>2 DEF g
<1>6. CASE ~ (t >= from)
  <2>1. \A s \in S : amounts[s] \in Nat /\ amounts[s] = g[s]
    BY <1>1, <1>2, <1>6
  <2>2. SumOf(amounts, S) = SumOf(g, S)
    BY <1>2, <2>1, SumSame
  <2> QED
    BY <1>3, <1>4, <1>6, <2>2 DEF g
<1> QED
  BY <1>5, <1>6

(* What is under way.                                                      *)
LEMMA WorthType ==
    ASSUME NEW q \in {Idle} \cup CallRecord, NEW i
    PROVE  Worth(q, i) \in Nat /\ Worth(q, i) <= MaxCost
<1>1. MaxCost \in Nat
  BY LargestCost
<1>2. q # Idle => q.cost \in Costs
  BY CallFields
<1> QED
  BY <1>1, <1>2 DEF Worth, Costs

LEMMA PendingType ==
    ASSUME TypeInv, NEW i
    PROVE  Pending(i) \in Nat
<1> DEFINE f == [c \in Calls |-> Worth(call[c], i)]
<1>1. \A c \in Calls : f[c] \in Nat
  BY WorthType DEF TypeInv
<1> HIDE DEF f
<1>2. SumOf(f, Calls) \in Nat
  BY <1>1, Numbers, SumType
<1> QED
  BY <1>2 DEF Pending, f

LEMMA PendingStep ==
    ASSUME TypeInv, TypeInv', NEW c \in Calls, \A d \in Calls \ {c} : call'[d] = call[d], NEW i
    PROVE  /\ Pending(i) \in Nat /\ Pending(i)' \in Nat
           /\ Worth(call[c], i) \in Nat /\ Worth(call'[c], i) \in Nat
           /\ Pending(i)' + Worth(call[c], i) = Pending(i) + Worth(call'[c], i)
<1> DEFINE f == [d \in Calls |-> Worth(call[d], i)]
           g == [d \in Calls |-> Worth(call'[d], i)]
<1>1. \A d \in Calls : f[d] \in Nat /\ g[d] \in Nat
  BY WorthType DEF TypeInv
<1>2. \A d \in Calls \ {c} : g[d] = f[d]
  OBVIOUS
<1>3. f[c] = Worth(call[c], i) /\ g[c] = Worth(call'[c], i)
  OBVIOUS
<1>4. Pending(i) = SumOf(f, Calls) /\ Pending(i)' = SumOf(g, Calls)
  BY DEF Pending
<1> HIDE DEF f, g
<1>5. /\ SumOf(f, Calls) \in Nat /\ SumOf(g, Calls) \in Nat
      /\ SumOf(g, Calls) + f[c] = SumOf(f, Calls) + g[c]
  BY <1>1, <1>2, Numbers, SumChange
<1> QED
  BY <1>1, <1>3, <1>4, <1>5

LEMMA PendingSame == ASSUME UNCHANGED call, NEW i PROVE Pending(i)' = Pending(i)
BY DEF Pending

LEMMA FaultPays ==
    ASSUME NEW f \in Nat
    PROVE  MaxCost \in Nat /\ MaxCost * f \in Nat /\ MaxCost * (f + 1) = MaxCost * f + MaxCost
<1>1. MaxCost \in Nat
  BY LargestCost
<1> DEFINE m == MaxCost
<1>2. m \in Nat
  BY <1>1
<1> HIDE DEF m
<1>3. m * f \in Nat /\ m * (f + 1) = m * f + m
  BY <1>2
<1> QED
  BY <1>2, <1>3 DEF m

(* What is charged at a step of a call, and what may be left of it.        *)
SpendAt(i, from) ==
    Since(billed[i], from) <= Since(recorded[i], from) + Pending(i) + MaxCost * faults
LEMMA SpendInvIs ==
    SpendInv <=> \A i \in Institutions : /\ \A t \in Times : t > now => billed[i][t] = 0
                                         /\ \A from \in 0 .. now : SpendAt(i, from)
BY DEF SpendInv, SpendAt

LEMMA SpendQuiet ==
    ASSUME TypeInv, TypeInv', SpendInv, NEW c \in Calls, \A d \in Calls \ {c} : call'[d] = call[d],
           UNCHANGED <<now, billed, recorded>>,
           \/ faults' = faults + 1
           \/ faults' = faults /\ \A i \in Institutions : Worth(call'[c], i) >= Worth(call[c], i)
    PROVE  SpendInv'
<1>1. ASSUME NEW i \in Institutions, NEW from \in 0 .. now PROVE SpendAt(i, from)'
  <2> DEFINE b == Since(billed[i], from)
             r == Since(recorded[i], from)
             p == Pending(i)
             pp == Pending(i)'
             w == Worth(call[c], i)
             ww == Worth(call'[c], i)
             m == MaxCost * faults
             mm == MaxCost * faults'
  <2>1. b \in Nat /\ r \in Nat
    <3>1. billed[i] \in [Times -> Nat] /\ recorded[i] \in [Times -> Nat] /\ from \in Nat
      BY DEF TypeInv, Times
    <3> QED
      BY <3>1, SinceType
  <2>2. p \in Nat /\ pp \in Nat /\ w \in Nat /\ ww \in Nat /\ pp + w = p + ww
    BY PendingStep
  <2>3. w <= MaxCost
    BY WorthType DEF TypeInv
  <2>4. m \in Nat /\ mm \in Nat /\ MaxCost \in Nat /\ (faults' = faults => mm = m)
        /\ (faults' = faults + 1 => mm = m + MaxCost)
    <3>1. faults \in Nat /\ faults' \in Nat
      BY DEF TypeInv
    <3> QED
      BY <3>1, FaultPays
  <2>5. b <= r + p + m
    BY SpendInvIs DEF SpendAt
  <2>6. SpendAt(i, from)' <=> b <= r + pp + mm
    BY DEF SpendAt
  <2>7. \/ faults' = faults + 1
        \/ faults' = faults /\ ww >= w
    OBVIOUS
  <2> HIDE DEF b, r, p, pp, w, ww, m, mm
  <2>8. b <= r + pp + mm
    BY <2>1, <2>2, <2>3, <2>4, <2>5, <2>7
  <2> QED
    BY <2>6, <2>8
<1>2. now' = now /\ \A i \in Institutions : \A t \in Times : t > now' => billed'[i][t] = 0
  BY SpendInvIs
<1>3. (\A i \in Institutions : /\ \A t \in Times : t > now => billed[i][t] = 0
                               /\ \A from \in 0 .. now : SpendAt(i, from))'
  BY <1>1, <1>2
<1> QED
  BY <1>3, SpendInvIs, PTL

(* A charge: it is under way then, or its answer is lost.                  *)
LEMMA SpendCharge ==
    ASSUME TypeInv, TypeInv', SpendInv, NEW c \in Calls, \A d \in Calls \ {c} : call'[d] = call[d],
           call[c] \in CallRecord, NEW cost \in Costs, Charge(c, cost), UNCHANGED <<now, recorded>>,
           \A i \in Institutions : Worth(call[c], i) = 0,
           \/ faults' = faults + 1
           \/ faults' = faults /\ Worth(call'[c], call[c].inst) = cost
    PROVE  SpendInv'
<1> DEFINE j == call[c].inst
<1>0. j \in Institutions /\ now \in Times /\ now \in Nat /\ cost \in Nat /\ cost <= MaxCost
  BY CallFields, Numbers DEF TypeInv, Costs
<1>1. /\ billed'[j] = [billed[j] EXCEPT ![now] = @ + cost]
      /\ \A i \in Institutions \ {j} : billed'[i] = billed[i]
      /\ \A i \in Institutions : recorded'[i] = recorded[i]
  BY <1>0 DEF Charge, TypeInv
<1> HIDE DEF j
<1>2. ASSUME NEW i \in Institutions, NEW from \in 0 .. now PROVE SpendAt(i, from)'
  <2> DEFINE b == Since(billed[i], from)
             bb == Since(billed'[i], from)
             r == Since(recorded[i], from)
             p == Pending(i)
             pp == Pending(i)'
             w == Worth(call[c], i)
             ww == Worth(call'[c], i)
             m == MaxCost * faults
             mm == MaxCost * faults'
  <2>0. billed[i] \in [Times -> Nat] /\ billed'[i] \in [Times -> Nat] /\ recorded[i] \in [Times -> Nat] /\ from \in Nat
    BY DEF TypeInv, Times
  <2>1. b \in Nat /\ r \in Nat /\ bb \in Nat
    BY <2>0, SinceType
  <2>2. p \in Nat /\ pp \in Nat /\ w \in Nat /\ ww \in Nat /\ pp + w = p + ww
    BY PendingStep
  <2>3. w = 0
    OBVIOUS
  <2>4. m \in Nat /\ mm \in Nat /\ MaxCost \in Nat /\ (faults' = faults => mm = m)
        /\ (faults' = faults + 1 => mm = m + MaxCost)
    <3>1. faults \in Nat /\ faults' \in Nat
      BY DEF TypeInv
    <3> QED
      BY <3>1, FaultPays
  <2>5. b <= r + p + m
    BY SpendInvIs DEF SpendAt
  <2>6. SpendAt(i, from)' <=> bb <= r + pp + mm
    BY <1>1 DEF SpendAt
  <2>7. bb <= b + cost /\ (i # j => bb = b)
    <3>1. CASE i = j
      <4>0. billed'[i] = [billed[i] EXCEPT ![now] = @ + cost]
        BY <1>1, <3>1
      <4>1. bb = Since([billed[i] EXCEPT ![now] = @ + cost], from)
        BY <4>0
      <4>2. billed[i] \in [Times -> Nat] /\ from \in Nat /\ cost \in Nat /\ now \in Times
        BY <1>0, <2>0
      <4>3. Since([billed[i] EXCEPT ![now] = @ + cost], from) =
              IF now >= from THEN Since(billed[i], from) + cost ELSE Since(billed[i], from)
        BY <4>2, SinceAdd
      <4>4. bb = IF now >= from THEN b + cost ELSE b
        BY <4>1, <4>3, Zenon
      <4> HIDE DEF b, bb
      <4> QED
        BY <1>0, <2>1, <3>1, <4>4
    <3>2. CASE i # j
      <4>1. bb = b
        BY <1>1, <3>2
      <4> HIDE DEF b, bb
      <4> QED
        BY <1>0, <2>1, <4>1
    <3> QED
      BY <3>1, <3>2
  <2>8. \/ faults' = faults + 1
        \/ faults' = faults /\ (i = j => ww = cost)
    BY DEF j
  <2> HIDE DEF b, bb, r, p, pp, w, ww, m, mm
  <2>9. bb <= r + pp + mm
    BY <1>0, <2>1, <2>2, <2>3, <2>4, <2>5, <2>7, <2>8
  <2> QED
    BY <2>6, <2>9
<1>3. ASSUME NEW i \in Institutions, NEW t \in Times, t > now PROVE billed'[i][t] = 0
  <2>1. billed[i][t] = 0 /\ t # now /\ billed[i] \in [Times -> Nat]
    BY <1>0, <1>3, SpendInvIs, Numbers DEF TypeInv
  <2> QED
    BY <1>0, <1>1, <2>1
<1>4. (\A i \in Institutions : /\ \A t \in Times : t > now => billed[i][t] = 0
                               /\ \A from \in 0 .. now : SpendAt(i, from))'
  BY <1>2, <1>3
<1> QED
  BY <1>4, SpendInvIs, PTL

(* A record: what was under way is in the window.                          *)
LEMMA SpendRecord ==
    ASSUME TypeInv, TypeInv', SpendInv, NEW c \in Calls, \A d \in Calls \ {c} : call'[d] = call[d],
           call[c] \in CallRecord, UNCHANGED <<now, billed, faults>>,
           recorded' = [recorded EXCEPT ![call[c].inst][now] = @ + call[c].cost]
    PROVE  SpendInv'
<1> DEFINE j == call[c].inst
           cost == call[c].cost
<1>0. j \in Institutions /\ now \in Times /\ now \in Nat /\ cost \in Nat
  BY CallFields, Numbers DEF TypeInv, Costs
<1>1. /\ recorded'[j] = [recorded[j] EXCEPT ![now] = @ + cost]
      /\ \A i \in Institutions \ {j} : recorded'[i] = recorded[i]
      /\ \A i \in Institutions : billed'[i] = billed[i]
  BY <1>0 DEF TypeInv
<1>2. ASSUME NEW i \in Institutions
      PROVE  Worth(call[c], i) <= cost /\ (i # j => Worth(call[c], i) = 0)
  BY <1>0 DEF Worth
<1> HIDE DEF j, cost
<1>3. ASSUME NEW i \in Institutions, NEW from \in 0 .. now PROVE SpendAt(i, from)'
  <2> DEFINE b == Since(billed[i], from)
             r == Since(recorded[i], from)
             rr == Since(recorded'[i], from)
             p == Pending(i)
             pp == Pending(i)'
             w == Worth(call[c], i)
             ww == Worth(call'[c], i)
             m == MaxCost * faults
  <2>0. billed[i] \in [Times -> Nat] /\ recorded[i] \in [Times -> Nat] /\ recorded'[i] \in [Times -> Nat] /\ from \in Nat
        /\ now >= from
    BY <1>0 DEF TypeInv, Times
  <2>1. b \in Nat /\ r \in Nat /\ rr \in Nat
    BY <2>0, SinceType
  <2>2. p \in Nat /\ pp \in Nat /\ w \in Nat /\ ww \in Nat /\ pp + w = p + ww
    BY PendingStep
  <2>3. w <= cost /\ (i # j => w = 0)
    BY <1>2
  <2>4. m \in Nat
    BY FaultPays DEF TypeInv
  <2>5. b <= r + p + m
    BY SpendInvIs DEF SpendAt
  <2>6. SpendAt(i, from)' <=> b <= rr + pp + m
    BY <1>1 DEF SpendAt
  <2>7. (i = j => rr = r + cost) /\ (i # j => rr = r)
    <3>1. CASE i = j
      <4>1. rr = IF now >= from THEN r + cost ELSE r
        BY <1>0, <1>1, <2>0, <3>1, SinceAdd
      <4> HIDE DEF r, rr
      <4> QED
        BY <2>0, <3>1, <4>1
    <3>2. CASE i # j
      BY <1>1, <3>2
    <3> QED
      BY <3>1, <3>2
  <2> HIDE DEF b, r, rr, p, pp, w, ww, m
  <2>8. b <= rr + pp + m
    BY <1>0, <2>1, <2>2, <2>3, <2>4, <2>5, <2>7
  <2> QED
    BY <2>6, <2>8
<1>4. now' = now /\ \A i \in Institutions : \A t \in Times : t > now' => billed'[i][t] = 0
  BY SpendInvIs
<1>5. (\A i \in Institutions : /\ \A t \in Times : t > now => billed[i][t] = 0
                               /\ \A from \in 0 .. now : SpendAt(i, from))'
  BY <1>3, <1>4
<1> QED
  BY <1>5, SpendInvIs, PTL

LEMMA SpendReset ==
    ASSUME TypeInv, TypeInv', SpendInv, NEW j \in Institutions, ResetInstitutionMetrics(j)
    PROVE  SpendInv'
<1>0. /\ UNCHANGED <<call, now, faults>> /\ now \in Nat
      /\ billed'[j] = Nothing /\ recorded'[j] = Nothing
      /\ \A i \in Institutions \ {j} : billed'[i] = billed[i] /\ recorded'[i] = recorded[i]
  BY Numbers DEF ResetInstitutionMetrics, TypeInv
<1>1. \A i : Pending(i)' = Pending(i)
  BY <1>0, PendingSame
<1>2. ASSUME NEW i \in Institutions, NEW from \in 0 .. now PROVE SpendAt(i, from)'
  <2> DEFINE bb == Since(billed'[i], from)
             rr == Since(recorded'[i], from)
             p == Pending(i)
             m == MaxCost * faults
  <2>1. SpendAt(i, from)' <=> bb <= rr + p + m
    BY <1>0, <1>1 DEF SpendAt
  <2>2. CASE i = j
    <3>1. bb = 0 /\ rr = 0
      BY <1>0, <2>2, SinceZero DEF Nothing
    <3>2. p \in Nat /\ m \in Nat
      BY PendingType, FaultPays DEF TypeInv
    <3> HIDE DEF bb, rr, p, m
    <3> QED
      BY <2>1, <3>1, <3>2
  <2>3. CASE i # j
    <3>1. bb = Since(billed[i], from) /\ rr = Since(recorded[i], from)
      BY <1>0, <2>3
    <3>2. SpendAt(i, from)
      BY SpendInvIs
    <3> QED
      BY <2>1, <3>1, <3>2 DEF SpendAt
  <2> QED
    BY <2>2, <2>3
<1>3. ASSUME NEW i \in Institutions, NEW t \in Times, t > now PROVE billed'[i][t] = 0
  BY <1>0, <1>3, SpendInvIs DEF Nothing
<1>4. now' = now
  BY <1>0
<1>5. (\A i \in Institutions : /\ \A t \in Times : t > now => billed[i][t] = 0
                               /\ \A from \in 0 .. now : SpendAt(i, from))'
  BY <1>2, <1>3, <1>4
<1> QED
  BY <1>5, SpendInvIs, PTL

LEMMA SpendTick ==
    ASSUME TypeInv, TypeInv', SpendInv, Pass
    PROVE  SpendInv'
<1>0. /\ UNCHANGED <<call, billed, recorded, faults>> /\ now' = now + 1 /\ now \in Nat /\ faults \in Nat
  BY Numbers DEF Pass, Tick, TypeInv
<1>1. \A i : Pending(i)' = Pending(i)
  BY <1>0, PendingSame
<1>2. ASSUME NEW i \in Institutions, NEW from \in 0 .. now + 1 PROVE SpendAt(i, from)'
  <2> DEFINE b == Since(billed[i], from)
             r == Since(recorded[i], from)
             p == Pending(i)
             m == MaxCost * faults
  <2>1. SpendAt(i, from)' <=> b <= r + p + m
    BY <1>0, <1>1 DEF SpendAt
  <2>2. CASE from \in 0 .. now
    BY <2>1, <2>2, SpendInvIs DEF SpendAt
  <2>3. CASE from = now + 1
    <3>1. b = 0
      <4>1. \A t \in Times : t >= from => billed[i][t] = 0
        BY <1>0, <2>3, SpendInvIs, Numbers
      <4> QED
        BY <1>0, <2>3, <4>1, SinceZero
    <3>2. p \in Nat /\ m \in Nat
      BY <1>0, PendingType, FaultPays
    <3>3. r \in Nat
      BY <1>0, <2>3, SinceType DEF TypeInv
    <3> HIDE DEF b, r, p, m
    <3> QED
      BY <2>1, <3>1, <3>2, <3>3
  <2> QED
    BY <1>0, <2>2, <2>3
<1>3. ASSUME NEW i \in Institutions, NEW t \in Times, t > now + 1 PROVE billed'[i][t] = 0
  <2>1. t > now
    BY <1>0, <1>3, Numbers
  <2> QED
    BY <1>0, <2>1, SpendInvIs
<1>4. now' = now + 1
  BY <1>0
<1>5. (\A i \in Institutions : /\ \A t \in Times : t > now => billed[i][t] = 0
                               /\ \A from \in 0 .. now : SpendAt(i, from))'
  BY <1>2, <1>3, <1>4
<1> QED
  BY <1>5, SpendInvIs, PTL

(* Which steps change what is under way.                                   *)
LEMMA WorthNone ==
    ASSUME NEW q \in CallRecord, Head(q.todo) \notin {"stream", "window"} \/ ~ q.live \/ q.end \notin {"open", "done"}
    PROVE  \A i : Worth(q, i) = 0
BY DEF Worth

LEMMA WorthIdle == \A i : Worth(Idle, i) = 0
BY DEF Worth

(* After the call only the end of the stream comes before the record.      *)
LEMMA WorthAfter ==
    ASSUME NEW q \in CallRecord, Head(q.todo) \notin {"call", "stream"}
    PROVE  \A i : Worth(After(q), i) = 0
<1>1. CASE After(q) = Idle
  BY <1>1, WorthIdle
<1>2. CASE After(q) # Idle
  <2>1. After(q) \in CallRecord /\ After(q).todo = Tail(q.todo) /\ Len(q.todo) # 1
    BY <1>2, AfterType DEF CallRecord
  <2>2. q.todo \in PlainTodos \cup StreamTodos
    BY CallFields
  <2>3. Head(Tail(q.todo)) \notin {"stream", "window"}
    <3>1. ASSUME q.todo \in PlainTodos PROVE Head(Tail(q.todo)) \notin {"stream", "window"}
      BY <2>1, <3>1, PlainEnds
    <3>2. ASSUME q.todo \in StreamTodos PROVE Head(Tail(q.todo)) \notin {"stream", "window"}
      BY <2>1, <3>2, StreamEnds
    <3> QED
      BY <2>2, <3>1, <3>2
  <2> QED
    BY <2>1, <2>3, WorthNone
<1> QED
  BY <1>1, <1>2

(* What a step of a stream leaves under way, unless it fails.              *)
LEMMA WorthKept ==
    ASSUME NEW q \in CallRecord, NEW r \in CallRecord, r.inst = q.inst, r.cost = q.cost,
           r.live = q.live, r.end \in {"open", "done"}, r.lost = q.lost, Head(r.todo) \in {"stream", "window"}
    PROVE  \A i : Worth(r, i) >= Worth(q, i)
<1>1. r # Idle
  BY NotIdle
<1>2. q.cost \in Nat
  BY CallFields DEF Costs
<1> QED
  BY <1>1, <1>2 DEF Worth

LEMMA WorthDone ==
    ASSUME NEW q \in CallRecord, NEW r \in {Idle} \cup CallRecord, \A i : Worth(q, i) = 0
    PROVE  \A i : Worth(r, i) >= Worth(q, i)
BY WorthType

LEMMA SendWorth ==
    ASSUME NEW c, call[c] \in CallRecord, NEW x, NEW y, NEW end
    PROVE  /\ Send(c, x).inst = call[c].inst /\ Send(c, x).cost = call[c].cost /\ Send(c, x).live = call[c].live
           /\ Send(c, x).end = call[c].end /\ Send(c, x).lost = call[c].lost /\ Send(c, x).todo = call[c].todo
           /\ Close(c, y, end).inst = call[c].inst /\ Close(c, y, end).cost = call[c].cost
           /\ Close(c, y, end).live = call[c].live /\ Close(c, y, end).end = end
           /\ Close(c, y, end).lost = call[c].lost /\ Close(c, y, end).todo = call[c].todo
BY DEF Send, Close, CallRecord

(* The goroutine and who takes from it keep what is under way.             *)
LEMMA GoroutineSpends ==
    ASSUME TypeInv, StreamInv, NEW c \in Calls, StreamNext(c)
    PROVE  \/ faults' = faults + 1
           \/ faults' = faults /\ \A i : Worth(call'[c], i) >= Worth(call[c], i)
<1>0. /\ call[c] \in CallRecord /\ Head(call[c].todo) = "stream" /\ StreamFits(call[c])
      /\ call' \in [Calls -> {Idle} \cup CallRecord]
  BY StreamSteps, OpenMeans, FitsNow, StreamType
<1>a. call'[c] \in {Idle} \cup CallRecord
  BY <1>0
<1>1. CASE Forward(c)
  <2> DEFINE r == Send(c, IF call[c].sent = MaxLines - 1 THEN "usage" ELSE "line")
  <2>1. r \in CallRecord
    BY <1>0, SendMoves DEF Lines, Ends
  <2>2. call'[c] = r /\ faults' = faults /\ call[c].end = "open"
    BY <1>1, <2>1, UpdateType DEF Forward, Open
  <2>3. \A i : Worth(r, i) >= Worth(call[c], i)
    <3>1. r.inst = call[c].inst /\ r.cost = call[c].cost /\ r.live = call[c].live
          /\ r.end = "open" /\ r.lost = call[c].lost /\ r.todo = call[c].todo
      BY <1>0, <2>2, SendWorth
    <3> HIDE DEF r
    <3> QED
      BY <1>0, <2>1, <3>1, WorthKept
  <2> QED
    BY <2>2, <2>3
<1>2. CASE Garbled(c) \/ EndsEarly(c) \/ ProviderError(c) \/ Broken(c)
  BY <1>2 DEF Garbled, EndsEarly, ProviderError, Broken, Fails
<1>3. CASE Finished(c)
  <2> DEFINE r == Close(c, <<>>, "done")
  <2>1. r \in CallRecord
    BY <1>0, SendMoves DEF Lines, Ends
  <2>2. call'[c] = r /\ faults' = faults /\ call[c].end = "open"
    BY <1>3, <2>1, UpdateType DEF Finished, Open
  <2>3. \A i : Worth(r, i) >= Worth(call[c], i)
    <3>1. r.inst = call[c].inst /\ r.cost = call[c].cost /\ r.live = call[c].live
          /\ r.end = "done" /\ r.lost = call[c].lost /\ r.todo = call[c].todo
      BY <1>0, SendWorth
    <3> HIDE DEF r
    <3> QED
      BY <1>0, <2>1, <3>1, WorthKept
  <2> QED
    BY <2>2, <2>3
<1>4. CASE Stopped(c)
  BY <1>0, <1>4, <1>a, WorthNone, WorthDone DEF Stopped
<1>5. CASE Take(c) /\ Head(call[c].out) = "error"
  <2>1. call[c].end \notin {"open", "done"}
    <3>1. call[c].out \in Seq(Lines) /\ call[c].out # <<>>
      BY <1>0, <1>5, CallFields DEF Take
    <3>2. 1 \in DOMAIN call[c].out /\ call[c].out[1] = "error"
      BY <1>5, <3>1, HeadType
    <3> QED
      BY <1>0, <3>2 DEF StreamFits
  <2> QED
    BY <1>0, <1>5, <1>a, <2>1, WorthNone, WorthDone DEF Take
<1>6. CASE Take(c) /\ Head(call[c].out) # "error"
  <2> DEFINE r == TakenFrom(call[c])
  <2>1. r \in CallRecord /\ call'[c] = r /\ faults' = faults
    <3>1. call[c].out # <<>> /\ Update(c, r) /\ faults' = faults
      BY <1>6 DEF Take, TakenFrom
    <3>2. r \in CallRecord
      BY <1>0, <3>1, TakeMoves
    <3> QED
      BY <3>1, <3>2, UpdateType
  <2>2. r.inst = call[c].inst /\ r.cost = call[c].cost /\ r.live = call[c].live
        /\ r.end = call[c].end /\ r.lost = call[c].lost /\ r.todo = call[c].todo
    BY <1>0 DEF TakenFrom, CallRecord
  <2> HIDE DEF r
  <2>3. CASE call[c].end \in {"open", "done"}
    BY <1>0, <2>1, <2>2, <2>3, WorthKept
  <2>4. CASE call[c].end \notin {"open", "done"}
    BY <1>0, <1>a, <2>1, <2>4, WorthNone, WorthDone
  <2> QED
    BY <2>3, <2>4
<1>7. CASE TakeEnd(c) /\ call[c].known
  <2>1. call'[c] = After(call[c]) /\ faults' = faults /\ call[c].end # "open"
    BY <1>0, <1>7, AdvanceMeans, AfterType, UpdateType DEF TakeEnd, ReachedEnd
  <2>2. /\ After(call[c]) \in CallRecord /\ After(call[c]) = [call[c] EXCEPT !.todo = Tail(call[c].todo)]
        /\ Head(Tail(call[c].todo)) = "window"
    <3>1. call[c].todo \in StreamTodos
      BY <1>0, CallFields, PlainEnds
    <3> QED
      BY <1>0, <3>1, StreamEnds, AfterType
  <2> DEFINE r == After(call[c])
  <2>3. r.inst = call[c].inst /\ r.cost = call[c].cost /\ r.live = call[c].live
        /\ r.end = call[c].end /\ r.lost = call[c].lost /\ Head(r.todo) = "window"
    BY <1>0, <2>2 DEF CallRecord
  <2> HIDE DEF r
  <2>4. CASE call[c].end = "done"
    BY <1>0, <2>1, <2>2, <2>3, <2>4, WorthKept DEF r
  <2>5. CASE call[c].end # "done"
    BY <1>0, <1>a, <2>1, <2>5, WorthNone, WorthDone
  <2> QED
    BY <2>4, <2>5
<1>8. CASE TakeEnd(c) /\ ~ call[c].known
  <2>1. call[c].out = <<>> /\ call[c].end # "open" /\ faults' = faults
    BY <1>8 DEF TakeEnd, ReachedEnd
  <2>2. DOMAIN call[c].out = {}
    BY <2>1
  <2>3. call[c].end = "done" => call[c].lost # 0
    BY <1>0, <1>8, <2>2 DEF StreamFits
  <2>4. \A i : Worth(call[c], i) = 0
    BY <2>1, <2>3 DEF Worth
  <2> QED
    BY <1>0, <1>a, <2>1, <2>4, WorthDone
<1> QED
  BY <1>1, <1>2, <1>3, <1>4, <1>5, <1>6, <1>7, <1>8 DEF StreamNext

LEMMA CallNextSpends ==
    ASSUME TypeInv, TypeInv', StreamInv, SpendInv, NEW c \in Calls, CallNext(c), UNCHANGED recorded
    PROVE  SpendInv'
<1>0. call[c] \in CallRecord /\ StreamFits(call[c]) /\ now' = now
  BY CallNextType, FitsNow
<1>1. CASE Leave(c)
  <2>1. \A d \in Calls \ {c} : call'[d] = call[d]
    BY <1>1, LeaveMoves, UpdateType DEF Moves
  <2> QED
    BY <1>1, <2>1, SpendQuiet DEF Leave, Fails
<1>2. CASE GiveUp(c)
  <2>1. (\A d \in Calls \ {c} : call'[d] = call[d]) /\ call'[c] = Idle
    BY <1>2, UpdateType DEF GiveUp, Over
  <2>2. \A i : Worth(call[c], i) = 0
    BY <1>0, <1>2, DoingMeans, WorthNone DEF GiveUp
  <2> QED
    BY <1>0, <1>2, <2>1, <2>2, WorthDone, SpendQuiet DEF GiveUp
<1>3. ASSUME Attempt(c) PROVE \A i : Worth(call[c], i) = 0
  BY <1>0, <1>3, AttemptMeans, WorthNone
<1>4. ASSUME Attempt(c), Update(c, [call[c] EXCEPT !.models = Tail(@)])
      PROVE  (\A d \in Calls \ {c} : call'[d] = call[d]) /\ call'[c] \in CallRecord
  BY <1>4, RefusedMoves, UpdateType
<1>5. CASE Refused(c)
  BY <1>0, <1>3, <1>4, <1>5, WorthDone, SpendQuiet DEF Refused
<1>6. ASSUME NEW reported \in Reported, LostAnswer(c, reported) PROVE SpendInv'
  <2> DEFINE cost == ParseCost(Head(call[c].models), reported)
  <2>1. cost \in Costs /\ Attempt(c) /\ Charge(c, cost) /\ faults' = faults + 1
    BY <1>6, CompleteMoves DEF LostAnswer, Fails
  <2> HIDE DEF cost
  <2> QED
    BY <1>0, <1>3, <1>4, <1>6, <2>1, SpendCharge DEF LostAnswer
<1>7. ASSUME NEW reported \in Reported, Complete(c, reported) PROVE SpendInv'
  <2> DEFINE cost == ParseCost(Head(call[c].models), reported)
             q == [call[c] EXCEPT !.cost = cost]
             r == [q EXCEPT !.todo = Tail(q.todo)]
  <2>1. Attempt(c) /\ Charge(c, cost) /\ faults' = faults /\ Advance(c, q)
    BY <1>7 DEF Complete, Works
  <2>2. cost \in Costs /\ q \in CallRecord
    BY <2>1, CompleteMoves
  <2>3. Head(call[c].todo) = "call" /\ call[c].live
    BY <2>1, AttemptMeans
  <2>4. q.todo = call[c].todo /\ q.cost = cost /\ q.inst = call[c].inst /\ q.live = call[c].live
        /\ q.end = call[c].end /\ q.lost = call[c].lost
    BY <1>0 DEF CallRecord
  <2> HIDE DEF q, cost
  <2>5. Len(q.todo) # 1 /\ Head(Tail(q.todo)) \in {"stream", "window"}
    <3>1. q.todo \in PlainTodos \cup StreamTodos /\ Head(q.todo) = "call"
      BY <2>2, <2>3, <2>4, CallFields
    <3>2. ASSUME q.todo \in PlainTodos PROVE Len(q.todo) # 1 /\ Head(Tail(q.todo)) \in {"stream", "window"}
      BY <3>1, <3>2, PlainEnds
    <3>3. ASSUME q.todo \in StreamTodos PROVE Len(q.todo) # 1 /\ Head(Tail(q.todo)) \in {"stream", "window"}
      BY <3>1, <3>3, StreamEnds
    <3> QED
      BY <3>1, <3>2, <3>3
  <2>6. r \in CallRecord /\ Update(c, r)
    BY <2>1, <2>2, <2>5, AfterType, AdvanceMeans
  <2>7. r.inst = q.inst /\ r.cost = q.cost /\ r.live = q.live /\ r.end = q.end /\ r.lost = q.lost
        /\ r.todo = Tail(q.todo)
    BY <2>2 DEF CallRecord
  <2> HIDE DEF r
  <2>8. call'[c] = r /\ \A d \in Calls \ {c} : call'[d] = call[d]
    BY <2>6, UpdateType
  <2>9. call[c].end = "open" /\ call[c].lost = 0
    BY <1>0, <2>3 DEF StreamFits
  <2>10. r # Idle
    BY <2>6, NotIdle
  <2>11. Worth(r, call[c].inst) = cost
    BY <2>3, <2>4, <2>5, <2>7, <2>9, <2>10 DEF Worth
  <2> QED
    BY <1>0, <1>3, <2>1, <2>2, <2>8, <2>11, SpendCharge
<1>8. CASE StreamNext(c)
  <2>1. call' \in [Calls -> {Idle} \cup CallRecord] /\ UNCHANGED <<now, billed>> /\ Streaming(c)
    BY <1>8, StreamSteps, StreamType
  <2>2. \A d \in Calls \ {c} : call'[d] = call[d]
    <3>1. StreamMoves(c)
      BY <1>8, StreamSteps
    <3>2. PICK r : Update(c, r)
      BY <3>1, AdvanceMeans DEF StreamMoves, Over
    <3> QED
      BY <3>2 DEF Update, TypeInv
  <2> QED
    BY <1>8, <2>1, <2>2, GoroutineSpends, SpendQuiet
<1> QED
  BY <1>1, <1>2, <1>5, <1>6, <1>7, <1>8 DEF CallNext

LEMMA SpendNextKeeps == TypeInv /\ TypeInv' /\ StreamInv /\ SpendInv /\ [Next]_vars => SpendInv'
<1> SUFFICES ASSUME TypeInv, TypeInv', StreamInv, SpendInv, [Next]_vars PROVE SpendInv'
  OBVIOUS
<1>1. ASSUME NEW c \in Calls, CallStep(c) PROVE SpendInv'
  <2>1. ASSUME NEW todo \in {Plain, Streamed}, Begin(c, todo) PROVE SpendInv'
    <3>1. PICK u \in Users, i \in Institutions, k \in Tasks, p \in Prompts : Update(c, Fresh(u, i, k, p, todo))
      BY <2>1, BeginMeans
    <3>2. Fresh(u, i, k, p, todo) \in CallRecord
      BY FreshType
    <3>3. call'[c] \in CallRecord /\ \A d \in Calls \ {c} : call'[d] = call[d]
      BY <3>1, <3>2, UpdateType
    <3>4. \A j : Worth(call[c], j) = 0
      BY <2>1, BeginMeans, WorthIdle
    <3>5. UNCHANGED <<now, billed, recorded, faults>>
      BY <2>1, BeginMeans
    <3> HIDE DEF Plain, Streamed
    <3>6. \A j : Worth(call'[c], j) >= Worth(call[c], j)
      BY <3>3, <3>4, WorthType
    <3> QED
      BY <3>3, <3>5, <3>6, SpendQuiet
  <2>2. CASE StepFails(c)
    <3>1. (\A d \in Calls \ {c} : call'[d] = call[d]) /\ call'[c] = Idle /\ call[c] \in CallRecord
      BY <2>2, StepFailsMeans, UpdateType DEF Over
    <3>2. UNCHANGED <<now, billed, recorded>> /\ faults' = IF call[c].live THEN faults + 1 ELSE faults
      BY <2>2, StepFailsMeans DEF spendVars
    <3>3. ~ call[c].live => \A i : Worth(call'[c], i) >= Worth(call[c], i)
      BY <3>1, WorthNone, WorthDone
    <3> QED
      BY <3>1, <3>2, <3>3, SpendQuiet
  <2>3. ASSUME call[c] \in CallRecord, Over(c) \/ Update(c, After(call[c])),
               Head(call[c].todo) \notin {"call", "stream", "window"}
        PROVE  /\ \A d \in Calls \ {c} : call'[d] = call[d]
               /\ \A i : Worth(call'[c], i) >= Worth(call[c], i)
    <3>1. (\A d \in Calls \ {c} : call'[d] = call[d]) /\ call'[c] \in {Idle, After(call[c])}
          /\ call'[c] \in {Idle} \cup CallRecord
      BY <2>3, AfterType, UpdateType DEF Over
    <3> QED
      BY <2>3, <3>1, WorthNone, WorthDone
  <2>4. CASE CacheGet(c)
    BY <2>3, <2>4, CacheGetMeans, SpendQuiet
  <2>5. CASE CheckSpend(c)
    BY <2>3, <2>5, CheckSpendMeans, SpendQuiet
  <2>6. CASE CacheSet(c)
    <3>1. Step(c, "keep") /\ UNCHANGED recorded
      BY <2>6 DEF CacheSet
    <3> QED
      BY <2>3, <3>1, StepMeans, SpendQuiet
  <2>7. CASE RecordSpend(c)
    <3>1. Step(c, "window") /\ recorded' = [recorded EXCEPT ![call[c].inst][now] = @ + call[c].cost]
      BY <2>7 DEF RecordSpend
    <3>2. call[c] \in CallRecord /\ UNCHANGED <<now, billed, faults>>
      BY <3>1, StepMeans
    <3>3. \A d \in Calls \ {c} : call'[d] = call[d]
      BY <3>1, <3>2, StepMeans, AfterType, UpdateType
    <3> QED
      BY <3>1, <3>2, <3>3, SpendRecord
  <2>8. CASE IncrementMetrics(c)
    <3>1. PICK s \in {"inst", "user", "task", "global"} : Step(c, s) /\ UNCHANGED recorded
      BY <2>8 DEF IncrementMetrics
    <3> QED
      BY <2>3, <3>1, StepMeans, SpendQuiet
  <2>9. ASSUME CallNext(c), UNCHANGED recorded PROVE SpendInv'
    BY <2>9, CallNextSpends
  <2> QED
    BY <1>1, <2>1, <2>2, <2>4, <2>5, <2>6, <2>7, <2>8, <2>9 DEF CallStep
<1>2. ASSUME UNCHANGED <<call, now, billed, recorded, faults>> PROVE SpendInv'
  <2>1. \A i : Pending(i)' = Pending(i)
    BY <1>2, PendingSame
  <2>2. \A i, from : SpendAt(i, from)' <=> SpendAt(i, from)
    BY <1>2, <2>1 DEF SpendAt
  <2>3. (\A i \in Institutions : /\ \A t \in Times : t > now => billed[i][t] = 0
                                 /\ \A from \in 0 .. now : SpendAt(i, from))'
    BY <1>2, <2>2, SpendInvIs
  <2> QED
    BY <2>3, SpendInvIs, PTL
<1>3. CASE ByOthers
  <2>1. ASSUME NEW p \in Prompts, CacheDelete(p) PROVE SpendInv'
    BY <1>2, <2>1 DEF CacheDelete, callVars
  <2>2. ASSUME NEW i \in Institutions, NEW x \in Ceilings \cup {Unset}, SetBudgetCeiling(i, x) PROVE SpendInv'
    BY <1>2, <2>2 DEF SetBudgetCeiling, callVars
  <2>3. ASSUME NEW i \in Institutions, NEW w \in Windows, GetSlidingWindowSpend(i, w) PROVE SpendInv'
    BY <1>2, <2>3 DEF GetSlidingWindowSpend, callVars
  <2> QED
    BY <1>3, <2>1, <2>2, <2>3, SpendReset DEF ByOthers
<1>4. CASE UNCHANGED vars
  BY <1>2, <1>4 DEF vars, callVars, spendVars
<1> QED
  BY <1>1, <1>3, <1>4, SpendTick, NextMeans

LEMMA SpendInit == Init => SpendInv
<1> SUFFICES ASSUME Init PROVE SpendInv
  OBVIOUS
<1>0. TypeInv /\ now = 0
  BY TypeInit DEF Init, CallsInit
<1>1. ASSUME NEW i \in Institutions, NEW from \in 0 .. now PROVE SpendAt(i, from)
  <2> DEFINE b == Since(billed[i], from)
             r == Since(recorded[i], from)
             p == Pending(i)
             m == MaxCost * faults
  <2>1. from \in Nat /\ billed[i] = [t \in Times |-> 0] /\ recorded[i] \in [Times -> Nat]
    BY <1>0 DEF Init, CallsInit, TypeInv
  <2>2. b = 0
    BY <2>1, SinceZero
  <2>3. r \in Nat /\ p \in Nat /\ m \in Nat
    BY <1>0, <2>1, SinceType, PendingType, FaultPays DEF TypeInv
  <2>4. SpendAt(i, from) <=> b <= r + p + m
    BY DEF SpendAt
  <2> HIDE DEF b, r, p, m
  <2> QED
    BY <2>2, <2>3, <2>4
<1>2. \A i \in Institutions : \A t \in Times : billed[i][t] = 0
  BY DEF Init, CallsInit
<1> QED
  BY <1>1, <1>2, SpendInvIs

(* What was recorded is in the window, but for what a report of a shorter  *)
(* one dropped and what is older than its key lives.                       *)
KeepAt(i) ==
    /\ until[i] <= now + KeyLife
    /\ \A t \in Times : recorded[i][t] # 0 => t + KeyLife <= until[i]
    /\ \A t \in Times : t >= purged[i] /\ t + KeyLife >= now => spend[i][t] = recorded[i][t]
KeepInv == \A i \in Institutions : KeepAt(i)

LEMMA KeepSame ==
    ASSUME NEW i, KeepAt(i), now' = now, until'[i] = until[i], recorded'[i] = recorded[i],
           spend'[i] = spend[i], purged'[i] = purged[i]
    PROVE  KeepAt(i)'
BY DEF KeepAt

LEMMA KeepQuiet == KeepInv /\ UNCHANGED <<now, until, recorded, spend, purged>> => KeepInv'
BY KeepSame DEF KeepInv

LEMMA KeepPurge ==
    ASSUME TypeInv, KeepInv, NEW j \in Institutions, NEW window \in Nat, Purge(j, window),
           UNCHANGED <<now, until, recorded>>
    PROVE  KeepInv'
<1>1. ASSUME NEW i \in Institutions, i # j PROVE KeepAt(i)'
  <2>1. spend'[i] = spend[i] /\ purged'[i] = purged[i] /\ KeepAt(i)
    BY <1>1 DEF Purge, TypeInv, KeepInv
  <2> QED
    BY <2>1, KeepSame
<1>2. KeepAt(j)'
  <2>1. spend'[j] = Purged(j, window) /\ purged'[j] = (IF From(window) > purged[j] THEN From(window) ELSE purged[j])
    BY DEF Purge, TypeInv
  <2>2. From(window) \in Nat /\ purged[j] \in Nat /\ Times \subseteq Nat
    BY FromType, Numbers DEF TypeInv
  <2>3. ASSUME NEW t \in Times, t >= purged'[j] PROVE t >= purged[j] /\ spend'[j][t] = spend[j][t]
    <3>1. t >= From(window) /\ t >= purged[j] /\ ~ (t < From(window))
      BY <2>1, <2>2, <2>3
    <3>2. Purged(j, window)[t] = spend[j][t]
      BY <3>1 DEF Purged
    <3> QED
      BY <2>1, <3>1, <3>2
  <2> QED
    BY <2>3 DEF KeepInv, KeepAt
<1> QED
  BY <1>1, <1>2 DEF KeepInv

LEMMA KeepRecord ==
    ASSUME TypeInv, KeepInv, NEW j \in Institutions, NEW cost \in Nat, UNCHANGED <<now, purged>>,
           spend' = [spend EXCEPT ![j][now] = @ + cost],
           recorded' = [recorded EXCEPT ![j][now] = @ + cost],
           until' = [until EXCEPT ![j] = now + KeyLife]
    PROVE  KeepInv'
<1>2. ASSUME NEW i \in Institutions, i # j PROVE KeepAt(i)'
  <2>1. /\ spend'[i] = spend[i] /\ recorded'[i] = recorded[i] /\ until'[i] = until[i]
        /\ purged'[i] = purged[i] /\ KeepAt(i)
    BY <1>2 DEF TypeInv, KeepInv
  <2> QED
    BY <2>1, KeepSame
<1>3. KeepAt(j)'
  <2>1. /\ until'[j] = now + KeyLife
        /\ \A t \in Times : t # now => spend'[j][t] = spend[j][t] /\ recorded'[j][t] = recorded[j][t]
        /\ spend'[j][now] = spend[j][now] + cost /\ recorded'[j][now] = recorded[j][now] + cost
    BY DEF TypeInv
  <2>2. now \in Times /\ Times \subseteq Nat /\ KeyLife \in Nat /\ until[j] \in Nat /\ now' = now /\ purged' = purged
    BY Numbers DEF TypeInv
  <2>3. KeepAt(j)
    BY DEF KeepInv
  <2>4. ASSUME NEW t \in Times, recorded'[j][t] # 0 PROVE t + KeyLife <= until'[j]
    <3>1. CASE t = now
      BY <2>1, <2>2, <3>1
    <3>2. CASE t # now
      <4>1. t + KeyLife <= until[j] /\ until[j] <= now + KeyLife
        BY <2>1, <2>3, <2>4, <3>2 DEF KeepAt
      <4> QED
        BY <2>1, <2>2, <4>1
    <3> QED
      BY <3>1, <3>2
  <2>5. ASSUME NEW t \in Times, t >= purged'[j], t + KeyLife >= now' PROVE spend'[j][t] = recorded'[j][t]
    <3>1. spend[j][t] = recorded[j][t]
      BY <2>2, <2>3, <2>5 DEF KeepAt
    <3> QED
      BY <2>1, <3>1
  <2>6. until'[j] <= now' + KeyLife
    BY <2>1, <2>2
  <2> QED
    BY <2>4, <2>5, <2>6 DEF KeepAt
<1> QED
  BY <1>2, <1>3 DEF KeepInv

LEMMA KeepReset ==
    ASSUME TypeInv, KeepInv, NEW j \in Institutions, ResetInstitutionMetrics(j)
    PROVE  KeepInv'
<1>1. ASSUME NEW i \in Institutions, i # j PROVE KeepAt(i)'
  <2>1. /\ spend'[i] = spend[i] /\ recorded'[i] = recorded[i] /\ now' = now
        /\ until'[i] = until[i] /\ purged'[i] = purged[i] /\ KeepAt(i)
    BY <1>1 DEF ResetInstitutionMetrics, TypeInv, KeepInv
  <2> QED
    BY <2>1, KeepSame
<1>2. spend'[j] = Nothing /\ recorded'[j] = Nothing /\ UNCHANGED <<now, until>>
  BY DEF ResetInstitutionMetrics, TypeInv
<1>3. \A t \in Times : Nothing[t] = 0
  BY DEF Nothing
<1>4. KeepAt(j)'
  BY <1>2, <1>3 DEF KeepInv, KeepAt
<1> QED
  BY <1>1, <1>4 DEF KeepInv

(* A window is gone only when all that was recorded in it is that old.     *)
LEMMA KeepPass ==
    ASSUME TypeInv, KeepInv, Pass
    PROVE  KeepInv'
<1>0. now' = now + 1 /\ UNCHANGED <<until, recorded, purged>>
  BY DEF Pass, Tick
<1> SUFFICES ASSUME NEW i \in Institutions PROVE KeepAt(i)'
  BY DEF KeepInv
<1>1. spend'[i] = (IF now' > until[i] THEN Nothing ELSE spend[i]) /\ KeepAt(i)
  BY DEF Pass, KeepInv
<1>2. now \in Nat /\ KeyLife \in Nat /\ until[i] \in Nat /\ Times \subseteq Nat
  BY Numbers DEF TypeInv
<1>3. ASSUME NEW t \in Times, t >= purged[i], t + KeyLife >= now' PROVE spend'[i][t] = recorded[i][t]
  <2>1. CASE now' > until[i]
    <3>1. ~ (t + KeyLife <= until[i])
      BY <1>0, <1>2, <1>3, <2>1
    <3>2. recorded[i][t] = 0
      BY <1>1, <3>1 DEF KeepAt
    <3> QED
      BY <1>1, <2>1, <3>2 DEF Nothing
  <2>2. CASE ~ (now' > until[i])
    <3>1. t + KeyLife >= now
      BY <1>0, <1>2, <1>3
    <3> QED
      BY <1>1, <1>3, <2>2, <3>1 DEF KeepAt
  <2> QED
    BY <2>1, <2>2
<1>4. until[i] <= now' + KeyLife /\ \A t \in Times : recorded[i][t] # 0 => t + KeyLife <= until[i]
  <2>1. until[i] <= now + KeyLife /\ \A t \in Times : recorded[i][t] # 0 => t + KeyLife <= until[i]
    BY <1>1 DEF KeepAt
  <2> QED
    BY <1>0, <1>2, <2>1
<1> QED
  BY <1>0, <1>3, <1>4 DEF KeepAt

LEMMA KeepNextKeeps == TypeInv /\ KeepInv /\ [Next]_vars => KeepInv'
<1> SUFFICES ASSUME TypeInv, KeepInv, [Next]_vars PROVE KeepInv'
  OBVIOUS
<1>1. ASSUME NEW c \in Calls, CallStep(c) PROVE KeepInv'
  <2>1. ASSUME NEW todo \in {Plain, Streamed}, Begin(c, todo) PROVE KeepInv'
    BY <2>1, BeginMeans, KeepQuiet
  <2>2. CASE StepFails(c)
    BY <2>2, StepFailsMeans, KeepQuiet DEF spendVars
  <2>3. CASE CacheGet(c)
    BY <2>3, CacheGetMeans, KeepQuiet
  <2>4. CASE CacheSet(c)
    BY <2>4, KeepQuiet DEF CacheSet, Step
  <2>5. CASE CheckSpend(c)
    <3>1. UNCHANGED <<now, until, recorded>> /\ call[c].inst \in Institutions
      BY <2>5, CheckSpendMeans, CallFields
    <3>2. \/ UNCHANGED <<spend, purged>>
          \/ /\ Purge(call[c].inst, GetBudgetCeiling(call[c].inst).window)
             /\ GetBudgetCeiling(call[c].inst) # Unset
      BY <2>5 DEF CheckSpend
    <3> QED
      BY <3>1, <3>2, CeilingType, KeepPurge, KeepQuiet
  <2>6. CASE RecordSpend(c)
    <3>1. Step(c, "window") /\ UNCHANGED purged
      BY <2>6 DEF RecordSpend
    <3>2. UNCHANGED now /\ call[c].inst \in Institutions /\ call[c].cost \in Nat
      BY <3>1, StepMeans, CallFields DEF Costs
    <3>3. /\ spend' = [spend EXCEPT ![call[c].inst][now] = @ + call[c].cost]
          /\ recorded' = [recorded EXCEPT ![call[c].inst][now] = @ + call[c].cost]
          /\ until' = [until EXCEPT ![call[c].inst] = now + KeyLife]
      BY <2>6 DEF RecordSpend
    <3> QED
      BY <3>1, <3>2, <3>3, KeepRecord
  <2>7. CASE IncrementMetrics(c)
    BY <2>7, KeepQuiet DEF IncrementMetrics, Step
  <2>8. ASSUME CallNext(c), UNCHANGED <<spend, until, recorded, purged>> PROVE KeepInv'
    BY <2>8, CallNextType, KeepQuiet
  <2> QED
    BY <1>1, <2>1, <2>2, <2>3, <2>4, <2>5, <2>6, <2>7, <2>8 DEF CallStep
<1>2. CASE ByOthers
  <2>1. ASSUME NEW p \in Prompts, CacheDelete(p) PROVE KeepInv'
    BY <2>1, KeepQuiet DEF CacheDelete, callVars
  <2>2. ASSUME NEW i \in Institutions, NEW x \in Ceilings \cup {Unset}, SetBudgetCeiling(i, x) PROVE KeepInv'
    BY <2>2, KeepQuiet DEF SetBudgetCeiling, callVars
  <2>3. ASSUME NEW i \in Institutions, NEW w \in Windows, GetSlidingWindowSpend(i, w) PROVE KeepInv'
    BY <2>3, SpendingAssumption, KeepPurge DEF GetSlidingWindowSpend, callVars
  <2> QED
    BY <1>2, <2>1, <2>2, <2>3, KeepReset DEF ByOthers
<1>3. CASE UNCHANGED vars
  BY <1>3, KeepQuiet DEF vars, callVars, spendVars
<1> QED
  BY <1>1, <1>2, <1>3, KeepPass, NextMeans

LEMMA KeepInit == Init => KeepInv
<1> SUFFICES ASSUME Init, NEW i \in Institutions PROVE KeepAt(i)
  BY DEF KeepInv
<1>1. until[i] = 0 /\ now = 0 /\ KeyLife \in Nat /\ recorded[i] = Nothing /\ spend[i] = Nothing
  BY Numbers DEF Init, CallsInit
<1>2. \A t \in Times : Nothing[t] = 0
  BY DEF Nothing
<1> QED
  BY <1>1, <1>2 DEF KeepAt

(* A window that does not forget shows all that was recorded in it.        *)
LEMMA KeptWhole ==
    ASSUME TypeInv, KeepInv, NEW i \in Institutions, NEW window \in Nat, ~ Forgets(i, window)
    PROVE  Since(spend[i], From(window)) = Since(recorded[i], From(window))
<1> DEFINE from == From(window)
           S == {t \in Times : t >= from}
           f == spend[i]
           g == recorded[i]
<1>1. /\ from \in Nat /\ now \in Nat /\ KeyLife \in Nat /\ purged[i] \in Nat /\ Times \subseteq Nat
      /\ purged[i] <= from /\ window <= KeyLife
  BY FromType, Numbers DEF Forgets, TypeInv
<1>2. from + window >= now
  BY <1>1 DEF From
<1>3. f \in [Times -> Nat] /\ g \in [Times -> Nat] /\ KeepAt(i)
  BY DEF TypeInv, KeepInv
<1> HIDE DEF from
<1>4. ASSUME NEW t \in S PROVE f[t] = g[t] /\ f[t] \in Nat
  <2>1. t >= purged[i] /\ t + KeyLife >= now
    BY <1>1, <1>2
  <2> QED
    BY <1>3, <2>1 DEF KeepAt
<1>5. IsFiniteSet(S)
  BY <1>1, Windowed
<1>6. Since(f, from) = SumOf(f, S) /\ Since(g, from) = SumOf(g, S)
  BY SinceIs
<1> HIDE DEF S, f, g
<1>7. SumOf(f, S) = SumOf(g, S)
  BY <1>4, <1>5, SumSame
<1>8. Since(f, from) = Since(g, from)
  BY <1>6, <1>7
<1> QED
  BY <1>8 DEF f, g, from

(* The check allows a call by what the window shows.  What was charged and *)
(* the window does not show is under way at somebody's, or was paid for.   *)
LEMMA SpendAllows ==
    ASSUME TypeInv, SpendInv, KeepInv, NEW c \in Calls, CheckSpend(c), Doing(c, "call")'
    PROVE  LET i == call[c].inst  x == GetBudgetCeiling(i)  from == From(x.window) IN
           x # Unset => Since(billed[i], from) + Estimate
                          <= x.max + (IF Forgets(i, x.window) THEN Forgotten(i, from) ELSE 0) + MaxCost * (Cardinality(Unrecorded(i)) + faults)
<1> DEFINE i == call[c].inst
           x == GetBudgetCeiling(i)
           from == From(x.window)
<1> SUFFICES ASSUME x # Unset
             PROVE  Since(billed[i], from) + Estimate
                      <= x.max + (IF Forgets(i, x.window) THEN Forgotten(i, from) ELSE 0) + MaxCost * (Cardinality(Unrecorded(i)) + faults)
  OBVIOUS
<1>1. call[c] \in CallRecord /\ i \in Institutions
  BY CheckSpendMeans, CallFields
<1>2. x.max \in Nat /\ x.window \in Nat
  <2>1. x \in Ceilings \cup {DefaultCeiling}
    BY <1>1 DEF GetBudgetCeiling, TypeInv
  <2> QED
    BY <2>1, SpendingAssumption
<1>3. from \in 0 .. now
  BY <1>2, Numbers DEF From, TypeInv, Times
<1>4. Allowed(i, x)
  <2>1. call'[c] # Idle
    BY DEF Doing, Idle
  <2>2. ~ Over(c)
    BY <2>1, OverType
  <2> QED
    BY <2>2, CheckSpendMeans
<1> DEFINE b == Since(billed[i], from)
           r == Since(recorded[i], from)
           s == Since(spend[i], from)
           p == Pending(i)
           n == Cardinality(Unrecorded(i))
           m == MaxCost * n
           f == MaxCost * faults
<1>5. b \in Nat /\ r \in Nat /\ s \in Nat
  <2>1. from \in Nat /\ billed[i] \in [Times -> Nat] /\ recorded[i] \in [Times -> Nat] /\ spend[i] \in [Times -> Nat]
    BY <1>1, <1>3, Numbers DEF TypeInv
  <2> QED
    BY <2>1, SinceType
<1>6. s + Estimate <= x.max
  BY <1>4 DEF Allowed, WindowSpend
<1>7. b <= r + p + f
  BY <1>1, <1>3, SpendInvIs DEF SpendAt
<1>8. p <= m /\ n \in Nat /\ p \in Nat
  <2> DEFINE w == [d \in Calls |-> Worth(call[d], i)]
             T == Unrecorded(i)
  <2>1. T \in SUBSET Calls /\ IsFiniteSet(T)
    BY Numbers, FS_Subset DEF Unrecorded
  <2>2. \A d \in Calls : w[d] \in Nat /\ w[d] <= MaxCost
    BY WorthType DEF TypeInv
  <2>3. \A d \in Calls \ T : w[d] = 0
    <3>1. ASSUME NEW d \in Calls, Worth(call[d], i) # 0 PROVE d \in T
      <4>1. call[d] \in CallRecord /\ call[d].inst = i /\ Head(call[d].todo) \in {"stream", "window"}
        BY <3>1 DEF Worth, TypeInv
      <4>2. call[d].todo \in PlainTodos \cup StreamTodos
        BY <4>1, CallFields
      <4>3. "window" \in ToSet(call[d].todo) /\ "call" \notin ToSet(call[d].todo)
        BY <4>1, <4>2, PlainEnds, StreamEnds
      <4> QED
        BY <3>1, <4>1, <4>3, NotIdle DEF Unrecorded
    <3> QED
      BY <3>1
  <2>4. p = SumOf(w, Calls)
    BY DEF Pending
  <2> HIDE DEF w, T, i
  <2>5. SumOf(w, Calls) <= MaxCost * Cardinality(T)
    BY <2>1, <2>2, <2>3, LargestCost, Numbers, SumBound
  <2>6. Cardinality(T) \in Nat
    BY <2>1, FS_CardinalityType
  <2> QED
    BY <2>4, <2>5, <2>6, PendingType DEF T
<1>9. MaxCost * (n + faults) = m + f /\ m \in Nat /\ f \in Nat
  <2>1. faults \in Nat /\ MaxCost \in Nat /\ n \in Nat
    BY <1>8, LargestCost DEF TypeInv
  <2> DEFINE k == MaxCost
  <2>2. k \in Nat
    BY <2>1
  <2> HIDE DEF k, n
  <2>3. k * (n + faults) = k * n + k * faults /\ k * n \in Nat /\ k * faults \in Nat
    BY <2>1, <2>2
  <2> QED
    BY <2>3 DEF k
<1> DEFINE max == x.max
           lost == IF Forgets(i, x.window) THEN Forgotten(i, from) ELSE 0
<1>10. lost = r - s
  <2>1. CASE Forgets(i, x.window)
    BY <2>1 DEF Forgotten
  <2>2. CASE ~ Forgets(i, x.window)
    <3>1. r = s
      BY <1>1, <1>2, <2>2, KeptWhole
    <3> HIDE DEF r, s
    <3> QED
      BY <1>5, <2>2, <3>1
  <2> QED
    BY <2>1, <2>2
<1>11. max \in Nat /\ s + Estimate <= max
  BY <1>2, <1>6
<1>12. b + Estimate <= max + lost + (m + f)
  <2> HIDE DEF b, r, s, p, n, m, f, max, lost
  <2> QED
    BY <1>10, <1>5, <1>7, <1>8, <1>9, <1>11, Numbers
<1> QED
  BY <1>9, <1>12

-----------------------------------------------------------------------------
(* The totals.                                                             *)
LEMMA DoingLater ==
    ASSUME TypeInv', NEW c \in Calls, NEW s
    PROVE  Doing(c, s)' <=> call'[c] \in CallRecord /\ Head(call'[c].todo) = s
<1>1. call'[c] \in {Idle} \cup CallRecord
  BY DEF TypeInv
<1>2. Idle.todo = <<>>
  BY DEF Idle
<1>3. Doing(c, s)' <=> call'[c].todo # <<>> /\ Head(call'[c].todo) = s
  BY DEF Doing
<1> QED
  BY <1>1, <1>2, <1>3, NotIdle

LEMMA TotallingMeans ==
    ASSUME TypeInv, NEW c \in Calls
    PROVE  /\ Totalling(c) <=> call[c] \in CallRecord /\ Head(call[c].todo) \in {"user", "task", "global"}
           /\ c \in Adding <=> call[c] \in CallRecord /\ Head(call[c].todo) \in {"task", "global"}
BY DoingMeans DEF Totalling, Adding

LEMMA TotallingLater ==
    ASSUME TypeInv', NEW c \in Calls
    PROVE  /\ Totalling(c)' <=> call'[c] \in CallRecord /\ Head(call'[c].todo) \in {"user", "task", "global"}
           /\ (c \in Adding)' <=> call'[c] \in CallRecord /\ Head(call'[c].todo) \in {"task", "global"}
<1>1. \A s : Doing(c, s)' <=> call'[c] \in CallRecord /\ Head(call'[c].todo) = s
  BY DoingLater
<1>2. Totalling(c)' <=> \E s \in {"user", "task", "global"} : Doing(c, s)'
  BY DEF Totalling
<1>3. (c \in Adding)' <=> Doing(c, "task")' \/ Doing(c, "global")'
  BY DEF Adding
<1> QED
  BY <1>1, <1>2, <1>3

LEMMA SumOverType ==
    ASSUME TypeInv, NEW K, IsFiniteSet(K), K \subseteq Keys
    PROVE  SumOver(K) \in Nat
<1> DEFINE f == [k \in K |-> total[k]]
<1>1. \A k \in K : f[k] \in Nat
  BY DEF TypeInv
<1>2. SumOver(K) = SumOf(f, K)
  BY DEF SumOver, Summary
<1> HIDE DEF f
<1> QED
  BY <1>1, <1>2, SumType

LEMMA SumOverStep ==
    ASSUME TypeInv, NEW K, IsFiniteSet(K), K \subseteq Keys, NEW key \in Keys, NEW n \in Nat,
           total' = [total EXCEPT ![key] = @ + n]
    PROVE  SumOver(K)' = IF key \in K THEN SumOver(K) + n ELSE SumOver(K)
<1> DEFINE f == [k \in K |-> total[k]]
           g == [k \in K |-> total'[k]]
<1>1. \A k \in K : f[k] \in Nat /\ g[k] \in Nat /\ (k # key => g[k] = f[k])
  BY DEF TypeInv
<1>2. key \in K => g[key] = f[key] + n
  BY DEF TypeInv
<1>3. SumOver(K) = SumOf(f, K) /\ SumOver(K)' = SumOf(g, K)
  BY DEF SumOver, Summary
<1> HIDE DEF f, g
<1>4. CASE key \in K
  <2>1. SumOf(f, K) \in Nat /\ SumOf(g, K) \in Nat /\ SumOf(g, K) + f[key] = SumOf(f, K) + g[key]
    BY <1>1, <1>4, SumChange
  <2>2. SumOf(g, K) = SumOf(f, K) + n
    <3> DEFINE sf == SumOf(f, K)
               sg == SumOf(g, K)
               fk == f[key]
               gk == g[key]
    <3>1. sf \in Nat /\ sg \in Nat /\ sg + fk = sf + gk /\ fk \in Nat /\ gk = fk + n
      BY <1>1, <1>2, <1>4, <2>1
    <3> HIDE DEF sf, sg, fk, gk
    <3>2. sg = sf + n
      BY <3>1
    <3> QED
      BY <3>2 DEF sf, sg
  <2> QED
    BY <1>3, <1>4, <2>2, Zenon
<1>5. CASE key \notin K
  BY <1>1, <1>3, <1>5, SumSame
<1> QED
  BY <1>4, <1>5

LEMMA KeysApart ==
    /\ Users \subseteq Keys /\ Tasks \subseteq Keys /\ Global \in Keys
    /\ \A x \in Users : x \notin Tasks /\ x # Global
    /\ \A x \in Tasks : x \notin Users /\ x # Global
    /\ \A x \in Institutions : x \notin Users /\ x \notin Tasks /\ x # Global
    /\ Global \notin Users /\ Global \notin Tasks
BY SpendingAssumption DEF Keys

(* The three sums, and what a step adds to them.                           *)
ByUser == SumOver(Users)
ByTask == SumOver(Tasks)
Overall == Summary(Global)

LEMMA TotalsType == ASSUME TypeInv PROVE ByUser \in Nat /\ ByTask \in Nat /\ Overall \in Nat
BY KeysApart, SumOverType, Numbers DEF ByUser, ByTask, Overall, Summary, TypeInv

LEMMA TotalsAdd ==
    ASSUME TypeInv, NEW key \in Keys, NEW n \in Nat, total' = [total EXCEPT ![key] = @ + n]
    PROVE  /\ key \in Users => ByUser' = ByUser + n /\ ByTask' = ByTask /\ Overall' = Overall
           /\ key \in Tasks => ByUser' = ByUser /\ ByTask' = ByTask + n /\ Overall' = Overall
           /\ key = Global => ByUser' = ByUser /\ ByTask' = ByTask /\ Overall' = Overall + n
           /\ key \in Institutions => ByUser' = ByUser /\ ByTask' = ByTask /\ Overall' = Overall
<1>1. ByUser' = IF key \in Users THEN ByUser + n ELSE ByUser
  BY KeysApart, SumOverStep, Numbers DEF ByUser
<1>2. ByTask' = IF key \in Tasks THEN ByTask + n ELSE ByTask
  BY KeysApart, SumOverStep, Numbers DEF ByTask
<1>3. Overall' = IF key = Global THEN Overall + n ELSE Overall
  BY KeysApart DEF Overall, Summary, TypeInv
<1> QED
  BY <1>1, <1>2, <1>3, KeysApart

LEMMA TotalsKept ==
    ASSUME \A k \in Users \cup Tasks \cup {Global} : total'[k] = total[k]
    PROVE  ByUser' = ByUser /\ ByTask' = ByTask /\ Overall' = Overall
<1>1. [k \in Users |-> total'[k]] = [k \in Users |-> total[k]]
  OBVIOUS
<1>2. [k \in Tasks |-> total'[k]] = [k \in Tasks |-> total[k]]
  OBVIOUS
<1>3. ByUser' = ByUser
  BY <1>1 DEF ByUser, SumOver, Summary
<1>4. ByTask' = ByTask
  BY <1>2 DEF ByTask, SumOver, Summary
<1> QED
  BY <1>3, <1>4 DEF Overall, Summary

(* What the totals tell of the call c that adds to them.                   *)
TotalsAt(c) ==
    /\ Doing(c, "task") => ByTask + call[c].cost <= ByUser
    /\ Doing(c, "global") => Overall + call[c].cost <= ByTask
    /\ c \in Adding => ByUser <= Overall + MaxCost * faults + call[c].cost
Level == Adding = {} => ByUser <= Overall + MaxCost * faults
LEMMA TotalsInvIs ==
    TotalsInv <=> /\ \A d \in Calls : Totalling(d) => call[d].live /\ \A e \in Calls : Totalling(e) => e = d
                  /\ ByTask <= ByUser /\ Overall <= ByTask
                  /\ \A d \in Calls : TotalsAt(d)
                  /\ Level
BY DEF TotalsInv, ByUser, ByTask, Overall, TotalsAt, Level

(* A step of a call that adds nothing to these totals: then nobody adds to *)
(* them, or a call that has added gives up at a failure.                   *)
LEMMA TotalsQuiet ==
    ASSUME TypeInv, TypeInv', TotalsInv, NEW c \in Calls, \A d \in Calls \ {c} : call'[d] = call[d],
           \A d \in Calls \ {c} : ~ Totalling(d),
           ByUser' = ByUser, ByTask' = ByTask, Overall' = Overall,
           faults' = faults + 1 \/ (faults' = faults /\ c \notin Adding),
           call'[c] = Idle \/ Head(call'[c].todo) \notin {"user", "task", "global"}
    PROVE  TotalsInv'
<1>1. \A d \in Calls : ~ Totalling(d)'
  <2>1. \A d \in Calls \ {c} : ~ Totalling(d)'
    BY TotallingMeans, TotallingLater
  <2>2. ~ Totalling(c)'
    BY TotallingLater, NotIdle
  <2> QED
    BY <2>1, <2>2
<1>2. \A d \in Calls : ~ (d \in Adding)' /\ ~ Doing(d, "task")' /\ ~ Doing(d, "global")'
  BY <1>1 DEF Totalling, Adding
<1>3. \A d \in Calls : TotalsAt(d)'
  BY <1>2 DEF TotalsAt
<1>4. Adding = {} \/ Adding = {c}
  <2>1. \A d \in Calls \ {c} : d \notin Adding
    BY TotallingMeans
  <2> QED
    BY <2>1 DEF Adding
<1>5. ByUser <= Overall + MaxCost * faults'
  <2> DEFINE u == ByUser
             g == Overall
             m == MaxCost * faults
             mm == MaxCost * faults'
             k == call[c].cost
  <2>1. u \in Nat /\ g \in Nat /\ m \in Nat /\ MaxCost \in Nat
        /\ (faults' = faults + 1 => mm = m + MaxCost) /\ (faults' = faults => mm = m)
    <3>1. faults \in Nat
      BY DEF TypeInv
    <3> QED
      BY <3>1, TotalsType, FaultPays
  <2>2. CASE Adding = {}
    <3>1. u <= g + m
      BY <2>2, TotalsInvIs DEF Level
    <3>2. faults' = faults + 1 \/ faults' = faults
      OBVIOUS
    <3> HIDE DEF u, g, m, mm
    <3>3. u <= g + mm
      BY <2>1, <3>1, <3>2
    <3> QED
      BY <3>3 DEF u, g, mm
  <2>3. CASE Adding = {c}
    <3>1. u <= g + m + k /\ faults' = faults + 1
      BY <2>3, TotalsInvIs DEF TotalsAt
    <3>2. k \in Nat /\ k <= MaxCost
      <4>1. call[c] \in CallRecord
        BY <2>3, TotallingMeans
      <4> QED
        BY <4>1, CallFields DEF Costs
    <3> HIDE DEF u, g, m, mm, k
    <3>3. u <= g + mm
      BY <2>1, <3>1, <3>2
    <3> QED
      BY <3>3 DEF u, g, mm
  <2> QED
    BY <1>4, <2>2, <2>3
<1>6. (ByUser <= Overall + MaxCost * faults)'
  BY <1>5
<1>7. Level'
  BY <1>6 DEF Level
<1>8. (ByTask <= ByUser)' /\ (Overall <= ByTask)'
  BY TotalsInvIs
<1>9. (/\ \A d \in Calls : Totalling(d) => call[d].live /\ \A e \in Calls : Totalling(e) => e = d
       /\ ByTask <= ByUser /\ Overall <= ByTask
       /\ \A d \in Calls : TotalsAt(d)
       /\ Level)'
  BY <1>1, <1>3, <1>7, <1>8
<1> QED
  BY <1>9, TotalsInvIs, PTL

(* The step that adds: of the three sums one grows, in their order.        *)
LEMMA HeadAfter ==
    ASSUME NEW q \in CallRecord, Head(q.todo) \in {"inst", "user", "task", "global"}
    PROVE  /\ \/ After(q) = Idle /\ Head(q.todo) = "global"
              \/ /\ After(q) \in CallRecord /\ After(q).cost = q.cost /\ After(q).live = q.live
                 /\ Head(q.todo) = "inst" => Head(After(q).todo) = "user"
                 /\ Head(q.todo) = "user" => Head(After(q).todo) = "task"
                 /\ Head(q.todo) = "task" => Head(After(q).todo) = "global"
                 /\ Head(q.todo) = "global" => Head(After(q).todo) = "keep"
<1>1. q.todo \in PlainTodos \cup StreamTodos
  BY CallFields
<1>2. CASE Len(q.todo) = 1
  <2>1. Head(q.todo) = "global"
    <3>1. ASSUME q.todo \in PlainTodos PROVE Head(q.todo) = "global"
      BY <1>2, <3>1, PlainEnds
    <3>2. ASSUME q.todo \in StreamTodos PROVE Head(q.todo) = "global"
      BY <1>2, <3>2, StreamEnds
    <3> QED
      BY <1>1, <3>1, <3>2
  <2> QED
    BY <1>2, <2>1, AfterType
<1>3. CASE Len(q.todo) # 1
  <2>1. After(q) \in CallRecord /\ After(q) = [q EXCEPT !.todo = Tail(q.todo)]
    BY <1>3, AfterType
  <2>2. After(q).todo = Tail(q.todo) /\ After(q).cost = q.cost /\ After(q).live = q.live
    BY <2>1 DEF CallRecord
  <2>3. /\ Head(q.todo) = "inst" => Head(Tail(q.todo)) = "user"
        /\ Head(q.todo) = "user" => Head(Tail(q.todo)) = "task"
        /\ Head(q.todo) = "task" => Head(Tail(q.todo)) = "global"
        /\ Head(q.todo) = "global" => Head(Tail(q.todo)) = "keep"
    <3>1. ASSUME q.todo \in PlainTodos
          PROVE  /\ Head(q.todo) = "inst" => Head(Tail(q.todo)) = "user"
                 /\ Head(q.todo) = "user" => Head(Tail(q.todo)) = "task"
                 /\ Head(q.todo) = "task" => Head(Tail(q.todo)) = "global"
                 /\ Head(q.todo) = "global" => Head(Tail(q.todo)) = "keep"
      BY <1>3, <3>1, PlainEnds
    <3>2. ASSUME q.todo \in StreamTodos
          PROVE  /\ Head(q.todo) = "inst" => Head(Tail(q.todo)) = "user"
                 /\ Head(q.todo) = "user" => Head(Tail(q.todo)) = "task"
                 /\ Head(q.todo) = "task" => Head(Tail(q.todo)) = "global"
                 /\ Head(q.todo) # "global"
      BY <1>3, <3>2, StreamEnds
    <3> QED
      BY <1>1, <3>1, <3>2
  <2> QED
    BY <2>1, <2>2, <2>3
<1> QED
  BY <1>2, <1>3

LEMMA TotalsMetric ==
    ASSUME TypeInv, TypeInv', TotalsInv, NEW c \in Calls, \A d \in Calls \ {c} : ~ Totalling(d),
           IncrementMetrics(c)
    PROVE  TotalsInv'
<1>1. PICK s \in {"inst", "user", "task", "global"} :
             /\ Step(c, s)
             /\ MetricKey(c, s) \in Keys
             /\ total' = [total EXCEPT ![MetricKey(c, s)] = @ + call[c].cost]
             /\ UNCHANGED <<spend, until, ceiling, cached, begun, changes, recorded, purged, paid, raced>>
             /\ call[c].cost \in Nat
  BY MetricType
<1>2. /\ call[c] \in CallRecord /\ Head(call[c].todo) = s /\ call[c].live
      /\ call'[c] = After(call[c]) /\ UNCHANGED <<now, billed, faults>>
  BY <1>1, StepMeans
<1>3. \A d \in Calls \ {c} : call'[d] = call[d]
  BY <1>1, <1>2, StepMeans, AfterType, UpdateType
<1>4. call[c].inst \in Institutions /\ call[c].user \in Users /\ call[c].task \in Tasks
  BY <1>2, CallFields
<1>5. /\ s = "inst" => ByUser' = ByUser /\ ByTask' = ByTask /\ Overall' = Overall
      /\ s = "user" => ByUser' = ByUser + call[c].cost /\ ByTask' = ByTask /\ Overall' = Overall
      /\ s = "task" => ByUser' = ByUser /\ ByTask' = ByTask + call[c].cost /\ Overall' = Overall
      /\ s = "global" => ByUser' = ByUser /\ ByTask' = ByTask /\ Overall' = Overall + call[c].cost
  <2>1. CASE s = "inst"
    <3>1. MetricKey(c, s) \in Institutions
      BY <1>4, <2>1 DEF MetricKey
    <3> QED
      BY <1>1, <2>1, <3>1, TotalsAdd
  <2>2. CASE s = "user"
    <3>1. MetricKey(c, s) \in Users
      BY <1>4, <2>2 DEF MetricKey
    <3> QED
      BY <1>1, <2>2, <3>1, TotalsAdd
  <2>3. CASE s = "task"
    <3>1. MetricKey(c, s) \in Tasks
      BY <1>4, <2>3 DEF MetricKey
    <3> QED
      BY <1>1, <2>3, <3>1, TotalsAdd
  <2>4. CASE s = "global"
    <3>1. MetricKey(c, s) = Global
      BY <2>4 DEF MetricKey
    <3> QED
      BY <1>1, <2>4, <3>1, TotalsAdd
  <2> QED
    BY <2>1, <2>2, <2>3, <2>4
<1>6. /\ s = "inst" => call'[c] \in CallRecord /\ Head(call'[c].todo) = "user"
      /\ s = "user" => call'[c] \in CallRecord /\ Head(call'[c].todo) = "task"
      /\ s = "task" => call'[c] \in CallRecord /\ Head(call'[c].todo) = "global"
      /\ s = "global" => call'[c] = Idle \/ Head(call'[c].todo) = "keep"
      /\ s # "global" => call'[c].cost = call[c].cost /\ call'[c].live
  BY <1>2, HeadAfter
<1> DEFINE u == ByUser
           k == ByTask
           g == Overall
           m == MaxCost * faults
           n == call[c].cost
           uu == ByUser'
           kk == ByTask'
           gg == Overall'
<1>7. u \in Nat /\ k \in Nat /\ g \in Nat /\ m \in Nat /\ n \in Nat
  BY <1>1, TotalsType, FaultPays DEF TypeInv
<1>8. /\ k <= u /\ g <= k
      /\ s \in {"inst", "user"} => u <= g + m
      /\ s = "task" => k + n <= u /\ u <= g + m + n
      /\ s = "global" => g + n <= k /\ u <= g + m + n
  <2>1. s \in {"inst", "user"} => Adding = {}
    <3>1. \A d \in Calls \ {c} : d \notin Adding
      BY TotallingMeans
    <3>2. s \in {"inst", "user"} => c \notin Adding
      BY <1>2, TotallingMeans
    <3> QED
      BY <3>1, <3>2 DEF Adding
  <2>2. /\ s = "task" => Doing(c, "task") /\ c \in Adding
        /\ s = "global" => Doing(c, "global") /\ c \in Adding
    BY <1>2, DoingMeans, TotallingMeans
  <2> QED
    BY <2>1, <2>2, TotalsInvIs DEF TotalsAt, Level
<1>9. /\ kk <= uu /\ gg <= kk
      /\ s = "user" => kk + n <= uu
      /\ s = "task" => gg + n <= kk
      /\ s \in {"inst", "global"} => uu <= gg + m
      /\ s \in {"user", "task"} => uu <= gg + m + n
  <2> HIDE DEF u, k, g, m, n, uu, kk, gg
  <2>1. /\ s = "inst" => uu = u /\ kk = k /\ gg = g
        /\ s = "user" => uu = u + n /\ kk = k /\ gg = g
        /\ s = "task" => uu = u /\ kk = k + n /\ gg = g
        /\ s = "global" => uu = u /\ kk = k /\ gg = g + n
    BY <1>5 DEF u, k, g, n, uu, kk, gg
  <2>2. CASE s = "inst"
    BY <1>7, <1>8, <2>1, <2>2
  <2>3. CASE s = "user"
    BY <1>7, <1>8, <2>1, <2>3
  <2>4. CASE s = "task"
    BY <1>7, <1>8, <2>1, <2>4
  <2>5. CASE s = "global"
    BY <1>7, <1>8, <2>1, <2>5
  <2> QED
    BY <2>2, <2>3, <2>4, <2>5
<1>10. \A d \in Calls : d # c => ~ Totalling(d)' /\ ~ (d \in Adding)' /\ ~ Doing(d, "task")' /\ ~ Doing(d, "global")'
  <2> SUFFICES ASSUME NEW d \in Calls, d # c
               PROVE  ~ Totalling(d)' /\ ~ (d \in Adding)' /\ ~ Doing(d, "task")' /\ ~ Doing(d, "global")'
    OBVIOUS
  <2>1. call'[d] = call[d] /\ ~ Totalling(d)
    BY <1>3
  <2> QED
    BY <2>1, TotallingMeans, TotallingLater, DoingLater
<1>11. /\ Totalling(c)' => s \in {"inst", "user", "task"}
       /\ (c \in Adding)' <=> s \in {"user", "task"}
       /\ Doing(c, "task")' <=> s = "user"
       /\ Doing(c, "global")' <=> s = "task"
  BY <1>2, <1>6, TotallingLater, DoingLater, NotIdle
<1>12. \A d \in Calls : Totalling(d)' => call'[d].live /\ \A e \in Calls : Totalling(e)' => e = d
  BY <1>6, <1>10, <1>11
<1>13. TotalsAt(c)'
  <2>1. /\ s = "user" => (ByTask + call[c].cost <= ByUser)'
        /\ s = "task" => (Overall + call[c].cost <= ByTask)'
        /\ s \in {"user", "task"} => (ByUser <= Overall + MaxCost * faults + call[c].cost)'
    BY <1>2, <1>6, <1>9
  <2> QED
    BY <1>11, <2>1 DEF TotalsAt
<1>14. \A d \in Calls : TotalsAt(d)'
  BY <1>10, <1>13 DEF TotalsAt
<1>15. Level'
  <2>1. s \in {"inst", "global"} => (ByUser <= Overall + MaxCost * faults)'
    BY <1>2, <1>9
  <2>2. s \notin {"inst", "global"} => (Adding # {})'
    BY <1>1, <1>11
  <2> QED
    BY <2>1, <2>2 DEF Level
<1>16. (/\ \A d \in Calls : Totalling(d) => call[d].live /\ \A e \in Calls : Totalling(e) => e = d
        /\ ByTask <= ByUser /\ Overall <= ByTask
        /\ \A d \in Calls : TotalsAt(d)
        /\ Level)'
  BY <1>9, <1>12, <1>14, <1>15
<1> QED
  BY <1>16, TotalsInvIs, PTL

LEMMA TotalsSame ==
    ASSUME TypeInv, TypeInv', TotalsInv, UNCHANGED <<call, faults>>,
           ByUser' = ByUser, ByTask' = ByTask, Overall' = Overall
    PROVE  TotalsInv'
<1>1. \A c \in Calls : /\ Totalling(c)' <=> Totalling(c)
                       /\ (c \in Adding)' <=> c \in Adding
                       /\ \A s : Doing(c, s)' <=> Doing(c, s)
  BY TotallingMeans, TotallingLater, DoingMeans, DoingLater
<1>2. Adding' = {} <=> Adding = {}
  BY <1>1 DEF Adding
<1>3. \A d \in Calls : TotalsAt(d)'
  BY <1>1, TotalsInvIs DEF TotalsAt
<1>4. Level'
  BY <1>2, TotalsInvIs DEF Level
<1>5. \A d \in Calls : Totalling(d)' => call'[d].live /\ \A e \in Calls : Totalling(e)' => e = d
  BY <1>1, TotalsInvIs
<1>6. (/\ \A d \in Calls : Totalling(d) => call[d].live /\ \A e \in Calls : Totalling(e) => e = d
       /\ ByTask <= ByUser /\ Overall <= ByTask
       /\ \A d \in Calls : TotalsAt(d)
       /\ Level)'
  BY <1>3, <1>4, <1>5, TotalsInvIs
<1> QED
  BY <1>6, TotalsInvIs, PTL

(* Where a call can be next, that is not one adding to the totals.         *)
LEMMA CallNextHead ==
    ASSUME TypeInv, NEW c \in Calls, CallNext(c)
    PROVE  /\ call[c] \in CallRecord /\ Head(call[c].todo) \in {"call", "stream", "window"}
           /\ \A d \in Calls \ {c} : call'[d] = call[d]
           /\ call'[c] = Idle \/ Head(call'[c].todo) \in {"call", "stream", "window"}
           /\ \/ faults' = faults
              \/ faults' = faults + 1
<1>0. call[c] \in CallRecord
  BY CallNextType
<1> DEFINE Goal == /\ Head(call[c].todo) \in {"call", "stream", "window"}
                   /\ \A d \in Calls \ {c} : call'[d] = call[d]
                   /\ call'[c] = Idle \/ Head(call'[c].todo) \in {"call", "stream", "window"}
                   /\ \/ faults' = faults
                      \/ faults' = faults + 1
<1> SUFFICES Goal
  BY <1>0
<1>1. ASSUME NEW q \in {Idle} \cup CallRecord, Update(c, q), Works \/ Fails,
             Head(call[c].todo) \in {"call", "stream", "window"},
             q = Idle \/ Head(q.todo) \in {"call", "stream", "window"}
      PROVE  Goal
  BY <1>1, UpdateType DEF Works, Fails
<1> HIDE DEF Goal
<1>2. CASE Leave(c)
  <2> DEFINE q == [call[c] EXCEPT !.live = FALSE]
  <2>1. q \in CallRecord /\ q.todo = call[c].todo
    BY <1>0 DEF CallRecord
  <2>2. Head(call[c].todo) \in {"call", "stream", "window"}
    BY <1>2, DoingMeans DEF Leave
  <2>3. Update(c, q) /\ Fails
    BY <1>2 DEF Leave
  <2> HIDE DEF q
  <2> QED
    BY <1>1, <2>1, <2>2, <2>3
<1>3. CASE GiveUp(c)
  <2>1. Head(call[c].todo) = "call" /\ Update(c, Idle) /\ Works
    BY <1>3, DoingMeans DEF GiveUp, Over, Works
  <2> QED
    BY <1>1, <2>1
<1>4. ASSUME Attempt(c), Update(c, [call[c] EXCEPT !.models = Tail(@)]), Works \/ Fails PROVE Goal
  <2>1. [call[c] EXCEPT !.models = Tail(@)] \in CallRecord /\ [call[c] EXCEPT !.models = Tail(@)].todo = call[c].todo
    BY <1>0, <1>4, RefusedMoves DEF CallRecord
  <2>2. Head(call[c].todo) = "call"
    BY <1>4, AttemptMeans
  <2> QED
    BY <1>1, <1>4, <2>1, <2>2
<1>5. ASSUME NEW q \in CallRecord, Advance(c, q), Works \/ Fails, q.todo = call[c].todo, Head(call[c].todo) \in {"call", "stream"}
      PROVE  Goal
  <2>1. q.todo \in PlainTodos \cup StreamTodos
    BY CallFields
  <2>2. Len(q.todo) # 1 /\ Head(Tail(q.todo)) \in {"stream", "window"}
    <3>1. ASSUME q.todo \in PlainTodos PROVE Len(q.todo) # 1 /\ Head(Tail(q.todo)) \in {"stream", "window"}
      BY <1>5, <3>1, PlainEnds
    <3>2. ASSUME q.todo \in StreamTodos PROVE Len(q.todo) # 1 /\ Head(Tail(q.todo)) \in {"stream", "window"}
      BY <1>5, <3>2, StreamEnds
    <3> QED
      BY <2>1, <3>1, <3>2
  <2>3. After(q) \in CallRecord /\ After(q).todo = Tail(q.todo) /\ Update(c, After(q))
    BY <1>5, <2>2, AfterType, AdvanceMeans DEF CallRecord
  <2> QED
    BY <1>1, <1>5, <2>2, <2>3
<1>6. ASSUME NEW reported \in Reported, Complete(c, reported) PROVE Goal
  <2> DEFINE cost == ParseCost(Head(call[c].models), reported)
             q == [call[c] EXCEPT !.cost = cost]
  <2>1. Attempt(c) /\ Works /\ Advance(c, q)
    BY <1>6 DEF Complete
  <2>2. q \in CallRecord /\ Head(call[c].todo) = "call"
    BY <2>1, CompleteMoves, AttemptMeans
  <2>3. q.todo = call[c].todo
    BY <1>0 DEF CallRecord
  <2> HIDE DEF q
  <2> QED
    BY <1>5, <2>1, <2>2, <2>3
<1>7. CASE StreamNext(c)
  <2>0. Head(call[c].todo) = "stream" /\ StreamMoves(c) /\ (Works \/ Fails)
    BY <1>7, StreamSteps, OpenMeans
  <2>1. ASSUME NEW q \in CallRecord, q.todo = call[c].todo, Update(c, q) PROVE Goal
    BY <1>1, <2>0, <2>1
  <2>2. ASSUME NEW x \in {"line", "usage"}, Update(c, Send(c, x)) PROVE Goal
    <3>1. Send(c, x) \in CallRecord /\ Send(c, x).todo = call[c].todo
      BY <1>0, SendMoves, SendWorth DEF Lines, Ends
    <3> QED
      BY <2>1, <2>2, <3>1
  <2>3. ASSUME Update(c, [call[c] EXCEPT !.sent = @ + 1, !.lost = @ + 1]) PROVE Goal
    <3>1. [call[c] EXCEPT !.sent = @ + 1, !.lost = @ + 1].todo = call[c].todo
      BY <1>0 DEF CallRecord
    <3> QED
      BY <1>0, <2>1, <2>3, <3>1, GarbledMoves
  <2>4. ASSUME NEW end \in Ends, Update(c, Close(c, <<>>, end)) \/ Update(c, Close(c, <<"error">>, end)) PROVE Goal
    <3>1. /\ Close(c, <<>>, end) \in CallRecord /\ Close(c, <<"error">>, end) \in CallRecord
          /\ Close(c, <<>>, end).todo = call[c].todo /\ Close(c, <<"error">>, end).todo = call[c].todo
      BY <1>0, SendMoves, SendWorth DEF Lines
    <3> QED
      BY <2>1, <2>4, <3>1
  <2>5. ASSUME Over(c) PROVE Goal
    BY <1>1, <2>0, <2>5 DEF Over
  <2>6. ASSUME call[c].out # <<>>, Update(c, TakenFrom(call[c])) PROVE Goal
    <3>1. TakenFrom(call[c]) \in CallRecord /\ TakenFrom(call[c]).todo = call[c].todo
      BY <1>0, <2>6, TakeMoves DEF TakenFrom, CallRecord
    <3> QED
      BY <2>1, <2>6, <3>1
  <2>7. ASSUME Advance(c, call[c]) PROVE Goal
    BY <1>0, <1>5, <2>0, <2>7
  <2> QED
    BY <2>0, <2>2, <2>3, <2>4, <2>5, <2>6, <2>7 DEF StreamMoves
<1> QED
  BY <1>2, <1>3, <1>4, <1>6, <1>7 DEF CallNext, Refused, LostAnswer, Works

LEMMA TotalsNextKeeps == TypeInv /\ TypeInv' /\ TotalsInv /\ [Next]_vars => TotalsInv'
<1> SUFFICES ASSUME TypeInv, TypeInv', TotalsInv, [Next]_vars PROVE TotalsInv'
  OBVIOUS
<1>0. UNCHANGED total => ByUser' = ByUser /\ ByTask' = ByTask /\ Overall' = Overall
  BY TotalsKept
<1>1. ASSUME NEW c \in Calls, \A d \in Calls \ {c} : ~ Totalling(d), CallStep(c) PROVE TotalsInv'
  <2>1. ASSUME NEW todo \in {Plain, Streamed}, Begin(c, todo) PROVE TotalsInv'
    <3>1. PICK u \in Users, i \in Institutions, k \in Tasks, p \in Prompts : Update(c, Fresh(u, i, k, p, todo))
      BY <2>1, BeginMeans
    <3>2. Fresh(u, i, k, p, todo) \in CallRecord /\ Fresh(u, i, k, p, todo).todo = todo
      BY FreshType DEF Fresh
    <3>3. call'[c] = Fresh(u, i, k, p, todo) /\ \A d \in Calls \ {c} : call'[d] = call[d]
      BY <3>1, <3>2, UpdateType
    <3>4. Head(call'[c].todo) \in {"lookup", "check"}
      BY <3>2, <3>3, FreshType
    <3>5. UNCHANGED <<faults, total>> /\ call[c] = Idle
      BY <2>1, BeginMeans
    <3>6. c \notin Adding
      BY <3>5, TotallingMeans, NotIdle
    <3> QED
      BY <1>0, <1>1, <3>3, <3>4, <3>5, <3>6, TotalsQuiet
  <2>2. CASE StepFails(c)
    <3>1. /\ \A d \in Calls \ {c} : call'[d] = call[d]
          /\ call'[c] = Idle /\ call[c] \in CallRecord /\ UNCHANGED total
          /\ faults' = IF call[c].live THEN faults + 1 ELSE faults
      BY <2>2, StepFailsMeans, UpdateType DEF Over, spendVars
    <3>2. c \in Adding => call[c].live
      BY TotallingMeans, TotalsInvIs
    <3> QED
      BY <1>0, <1>1, <3>1, <3>2, TotalsQuiet
  <2>3. ASSUME call[c] \in CallRecord, UNCHANGED <<total, faults>>,
               Head(call[c].todo) \in {"lookup", "check", "window", "keep"},
               Over(c) \/ Update(c, After(call[c]))
        PROVE  TotalsInv'
    <3>1. (\A d \in Calls \ {c} : call'[d] = call[d]) /\ call'[c] \in {Idle, After(call[c])}
      BY <2>3, AfterType, UpdateType DEF Over
    <3>2. After(call[c]) = Idle \/ Head(After(call[c]).todo) \notin {"user", "task", "global"}
      <4>1. call[c].todo \in PlainTodos \cup StreamTodos
        BY <2>3, CallFields
      <4>2. Len(call[c].todo) # 1 => After(call[c]).todo = Tail(call[c].todo)
        BY <2>3, AfterType DEF CallRecord
      <4>3. ASSUME call[c].todo \in PlainTodos, Len(call[c].todo) # 1
            PROVE  Head(Tail(call[c].todo)) \notin {"user", "task", "global"}
        BY <2>3, <4>3, PlainEnds
      <4>4. ASSUME call[c].todo \in StreamTodos, Len(call[c].todo) # 1
            PROVE  Head(Tail(call[c].todo)) \notin {"user", "task", "global"}
        BY <2>3, <4>4, StreamEnds
      <4> QED
        BY <2>3, <4>1, <4>2, <4>3, <4>4, AfterType
    <3>3. c \notin Adding
      BY <2>3, TotallingMeans
    <3> QED
      BY <1>0, <1>1, <2>3, <3>1, <3>2, <3>3, TotalsQuiet
  <2>4. CASE CacheGet(c)
    BY <2>3, <2>4, CacheGetMeans
  <2>5. CASE CheckSpend(c)
    BY <2>3, <2>5, CheckSpendMeans
  <2>6. CASE CacheSet(c)
    BY <2>3, <2>6, StepMeans DEF CacheSet
  <2>7. CASE RecordSpend(c)
    BY <2>3, <2>7, StepMeans DEF RecordSpend
  <2>8. CASE IncrementMetrics(c)
    BY <1>1, <2>8, TotalsMetric
  <2>9. ASSUME CallNext(c), UNCHANGED total PROVE TotalsInv'
    <3>1. c \notin Adding
      BY <2>9, CallNextHead, TotallingMeans
    <3> QED
      BY <1>0, <1>1, <2>9, <3>1, CallNextHead, TotalsQuiet
  <2> QED
    BY <1>1, <2>1, <2>2, <2>4, <2>5, <2>6, <2>7, <2>8, <2>9 DEF CallStep
<1>2. ASSUME UNCHANGED <<call, faults, total>> PROVE TotalsInv'
  BY <1>0, <1>2, TotalsSame
<1>3. CASE ByOthers
  <2>1. ASSUME NEW p \in Prompts, CacheDelete(p) PROVE TotalsInv'
    BY <1>2, <2>1 DEF CacheDelete, callVars
  <2>2. ASSUME NEW i \in Institutions, NEW x \in Ceilings \cup {Unset}, SetBudgetCeiling(i, x) PROVE TotalsInv'
    BY <1>2, <2>2 DEF SetBudgetCeiling, callVars
  <2>3. ASSUME NEW i \in Institutions, NEW w \in Windows, GetSlidingWindowSpend(i, w) PROVE TotalsInv'
    BY <1>2, <2>3 DEF GetSlidingWindowSpend, callVars
  <2>4. ASSUME NEW i \in Institutions, ResetInstitutionMetrics(i) PROVE TotalsInv'
    <3>1. UNCHANGED <<call, faults>> /\ total' = [total EXCEPT ![i] = 0]
      BY <2>4 DEF ResetInstitutionMetrics
    <3>2. \A k \in Users \cup Tasks \cup {Global} : total'[k] = total[k]
      BY <3>1, KeysApart DEF TypeInv
    <3>3. ByUser' = ByUser /\ ByTask' = ByTask /\ Overall' = Overall
      BY <3>2, TotalsKept
    <3> QED
      BY <3>1, <3>3, TotalsSame
  <2> QED
    BY <1>3, <2>1, <2>2, <2>3, <2>4 DEF ByOthers
<1>4. CASE Pass
  BY <1>2, <1>4 DEF Pass, Tick
<1>5. CASE UNCHANGED vars
  BY <1>2, <1>5 DEF vars, callVars, spendVars
<1> QED
  BY <1>1, <1>3, <1>4, <1>5, NextMeans

LEMMA TotalsInit == Init => TotalsInv
<1> SUFFICES ASSUME Init PROVE TotalsInv
  OBVIOUS
<1>0. TypeInv
  BY TypeInit
<1>1. \A c \in Calls : call[c] = Idle
  BY DEF Init, CallsInit
<1>2. \A c \in Calls : ~ Totalling(c) /\ c \notin Adding
  BY <1>0, <1>1, TotallingMeans, NotIdle
<1>3. Adding = {}
  BY <1>2 DEF Adding
<1>4. \A c \in Calls : ~ Doing(c, "task") /\ ~ Doing(c, "global")
  BY <1>0, <1>1, DoingMeans, NotIdle
<1>5. ByUser = 0 /\ ByTask = 0 /\ Overall = 0
  <2>1. \A k \in Keys : total[k] = 0
    BY DEF Init
  <2>2. \A k \in Users : [x \in Users |-> total[x]][k] = 0
    BY <2>1, KeysApart
  <2>3. \A k \in Tasks : [x \in Tasks |-> total[x]][k] = 0
    BY <2>1, KeysApart
  <2>4. SumOf([x \in Users |-> total[x]], Users) = 0
    BY <2>2, SumZero, Numbers
  <2>5. SumOf([x \in Tasks |-> total[x]], Tasks) = 0
    BY <2>3, SumZero, Numbers
  <2> QED
    BY <2>1, <2>4, <2>5, KeysApart DEF ByUser, ByTask, Overall, SumOver, Summary
<1>6. 0 <= 0 + MaxCost * faults
  <2> DEFINE m == MaxCost * faults
  <2>1. m \in Nat
    BY <1>0, FaultPays DEF TypeInv
  <2> HIDE DEF m
  <2>2. 0 <= 0 + m
    BY <2>1
  <2> QED
    BY <2>2 DEF m
<1>7. \A d \in Calls : TotalsAt(d)
  BY <1>2, <1>4 DEF TotalsAt
<1>8. Level
  BY <1>5, <1>6 DEF Level
<1> QED
  BY <1>2, <1>5, <1>7, <1>8, TotalsInvIs

(* The totals agree but for one call that adds to them.                    *)
LEMMA Agreement == TypeInv /\ TotalsInv => TotalsAgree
<1> SUFFICES ASSUME TypeInv, TotalsInv PROVE TotalsAgree
  OBVIOUS
<1> DEFINE u == ByUser
           g == Overall
           m == MaxCost * faults
           n == Cardinality(Adding)
<1>1. u \in Nat /\ g \in Nat /\ m \in Nat /\ MaxCost \in Nat /\ faults \in Nat
  BY TotalsType, FaultPays DEF TypeInv
<1>2. ByTask <= ByUser /\ Overall <= ByTask
  BY TotalsInvIs
<1>3. u <= g + MaxCost * (faults + n)
  <2>1. CASE Adding = {}
    <3>1. n = 0 /\ u <= g + m
      BY <2>1, TotalsInvIs, FS_EmptySet DEF Level
    <3>2. faults + n = faults
      BY <1>1, <3>1
    <3> QED
      BY <3>1, <3>2
  <2>2. ASSUME NEW c \in Adding PROVE u <= g + MaxCost * (faults + n)
    <3>1. c \in Calls /\ Totalling(c) /\ call[c] \in CallRecord
      BY TotallingMeans DEF Adding
    <3>2. Adding = {c}
      <4>1. \A d \in Adding : d \in Calls /\ Totalling(d)
        BY TotallingMeans DEF Adding
      <4> QED
        BY <3>1, <4>1, TotalsInvIs
    <3>3. n = 1
      BY <3>2, FS_Singleton
    <3> DEFINE k == call[c].cost
    <3>4. u <= g + m + k /\ k \in Nat /\ k <= MaxCost
      BY <3>1, TotalsInvIs, CallFields DEF TotalsAt, Costs
    <3>5. MaxCost * (faults + n) = m + MaxCost
      BY <1>1, <3>3, FaultPays
    <3> HIDE DEF u, g, m, k, n
    <3>6. u <= g + (m + MaxCost)
      BY <1>1, <3>4
    <3> QED
      BY <3>5, <3>6
  <2> QED
    BY <2>1, <2>2
<1> QED
  BY <1>2, <1>3 DEF TotalsAgree, ByUser, ByTask, Overall

-----------------------------------------------------------------------------
(* The answers paid for.                                                   *)
LEMMA OwesType == ASSUME NEW q, NEW p PROVE Owes(q, p) \in {0, 1}
BY DEF Owes

LEMMA OwingStep ==
    ASSUME NEW c \in Calls, \A d \in Calls \ {c} : call'[d] = call[d], NEW p
    PROVE  /\ Owing(p) \in Nat /\ Owing(p)' \in Nat
           /\ Owing(p)' + Owes(call[c], p) = Owing(p) + Owes(call'[c], p)
<1> DEFINE f == [d \in Calls |-> Owes(call[d], p)]
           g == [d \in Calls |-> Owes(call'[d], p)]
<1>1. \A d \in Calls : f[d] \in Nat /\ g[d] \in Nat
  BY OwesType
<1>2. \A d \in Calls \ {c} : g[d] = f[d]
  OBVIOUS
<1>3. f[c] = Owes(call[c], p) /\ g[c] = Owes(call'[c], p)
  OBVIOUS
<1>4. Owing(p) = SumOf(f, Calls) /\ Owing(p)' = SumOf(g, Calls)
  BY DEF Owing
<1> HIDE DEF f, g
<1>5. /\ SumOf(f, Calls) \in Nat /\ SumOf(g, Calls) \in Nat
      /\ SumOf(g, Calls) + f[c] = SumOf(f, Calls) + g[c]
  BY <1>1, <1>2, Numbers, SumChange
<1> QED
  BY <1>1, <1>3, <1>4, <1>5

LEMMA OwingSame ==
    ASSUME NEW p PROVE Owing(p) \in Nat /\ (UNCHANGED call => Owing(p)' = Owing(p))
<1> DEFINE f == [d \in Calls |-> Owes(call[d], p)]
<1>1. \A d \in Calls : f[d] \in Nat
  BY OwesType
<1>2. Owing(p) = SumOf(f, Calls)
  BY DEF Owing
<1>3. UNCHANGED call => Owing(p)' = Owing(p)
  BY DEF Owing
<1> HIDE DEF f
<1> QED
  BY <1>1, <1>2, <1>3, SumType, Numbers

LEMMA FreeType == ASSUME NEW p PROVE Free(p) \in {0, 1} /\ Free(p)' \in {0, 1}
BY DEF Free

(* What a prompt's books say.                                              *)
PaidAt(p) == paid[p] + Owing(p) + Free(p) <= 1 + raced[p] + faults + changes
LEMMA PaidInvIs == PaidInv <=> \A p \in Prompts : PaidAt(p)
BY DEF PaidInv, PaidAt

LEMMA PaidType ==
    ASSUME TypeInv, NEW p \in Prompts
    PROVE  paid[p] \in Nat /\ raced[p] \in Nat /\ faults \in Nat /\ changes \in Nat
BY DEF TypeInv

(* A step of a call keeps the books if what it owes, and what becomes free *)
(* for the next lookup to ask, is covered by what it pays: its own debt, a *)
(* failure, or a race.                                                     *)
LEMMA PaidStep ==
    ASSUME TypeInv, TypeInv', PaidInv, NEW c \in Calls, \A d \in Calls \ {c} : call'[d] = call[d],
           UNCHANGED changes, NEW p \in Prompts,
           NEW more \in {0, 1}, paid'[p] = paid[p] + more,
           NEW race \in {0, 1}, raced'[p] = raced[p] + race,
           NEW fault \in {0, 1}, faults' = faults + fault,
           more + Owes(call'[c], p) + Free(p)' <= Owes(call[c], p) + Free(p) + race + fault
    PROVE  PaidAt(p)'
<1> DEFINE o == Owing(p)
           oo == Owing(p)'
           w == Owes(call[c], p)
           ww == Owes(call'[c], p)
           r == Free(p)
           rr == Free(p)'
<1>1. o \in Nat /\ oo \in Nat /\ oo + w = o + ww
  BY OwingStep
<1>2. w \in {0, 1} /\ ww \in {0, 1} /\ r \in {0, 1} /\ rr \in {0, 1}
  BY OwesType, FreeType
<1>3. paid[p] \in Nat /\ raced[p] \in Nat /\ faults \in Nat /\ changes \in Nat
  BY PaidType
<1>4. paid[p] + o + r <= 1 + raced[p] + faults + changes
  BY PaidInvIs DEF PaidAt
<1>5. more + ww + rr <= w + r + race + fault
  OBVIOUS
<1>6. (paid[p] + more) + oo + rr <= 1 + (raced[p] + race) + (faults + fault) + changes
  <2> HIDE DEF o, oo, w, ww, r, rr
  <2> DEFINE x == paid[p]
             y == raced[p]
  <2>1. x \in Nat /\ y \in Nat
    BY <1>3
  <2>2. x + o + r <= 1 + y + faults + changes
    BY <1>4
  <2> HIDE DEF x, y
  <2>3. (x + more) + oo + rr <= 1 + (y + race) + (faults + fault) + changes
    BY <1>1, <1>2, <1>3, <1>5, <2>1, <2>2
  <2> QED
    BY <2>3 DEF x, y
<1>7. PaidAt(p)' <=> paid'[p] + Owing(p)' + Free(p)' <= 1 + raced'[p] + faults' + changes'
  BY DEF PaidAt
<1> QED
  BY <1>6, <1>7

(* What is free for the next lookup to ask.                                *)
LEMMA FreeKept ==
    ASSUME NEW c \in Calls, \A d \in Calls \ {c} : call'[d] = call[d], NEW p,
           p \in cached => p \in cached',
           Makes(call[c], p) => Makes(call'[c], p) \/ p \in cached'
    PROVE  Free(p)' <= Free(p)
<1>1. CASE Free(p) = 1
  BY <1>1, FreeType
<1>2. CASE Free(p) = 0
  <2>1. p \in cached \/ \E d \in Calls : Makes(call[d], p)
    BY <1>2 DEF Free
  <2>2. p \in cached' \/ \E d \in Calls : Makes(call'[d], p)
    BY <2>1
  <2> QED
    BY <1>2, <2>2 DEF Free
<1> QED
  BY <1>1, <1>2, FreeType

LEMMA FreeWhen ==
    ASSUME NEW p
    PROVE  /\ (\E c \in Calls : Makes(call[c], p)) => Free(p) = 0
           /\ p \in cached => Free(p) = 0
           /\ (\E c \in Calls : Makes(call'[c], p)) => Free(p)' = 0
           /\ p \in cached' => Free(p)' = 0
           /\ (p \notin cached /\ ~ \E c \in Calls : Makes(call[c], p)) => Free(p) = 1
BY DEF Free

LEMMA MakingIs ==
    ASSUME TypeInv, NEW d \in Calls, NEW p
    PROVE  Making(d, p) <=> Makes(call[d], p)
<1>1. CASE call[d] = Idle
  BY <1>1 DEF Making, Makes
<1>2. CASE call[d] # Idle
  <2>1. call[d] \in CallRecord
    BY <1>2 DEF TypeInv
  <2>2. call[d].todo \in PlainTodos \cup StreamTodos
    BY <2>1, CallFields
  <2>3. "keep" \in ToSet(call[d].todo) <=> call[d].todo \in PlainTodos
    BY <2>2, PlainEnds, StreamEnds
  <2>4. Doing(d, "lookup") <=> Head(call[d].todo) = "lookup"
    BY <2>1, DoingMeans
  <2> QED
    BY <1>2, <2>3, <2>4 DEF Making, Makes
<1> QED
  BY <1>1, <1>2

(* A call without a place in the cache to fill owes nothing.               *)
LEMMA OwesNone ==
    ASSUME NEW q, NEW p, ~ Makes(q, p)
    PROVE  Owes(q, p) = 0
BY DEF Owes

LEMMA MakesNone ==
    ASSUME NEW p
    PROVE  /\ ~ Makes(Idle, p)
           /\ \A q \in CallRecord : q.todo \in StreamTodos \/ q.prompt # p \/ Head(q.todo) = "lookup" => ~ Makes(q, p)
<1>1. ~ Makes(Idle, p)
  BY DEF Makes
<1>2. ASSUME NEW q \in CallRecord, q.todo \in StreamTodos PROVE ~ Makes(q, p)
  BY <1>2, PlainEnds, StreamEnds DEF Makes
<1> QED
  BY <1>1, <1>2 DEF Makes

LEMMA AfterOwes ==
    ASSUME NEW q \in CallRecord, NEW p, Head(q.todo) \notin {"lookup", "keep"}
    PROVE  /\ Makes(q, p) => Makes(After(q), p)
           /\ Owes(After(q), p) <= Owes(q, p)
<1>1. CASE ~ Makes(q, p)
  <2>1. ~ Makes(After(q), p)
    <3>1. CASE Len(q.todo) = 1
      BY <3>1, AfterType, MakesNone
    <3>2. CASE Len(q.todo) # 1
      <4>1. After(q).todo = Tail(q.todo) /\ After(q).prompt = q.prompt
            /\ (q.todo \in PlainTodos <=> Tail(q.todo) \in PlainTodos)
        BY <3>2, AfterType DEF CallRecord
      <4> QED
        BY <1>1, <4>1, NotIdle DEF Makes
    <3> QED
      BY <3>1, <3>2
  <2> QED
    BY <1>1, <2>1, OwesNone
<1>2. CASE Makes(q, p)
  <2>1. q.todo \in PlainTodos /\ Len(q.todo) # 1
    BY <1>2, PlainEnds DEF Makes
  <2>2. /\ After(q) \in CallRecord /\ After(q).todo = Tail(q.todo) /\ After(q).prompt = q.prompt
        /\ After(q).live = q.live /\ Tail(q.todo) \in PlainTodos
    BY <2>1, AfterType, PlainEnds DEF CallRecord
  <2>3. /\ Head(Tail(q.todo)) # "lookup"
        /\ Head(Tail(q.todo)) \in {"check", "call"} => Head(q.todo) = "check"
    BY <2>1, PlainEnds
  <2>4. Makes(After(q), p)
    BY <1>2, <2>2, <2>3, NotIdle DEF Makes
  <2>5. Owes(After(q), p) = 1 => Owes(q, p) = 1
    BY <1>2, <2>2, <2>3 DEF Owes
  <2> QED
    BY <2>4, <2>5, OwesType
<1> QED
  BY <1>1, <1>2

(* A call ends: its debt is paid by what it owed, by a failure, or by the  *)
(* answer kept; or it had nobody's answer to make.                         *)
LEMMA PaidOver ==
    ASSUME TypeInv, TypeInv', PaidInv, NEW c \in Calls, call[c] \in CallRecord, Over(c),
           UNCHANGED <<changes, paid, raced, cached>>, NEW fault \in {0, 1}, faults' = faults + fault,
           NEW p \in Prompts, fault = 1 \/ Makes(call[c], p) => Owes(call[c], p) + fault >= 1
    PROVE  PaidAt(p)'
<1>1. call'[c] = Idle /\ \A d \in Calls \ {c} : call'[d] = call[d]
  BY UpdateType DEF Over
<1>2. Owes(call'[c], p) = 0 /\ ~ Makes(call'[c], p)
  BY <1>1, MakesNone, OwesNone
<1>3. ~ Makes(call[c], p) => Free(p)' <= Free(p)
  BY <1>1, FreeKept
<1> DEFINE w == Owes(call[c], p)
           ww == Owes(call'[c], p)
           r == Free(p)
           rr == Free(p)'
<1>4. 0 + ww + rr <= w + r + 0 + fault
  <2>1. w \in {0, 1} /\ ww = 0 /\ r \in {0, 1} /\ rr \in {0, 1}
    BY <1>2, OwesType, FreeType
  <2>2. w + fault >= 1 \/ rr <= r
    BY <1>3, OwesType
  <2> HIDE DEF w, ww, r, rr
  <2> QED
    BY <2>1, <2>2
<1>5. paid'[p] = paid[p] + 0 /\ raced'[p] = raced[p] + 0
  BY PaidType
<1> HIDE DEF w, ww, r, rr
<1> QED
  BY <1>1, <1>4, <1>5, PaidStep DEF w, ww, r, rr

LEMMA PaidQuiet ==
    ASSUME TypeInv, TypeInv', PaidInv, NEW c \in Calls, \A d \in Calls \ {c} : call'[d] = call[d],
           UNCHANGED <<changes, paid, raced, faults>>, NEW p \in Prompts,
           p \in cached => p \in cached', Makes(call[c], p) => Makes(call'[c], p) \/ p \in cached',
           Owes(call'[c], p) <= Owes(call[c], p)
    PROVE  PaidAt(p)'
<1>1. Free(p)' <= Free(p)
  BY FreeKept
<1> DEFINE w == Owes(call[c], p)
           ww == Owes(call'[c], p)
           r == Free(p)
           rr == Free(p)'
<1>2. 0 + ww + rr <= w + r + 0 + 0
  <2>1. w \in {0, 1} /\ ww \in {0, 1} /\ r \in {0, 1} /\ rr \in {0, 1} /\ ww <= w /\ rr <= r
    BY <1>1, OwesType, FreeType
  <2> HIDE DEF w, ww, r, rr
  <2> QED
    BY <2>1
<1>3. paid'[p] = paid[p] + 0 /\ raced'[p] = raced[p] + 0 /\ faults' = faults + 0
  BY PaidType
<1> HIDE DEF w, ww, r, rr
<1> QED
  BY <1>2, <1>3, PaidStep DEF w, ww, r, rr

(* A failure pays for the answer asked for, or to be asked for again.      *)
LEMMA PaidFault ==
    ASSUME TypeInv, TypeInv', PaidInv, NEW c \in Calls, \A d \in Calls \ {c} : call'[d] = call[d],
           UNCHANGED <<changes, raced, cached>>, faults' = faults + 1, NEW p \in Prompts,
           NEW more \in {0, 1}, paid'[p] = paid[p] + more,
           Makes(call[c], p) => Makes(call'[c], p),
           Owes(call'[c], p) + more <= Owes(call[c], p) + 1
    PROVE  PaidAt(p)'
<1>1. Free(p)' <= Free(p)
  BY FreeKept
<1> DEFINE w == Owes(call[c], p)
           ww == Owes(call'[c], p)
           r == Free(p)
           rr == Free(p)'
<1>2. more + ww + rr <= w + r + 0 + 1
  <2>1. w \in {0, 1} /\ ww \in {0, 1} /\ r \in {0, 1} /\ rr \in {0, 1} /\ ww + more <= w + 1 /\ rr <= r
    BY <1>1, OwesType, FreeType
  <2> HIDE DEF w, ww, r, rr
  <2> QED
    BY <2>1
<1>3. raced'[p] = raced[p] + 0
  BY PaidType
<1> HIDE DEF w, ww, r, rr
<1> QED
  BY <1>2, <1>3, PaidStep DEF w, ww, r, rr

LEMMA PaidLookup ==
    ASSUME TypeInv, TypeInv', PaidInv, NEW c \in Calls, CacheGet(c), NEW p \in Prompts
    PROVE  PaidAt(p)'
<1>0. call[c] \in CallRecord /\ Head(call[c].todo) = "lookup" /\ call[c].live
      /\ UNCHANGED <<faults, cached, changes, paid>>
  BY CacheGetMeans
<1>1. ~ Makes(call[c], p) /\ Owes(call[c], p) = 0
  BY <1>0, MakesNone, OwesNone
<1>2. CASE Over(c) /\ UNCHANGED raced
  <2>1. faults' = faults + 0
    BY <1>0, PaidType
  <2> QED
    BY <1>0, <1>1, <1>2, <2>1, PaidOver
<1>3. ASSUME call[c].prompt \notin cached, Update(c, After(call[c])),
             raced' = [raced EXCEPT ![call[c].prompt] =
                         @ + IF \E d \in Calls : Making(d, call[c].prompt) THEN 1 ELSE 0]
      PROVE  PaidAt(p)'
  <2> DEFINE race == IF p = call[c].prompt /\ \E d \in Calls : Making(d, p) THEN 1 ELSE 0
  <2>1. call'[c] = After(call[c]) /\ \A d \in Calls \ {c} : call'[d] = call[d]
    BY <1>0, <1>3, AfterType, UpdateType
  <2>2. Free(p)' <= Free(p)
    BY <1>0, <1>1, <2>1, FreeKept
  <2>3. raced'[p] = raced[p] + race
    <3>1. call[c].prompt \in Prompts /\ raced \in [Prompts -> Nat]
      BY <1>0, CallFields DEF TypeInv
    <3> QED
      BY <1>3, <3>1
  <2>4. CASE ~ Makes(call'[c], p)
    <3>1. Owes(call'[c], p) = 0
      BY <2>4, OwesNone
    <3> DEFINE ww == Owes(call'[c], p)
               w == Owes(call[c], p)
               r == Free(p)
               rr == Free(p)'
    <3>2. 0 + ww + rr <= w + r + race + 0
      <4>1. ww = 0 /\ w = 0 /\ r \in {0, 1} /\ rr \in {0, 1} /\ rr <= r /\ race \in {0, 1}
        BY <1>1, <2>2, <3>1, FreeType
      <4> HIDE DEF ww, w, r, rr, race
      <4> QED
        BY <4>1
    <3>3. paid'[p] = paid[p] + 0 /\ faults' = faults + 0 /\ race \in {0, 1}
      BY <1>0, PaidType
    <3> HIDE DEF ww, w, r, rr, race
    <3> QED
      BY <1>0, <2>1, <2>3, <3>2, <3>3, PaidStep DEF ww, w, r, rr
  <2>5. CASE Makes(call'[c], p)
    <3>1. After(call[c]) # Idle
      BY <2>1, <2>5, MakesNone
    <3>2. p = call[c].prompt
      <4>1. After(call[c]).prompt = call[c].prompt
        BY <1>0, <3>1, AfterType DEF CallRecord
      <4> QED
        BY <2>1, <2>5, <4>1 DEF Makes
    <3>3. Free(p)' = 0
      BY <2>5, FreeWhen
    <3>4. Free(p) + race >= 1
      <4>1. CASE race = 1
        BY <4>1, FreeType
      <4>2. CASE race # 1
        <5>1. p \notin cached /\ ~ \E d \in Calls : Makes(call[d], p)
          BY <1>3, <3>2, <4>2, MakingIs
        <5>2. Free(p) = 1
          BY <5>1, FreeWhen
        <5> QED
          BY <4>2, <5>2
      <4> QED
        BY <4>1, <4>2
    <3> DEFINE ww == Owes(call'[c], p)
               w == Owes(call[c], p)
               r == Free(p)
               rr == Free(p)'
    <3>5. 0 + ww + rr <= w + r + race + 0
      <4>1. ww \in {0, 1} /\ w = 0 /\ r \in {0, 1} /\ rr = 0 /\ r + race >= 1 /\ race \in {0, 1}
        BY <1>1, <3>3, <3>4, OwesType, FreeType
      <4> HIDE DEF ww, w, r, rr, race
      <4> QED
        BY <4>1
    <3>6. paid'[p] = paid[p] + 0 /\ faults' = faults + 0 /\ race \in {0, 1}
      BY <1>0, PaidType
    <3> HIDE DEF ww, w, r, rr, race
    <3> QED
      BY <1>0, <2>1, <2>3, <3>5, <3>6, PaidStep DEF ww, w, r, rr
  <2> QED
    BY <2>4, <2>5
<1> QED
  BY <1>2, <1>3, CacheGetMeans

LEMMA PaidAttempt ==
    ASSUME TypeInv, TypeInv', PaidInv, NEW c \in Calls, CallNext(c), Counted(c),
           UNCHANGED <<cached, changes, raced>>, NEW p \in Prompts
    PROVE  PaidAt(p)'
<1>0. call[c] \in CallRecord
  BY CallNextType
<1>a. call[c].prompt \in Prompts /\ paid \in [Prompts -> Nat]
      /\ call[c].todo \in PlainTodos \cup StreamTodos
  BY <1>0, CallFields DEF TypeInv
<1>1. UNCHANGED billed => UNCHANGED paid
  BY DEF Counted
<1>2. \E more \in {0, 1} : paid'[p] = paid[p] + more
                           /\ (more = 1 => p = call[c].prompt /\ call[c].todo \in PlainTodos)
  <2>1. CASE UNCHANGED paid
    <3>1. paid'[p] = paid[p] + 0
      BY <1>a, <2>1
    <3> QED
      BY <3>1
  <2>2. CASE paid' = [paid EXCEPT ![call[c].prompt] = @ + 1] /\ "keep" \in ToSet(call[c].todo)
    <3>1. call[c].todo \in PlainTodos
      BY <1>a, <2>2, StreamEnds
    <3>2. CASE p = call[c].prompt
      <4>1. paid'[p] = paid[p] + 1
        BY <1>a, <2>2, <3>2
      <4> QED
        BY <3>1, <3>2, <4>1
    <3>3. CASE p # call[c].prompt
      <4>1. paid'[p] = paid[p] + 0
        BY <1>a, <2>2, <3>3
      <4> QED
        BY <4>1
    <3> QED
      BY <3>2, <3>3
  <2> QED
    BY <2>1, <2>2 DEF Counted
<1>3. PICK more \in {0, 1} : paid'[p] = paid[p] + more
                             /\ (more = 1 => p = call[c].prompt /\ call[c].todo \in PlainTodos)
  BY <1>2
<1>4. CASE Leave(c)
  <2> DEFINE q == [call[c] EXCEPT !.live = FALSE]
  <2>1. q \in CallRecord /\ q.todo = call[c].todo /\ q.prompt = call[c].prompt
    BY <1>0 DEF CallRecord
  <2>2. Update(c, q) /\ faults' = faults + 1 /\ UNCHANGED paid
    BY <1>1, <1>4 DEF Leave, Fails
  <2> HIDE DEF q
  <2>3. call'[c] = q /\ \A d \in Calls \ {c} : call'[d] = call[d]
    BY <2>1, <2>2, UpdateType
  <2>4. Makes(call[c], p) => Makes(q, p)
    BY <2>1, NotIdle DEF Makes
  <2>5. paid'[p] = paid[p] + 0
    BY <1>a, <2>2
  <2>6. Owes(q, p) + 0 <= Owes(call[c], p) + 1
    BY OwesType
  <2> QED
    BY <2>2, <2>3, <2>4, <2>5, <2>6, PaidFault
<1>5. CASE GiveUp(c)
  <2>1. Head(call[c].todo) = "call" /\ Over(c) /\ faults' = faults + 0 /\ UNCHANGED paid
    BY <1>1, <1>5, DoingMeans, PaidType DEF GiveUp
  <2>2. Makes(call[c], p) => Owes(call[c], p) + 0 >= 1
    BY <2>1 DEF Owes
  <2> QED
    BY <1>0, <2>1, <2>2, PaidOver
<1>6. ASSUME Attempt(c), Update(c, [call[c] EXCEPT !.models = Tail(@)])
      PROVE  /\ \A d \in Calls \ {c} : call'[d] = call[d]
             /\ Makes(call'[c], p) <=> Makes(call[c], p)
             /\ Owes(call'[c], p) = Owes(call[c], p)
  <2> DEFINE q == [call[c] EXCEPT !.models = Tail(@)]
  <2>1. q \in CallRecord /\ q.todo = call[c].todo /\ q.prompt = call[c].prompt /\ q.live = call[c].live
    BY <1>0, <1>6, RefusedMoves DEF CallRecord
  <2>2. Update(c, q)
    BY <1>6
  <2> HIDE DEF q
  <2>3. call'[c] = q /\ \A d \in Calls \ {c} : call'[d] = call[d]
    BY <2>1, <2>2, UpdateType
  <2>4. Makes(q, p) <=> Makes(call[c], p)
    BY <1>0, <2>1, NotIdle DEF Makes
  <2>5. Owes(q, p) = Owes(call[c], p)
    BY <2>1, <2>4 DEF Owes
  <2> QED
    BY <2>3, <2>4, <2>5
<1>7. CASE Refused(c)
  <2>1. UNCHANGED <<faults, paid>> /\ Attempt(c) /\ Update(c, [call[c] EXCEPT !.models = Tail(@)])
    BY <1>1, <1>7 DEF Refused
  <2>2. Owes(call'[c], p) <= Owes(call[c], p)
    BY <1>6, <2>1, OwesType
  <2> QED
    BY <1>6, <2>1, <2>2, PaidQuiet
<1>8. ASSUME NEW reported \in Reported, LostAnswer(c, reported) PROVE PaidAt(p)'
  <2>1. faults' = faults + 1 /\ Attempt(c) /\ Update(c, [call[c] EXCEPT !.models = Tail(@)])
    BY <1>8 DEF LostAnswer, Fails
  <2>2. Owes(call'[c], p) + more <= Owes(call[c], p) + 1
    BY <1>6, <2>1, OwesType
  <2> QED
    BY <1>3, <1>6, <2>1, <2>2, PaidFault
<1>9. ASSUME NEW reported \in Reported, Complete(c, reported) PROVE PaidAt(p)'
  <2> DEFINE cost == ParseCost(Head(call[c].models), reported)
             q == [call[c] EXCEPT !.cost = cost]
  <2>1. Attempt(c) /\ faults' = faults /\ Advance(c, q)
    BY <1>9 DEF Complete, Works
  <2>2. q \in CallRecord /\ Head(call[c].todo) = "call" /\ call[c].live
    BY <2>1, CompleteMoves, AttemptMeans
  <2>3. q.todo = call[c].todo /\ q.prompt = call[c].prompt /\ q.live = call[c].live
    BY <1>0 DEF CallRecord
  <2> HIDE DEF q
  <2>4. call'[c] = After(q) /\ \A d \in Calls \ {c} : call'[d] = call[d]
    BY <2>1, <2>2, AdvanceMeans, AfterType, UpdateType
  <2>5. (Makes(q, p) <=> Makes(call[c], p)) /\ (Makes(q, p) => Makes(After(q), p))
    <3>1. Makes(q, p) <=> Makes(call[c], p)
      BY <1>0, <2>2, <2>3, NotIdle DEF Makes
    <3> QED
      BY <2>2, <2>3, <3>1, AfterOwes
  <2>6. Owes(After(q), p) = 0
    <3>1. CASE ~ Makes(After(q), p)
      BY <3>1, OwesNone
    <3>2. CASE Makes(After(q), p)
      <4>1. After(q) # Idle
        BY <3>2, MakesNone
      <4>2. After(q) \in CallRecord /\ After(q).todo = Tail(q.todo) /\ After(q).live /\ Tail(q.todo) \in PlainTodos
        BY <2>2, <2>3, <3>2, <4>1, AfterType DEF CallRecord, Makes
      <4>3. q.todo \in PlainTodos
        BY <2>2, <4>1, <4>2, AfterType
      <4>4. Head(Tail(q.todo)) = "window"
        BY <2>2, <2>3, <4>3, PlainEnds
      <4> QED
        BY <4>2, <4>4 DEF Owes
    <3> QED
      BY <3>1, <3>2
  <2>7. more <= Owes(call[c], p)
    <3>1. CASE more = 1
      <4>1. Makes(call[c], p)
        BY <1>0, <1>3, <2>2, <3>1, NotIdle DEF Makes
      <4>2. Owes(call[c], p) = 1
        BY <2>2, <4>1 DEF Owes
      <4> QED
        BY <3>1, <4>2
    <3>2. CASE more = 0
      BY <3>2, OwesType
    <3> QED
      BY <3>1, <3>2
  <2>8. Free(p)' <= Free(p)
    BY <2>4, <2>5, FreeKept
  <2> DEFINE w == Owes(call[c], p)
             ww == Owes(call'[c], p)
             r == Free(p)
             rr == Free(p)'
  <2>9. more + ww + rr <= w + r + 0 + 0
    <3>1. w \in {0, 1} /\ ww = 0 /\ r \in {0, 1} /\ rr \in {0, 1} /\ more <= w /\ rr <= r
      BY <2>4, <2>6, <2>7, <2>8, OwesType, FreeType
    <3> HIDE DEF w, ww, r, rr
    <3> QED
      BY <3>1
  <2>10. raced'[p] = raced[p] + 0 /\ faults' = faults + 0
    BY <2>1, PaidType
  <2> HIDE DEF w, ww, r, rr
  <2> QED
    BY <1>3, <2>4, <2>9, <2>10, PaidStep DEF w, ww, r, rr
<1>10. CASE StreamNext(c)
  <2>1. call[c].todo \in StreamTodos /\ UNCHANGED <<paid, now>> /\ Head(call[c].todo) = "stream"
    <3>1. Head(call[c].todo) = "stream" /\ UNCHANGED <<billed, now>>
      BY <1>10, StreamSteps, OpenMeans
    <3> QED
      BY <1>1, <1>a, <3>1, PlainEnds
  <2>2. ~ Makes(call[c], p)
    BY <1>0, <2>1, MakesNone
  <2>3. call'[c] = Idle \/ (call'[c] \in CallRecord /\ call'[c].todo \in StreamTodos)
    <3>1. call'[c] = Idle \/ Head(call'[c].todo) \in {"call", "stream", "window"}
      BY CallNextHead
    <3>2. call'[c] \in {Idle} \cup CallRecord
      BY CallNextType
    <3>3. StreamMoves(c)
      BY <1>10, StreamSteps
    <3>4. ASSUME NEW q \in CallRecord, Update(c, q), q.todo \in StreamTodos
          PROVE  call'[c] \in CallRecord /\ call'[c].todo \in StreamTodos
      BY <3>4, UpdateType
    <3>5. ASSUME NEW x, NEW end
          PROVE  Send(c, x).todo = call[c].todo /\ Close(c, x, end).todo = call[c].todo
      BY <1>0, SendWorth
    <3>6. [call[c] EXCEPT !.sent = @ + 1, !.lost = @ + 1].todo = call[c].todo /\ TakenFrom(call[c]).todo = call[c].todo
      BY <1>0 DEF CallRecord, TakenFrom
    <3>7. ASSUME NEW q, Update(c, q), q.todo \in StreamTodos PROVE call'[c].todo \in StreamTodos
      BY <3>7 DEF Update, TypeInv
    <3>8. call'[c] # Idle => call'[c] \in CallRecord
      BY <3>2
    <3>9. Over(c) => call'[c] = Idle
      BY UpdateType DEF Over
    <3>10. Advance(c, call[c]) => call'[c] = Idle \/ call'[c].todo \in StreamTodos
      <4> HAVE Advance(c, call[c])
      <4>1. call'[c] = After(call[c])
        BY <1>0, AdvanceType
      <4>2. ASSUME Len(call[c].todo) # 1
            PROVE  After(call[c]).todo = Tail(call[c].todo) /\ Tail(call[c].todo) \in StreamTodos
        <5>1. After(call[c]) = [call[c] EXCEPT !.todo = Tail(call[c].todo)]
          BY <1>0, <4>2, AfterType
        <5>2. After(call[c]).todo = Tail(call[c].todo)
          BY <1>0, <5>1 DEF CallRecord
        <5>3. Head(call[c].todo) # "global"
          BY <2>1
        <5> QED
          BY <2>1, <5>2, <5>3, StreamEnds
      <4> QED
        BY <1>0, <4>1, <4>2, AfterType
    <3> QED
      BY <2>1, <3>3, <3>5, <3>6, <3>7, <3>8, <3>9, <3>10 DEF StreamMoves
  <2>4. ~ Makes(call'[c], p)
    BY <2>3, MakesNone
  <2>5. Owes(call[c], p) = 0 /\ Owes(call'[c], p) = 0
    BY <2>2, <2>4, OwesNone
  <2>6. (\A d \in Calls \ {c} : call'[d] = call[d]) /\ (faults' = faults \/ faults' = faults + 1)
    BY CallNextHead
  <2>7. paid'[p] = paid[p] + 0
    BY <1>a, <2>1
  <2>8. CASE faults' = faults
    BY <2>1, <2>2, <2>5, <2>6, <2>8, PaidQuiet
  <2>9. CASE faults' = faults + 1
    BY <2>2, <2>5, <2>6, <2>7, <2>9, PaidFault
  <2> QED
    BY <2>6, <2>8, <2>9
<1> QED
  BY <1>4, <1>5, <1>7, <1>8, <1>9, <1>10 DEF CallNext

LEMMA PaidNextKeeps == TypeInv /\ TypeInv' /\ PaidInv /\ [Next]_vars => PaidInv'
<1> SUFFICES ASSUME TypeInv, TypeInv', PaidInv, [Next]_vars PROVE PaidInv'
  OBVIOUS
<1>0. ASSUME \A p \in Prompts : PaidAt(p)' PROVE PaidInv'
  <2>1. (\A p \in Prompts : PaidAt(p))'
    BY <1>0
  <2> QED
    BY <2>1, PaidInvIs, PTL
<1>1. ASSUME NEW c \in Calls, CallStep(c) PROVE PaidInv'
  <2> SUFFICES ASSUME NEW p \in Prompts PROVE PaidAt(p)'
    BY <1>0
  <2>1. ASSUME NEW todo \in {Plain, Streamed}, Begin(c, todo) PROVE PaidAt(p)'
    <3>1. PICK u \in Users, i \in Institutions, k \in Tasks, m \in Prompts : Update(c, Fresh(u, i, k, m, todo))
      BY <2>1, BeginMeans
    <3>2. /\ Fresh(u, i, k, m, todo) \in CallRecord /\ Fresh(u, i, k, m, todo).todo = todo
          /\ todo \in StreamTodos \/ Head(todo) = "lookup"
      BY FreshType DEF Fresh
    <3>3. call'[c] = Fresh(u, i, k, m, todo) /\ \A d \in Calls \ {c} : call'[d] = call[d]
      BY <3>1, <3>2, UpdateType
    <3>4. ~ Makes(call'[c], p) /\ call[c] = Idle
      BY <2>1, <3>2, <3>3, MakesNone, BeginMeans
    <3>5. ~ Makes(call[c], p)
      BY <3>4, MakesNone
    <3>6. Owes(call'[c], p) = 0 /\ Owes(call[c], p) = 0
      BY <3>4, <3>5, OwesNone
    <3>7. UNCHANGED <<faults, cached, changes, paid, raced>>
      BY <2>1, BeginMeans
    <3> QED
      BY <3>3, <3>5, <3>6, <3>7, PaidQuiet
  <2>2. CASE StepFails(c)
    <3>1. /\ call[c] \in CallRecord /\ Over(c) /\ UNCHANGED <<changes, paid, raced, cached>>
          /\ faults' = IF call[c].live THEN faults + 1 ELSE faults
      BY <2>2, StepFailsMeans DEF spendVars
    <3>2. CASE call[c].live
      <4>1. faults' = faults + 1 /\ Owes(call[c], p) + 1 >= 1
        BY <3>1, <3>2, OwesType
      <4> QED
        BY <3>1, <4>1, PaidOver
    <3>3. CASE ~ call[c].live
      <4>1. faults' = faults + 0 /\ (Makes(call[c], p) => Owes(call[c], p) + 0 >= 1)
        BY <3>1, <3>3, PaidType DEF Owes
      <4> QED
        BY <3>1, <4>1, PaidOver
    <3> QED
      BY <3>2, <3>3
  <2>3. CASE CacheGet(c)
    BY <2>3, PaidLookup
  <2>4. CASE CacheSet(c)
    <3>1. Step(c, "keep") /\ cached' = cached \cup {call[c].prompt} /\ UNCHANGED <<changes, paid, raced>>
      BY <2>4 DEF CacheSet
    <3>2. call[c] \in CallRecord /\ Head(call[c].todo) = "keep" /\ call'[c] = After(call[c]) /\ UNCHANGED faults
      BY <3>1, StepMeans
    <3>3. \A d \in Calls \ {c} : call'[d] = call[d]
      BY <3>1, <3>2, StepMeans, AfterType, UpdateType
    <3>4. call'[c] = Idle
      <4>1. call[c].todo \in PlainTodos \cup StreamTodos
        BY <3>2, CallFields
      <4>2. call[c].todo \in PlainTodos
        BY <3>2, <4>1, StreamEnds
      <4>3. Len(call[c].todo) = 1
        BY <3>2, <4>2, PlainEnds
      <4> QED
        BY <3>2, <4>3, AfterType
    <3>5. Owes(call'[c], p) = 0
      BY <3>4, MakesNone, OwesNone
    <3>6. Owes(call'[c], p) <= Owes(call[c], p)
      BY <3>5, OwesType
    <3>7. /\ p \in cached => p \in cached'
          /\ Makes(call[c], p) => p \in cached'
      BY <3>1 DEF Makes
    <3> QED
      BY <3>1, <3>2, <3>3, <3>6, <3>7, PaidQuiet
  <2>5. ASSUME call[c] \in CallRecord, Head(call[c].todo) \notin {"lookup", "keep"}, Update(c, After(call[c])),
               UNCHANGED <<faults, cached, changes, paid, raced>>
        PROVE  PaidAt(p)'
    <3>1. call'[c] = After(call[c]) /\ \A d \in Calls \ {c} : call'[d] = call[d]
      BY <2>5, AfterType, UpdateType
    <3> QED
      BY <2>5, <3>1, AfterOwes, PaidQuiet
  <2>6. CASE CheckSpend(c)
    <3>1. call[c] \in CallRecord /\ Head(call[c].todo) = "check" /\ UNCHANGED <<faults, cached, changes, paid, raced>>
      BY <2>6, CheckSpendMeans
    <3>2. CASE Over(c)
      <4>1. faults' = faults + 0 /\ (Makes(call[c], p) => Owes(call[c], p) + 0 >= 1)
        BY <3>1, PaidType DEF Owes
      <4> QED
        BY <3>1, <3>2, <4>1, PaidOver
    <3> QED
      BY <2>5, <2>6, <3>1, <3>2, CheckSpendMeans
  <2>7. CASE RecordSpend(c)
    BY <2>5, <2>7, StepMeans DEF RecordSpend
  <2>8. CASE IncrementMetrics(c)
    BY <2>5, <2>8, StepMeans DEF IncrementMetrics
  <2>9. ASSUME CallNext(c), Counted(c), UNCHANGED <<cached, changes, raced>> PROVE PaidAt(p)'
    BY <2>9, PaidAttempt
  <2> QED
    BY <1>1, <2>1, <2>2, <2>3, <2>4, <2>6, <2>7, <2>8, <2>9 DEF CallStep
<1>2. ASSUME UNCHANGED <<call, faults, paid, raced>>, changes' = changes + 1 PROVE PaidInv'
  <2> SUFFICES ASSUME NEW p \in Prompts PROVE PaidAt(p)'
    BY <1>0
  <2> DEFINE x == paid[p]
             y == raced[p]
             o == Owing(p)
             r == Free(p)
             rr == Free(p)'
  <2>1. x \in Nat /\ y \in Nat /\ faults \in Nat /\ changes \in Nat
    BY PaidType
  <2>2. o \in Nat /\ r \in {0, 1} /\ rr \in {0, 1}
    BY OwingSame, FreeType
  <2>3. x + o + r <= 1 + y + faults + changes
    BY PaidInvIs DEF PaidAt
  <2>4. Owing(p)' = o
    BY <1>2, OwingSame
  <2>5. x + o + rr <= 1 + y + faults + (changes + 1)
    <3> HIDE DEF x, y, o, r, rr
    <3> QED
      BY <2>1, <2>2, <2>3
  <2> QED
    BY <1>2, <2>4, <2>5 DEF PaidAt
<1>3. ASSUME UNCHANGED <<call, faults, paid, raced, changes, cached>> PROVE PaidInv'
  <2> SUFFICES ASSUME NEW p \in Prompts PROVE PaidAt(p)'
    BY <1>0
  <2>1. Owing(p)' = Owing(p) /\ Free(p)' = Free(p)
    BY <1>3, OwingSame DEF Free
  <2>2. PaidAt(p)
    BY PaidInvIs
  <2> QED
    BY <1>3, <2>1, <2>2 DEF PaidAt
<1>4. CASE ByOthers
  BY <1>2, <1>4 DEF ByOthers, CacheDelete, SetBudgetCeiling, GetSlidingWindowSpend, ResetInstitutionMetrics, callVars
<1>5. CASE Pass
  BY <1>3, <1>5 DEF Pass, Tick
<1>6. CASE UNCHANGED vars
  BY <1>3, <1>6 DEF vars, callVars, spendVars
<1> QED
  BY <1>1, <1>4, <1>5, <1>6, NextMeans

LEMMA PaidInit == Init => PaidInv
<1> SUFFICES ASSUME Init, NEW p \in Prompts PROVE PaidAt(p)
  BY PaidInvIs
<1>1. \A c \in Calls : [d \in Calls |-> Owes(call[d], p)][c] = 0
  BY MakesNone, OwesNone DEF Init, CallsInit
<1>2. Owing(p) = 0
  <2> DEFINE f == [d \in Calls |-> Owes(call[d], p)]
  <2>1. \A c \in Calls : f[c] = 0
    BY <1>1
  <2> HIDE DEF f
  <2>2. SumOf(f, Calls) = 0
    BY <2>1, Numbers, SumZero
  <2> QED
    BY <2>2 DEF Owing, f
<1>3. paid[p] = 0 /\ raced[p] = 0 /\ faults = 0 /\ changes = 0
  BY DEF Init, CallsInit
<1> QED
  BY <1>2, <1>3, FreeType DEF PaidAt

LEMMA PaidOnce == TypeInv /\ PaidInv => PaidOncePerPrompt
<1> SUFFICES ASSUME TypeInv, PaidInv, NEW p \in Prompts PROVE paid[p] <= 1 + raced[p] + faults + changes
  BY DEF PaidOncePerPrompt
<1> DEFINE x == paid[p]
           y == raced[p]
           o == Owing(p)
           r == Free(p)
<1>1. x \in Nat /\ y \in Nat /\ faults \in Nat /\ changes \in Nat /\ o \in Nat /\ r \in {0, 1}
  BY PaidType, OwingSame, FreeType
<1>2. x + o + r <= 1 + y + faults + changes
  BY PaidInvIs DEF PaidAt
<1> HIDE DEF x, y, o, r
<1>3. x <= 1 + y + faults + changes
  BY <1>1, <1>2
<1> QED
  BY <1>3 DEF x, y

(* Only the check takes a call from its check to the model.                *)
LEMMA OnlyCheck ==
    ASSUME TypeInv, TypeInv', [Next]_vars, NEW c \in Calls, Doing(c, "check"), Doing(c, "call")'
    PROVE  CheckSpend(c)
<1>0. /\ call[c] \in CallRecord /\ Head(call[c].todo) = "check"
      /\ call'[c] \in CallRecord /\ Head(call'[c].todo) = "call"
  BY DoingMeans, DoingLater
<1>1. call'[c] # call[c] /\ call'[c] # Idle
  BY <1>0, NotIdle
<1>2. ~ UNCHANGED call
  BY <1>1
<1>3. ~ Pass /\ ~ ByOthers /\ ~ UNCHANGED vars
  BY <1>2 DEF Pass, Tick, ByOthers, CacheDelete, SetBudgetCeiling, GetSlidingWindowSpend,
              ResetInstitutionMetrics, callVars, vars
<1>4. PICK d \in Calls : CallStep(d)
  BY <1>3, NextMeans
<1>5. d = c
  <2>1. \E q : Update(d, q)
    <3>1. ASSUME NEW todo \in {Plain, Streamed}, Begin(d, todo) PROVE \E q : Update(d, q)
      BY <3>1, BeginMeans
    <3>2. StepFails(d) => \E q : Update(d, q)
      BY StepFailsMeans DEF Over
    <3>3. CacheGet(d) \/ CheckSpend(d) => \E q : Update(d, q)
      BY CacheGetMeans, CheckSpendMeans DEF Over
    <3>4. CacheSet(d) \/ RecordSpend(d) \/ IncrementMetrics(d) => \E q : Update(d, q)
      BY StepMeans DEF CacheSet, RecordSpend, IncrementMetrics
    <3>5. CallNext(d) => c = d \/ call'[c] = call[c]
      BY CallNextHead
    <3>6. CASE CallNext(d)
      <4>1. c = d
        BY <1>1, <3>5, <3>6
      <4>2. FALSE
        BY <1>0, <3>6, <4>1, CallNextHead
      <4> QED
        BY <4>2
    <3> QED
      BY <1>4, <3>1, <3>2, <3>3, <3>4, <3>6 DEF CallStep
  <2> QED
    BY <1>1, <2>1 DEF Update, TypeInv
<1>6. ~ (\E todo \in {Plain, Streamed} : Begin(c, todo))
  BY <1>0, NotIdle, BeginMeans
<1>7. ~ StepFails(c)
  BY <1>1, StepFailsMeans, OverType
<1>8. ~ CacheGet(c)
  BY <1>0, CacheGetMeans
<1>9. ~ CacheSet(c) /\ ~ RecordSpend(c) /\ ~ IncrementMetrics(c)
  BY <1>0, StepMeans DEF CacheSet, RecordSpend, IncrementMetrics
<1>10. ~ CallNext(c)
  BY <1>0, CallNextHead
<1> QED
  BY <1>4, <1>5, <1>6, <1>7, <1>8, <1>9, <1>10 DEF CallStep

Inv == TypeInv /\ StreamInv /\ SpendInv /\ KeepInv /\ TotalsInv /\ PaidInv

(* Types, the lines of streams, what is charged and not recorded, what the *)
(* windows keep, the totals and the answers paid for: each is kept by      *)
(* every step.                                                             *)
THEOREM SpendingInductive == Spec => []Inv
<1>1. Init => Inv
  BY TypeInit, StreamInit, SpendInit, KeepInit, TotalsInit, PaidInit DEF Inv
<1>2. Inv /\ [Next]_vars => Inv'
  BY TypeNext, StreamNextKeeps, SpendNextKeeps, KeepNextKeeps, TotalsNextKeeps, PaidNextKeeps DEF Inv
<1> QED
  BY <1>1, <1>2, PTL DEF Spec

(* The records of calls, the windows, the totals and the books are of the  *)
(* types they are declared with, whatever calls, callers and Redis do.     *)
THEOREM SpendingTypes == Spec => []TypeInv
<1>1. Inv => TypeInv
  BY DEF Inv
<1> QED
  BY <1>1, SpendingInductive, PTL

(* A stream is read whole where [DONE] is seen, or the caller knows the    *)
(* end; one that ends without an error may be cut, when its body ended     *)
(* early, and then the caller knows no end; it fails in silence only when  *)
(* the channel was full (processSSEStream).                                *)
THEOREM StreamsEndComplete == Spec => []QuietEndIsComplete
<1>1. Inv => QuietEndIsComplete
  BY QuietEnd DEF Inv
<1> QED
  BY <1>1, SpendingInductive, PTL

(* A call passes CheckSpend only if what was charged in the window fits    *)
(* under the ceiling, but for what others have under way, what failed and, *)
(* for a window that is longer than its key lives or than one reported     *)
(* on, what it forgot.                                                     *)
THEOREM CeilingsHold == Spec => SpendUpToOverlap
<1> DEFINE Fits == \A c \in Calls :
                     LET i == call[c].inst  x == GetBudgetCeiling(i)  from == From(x.window) IN
                     Doing(c, "check") /\ Doing(c, "call")' /\ x # Unset =>
                         Since(billed[i], from) + Estimate
                             <= x.max + (IF Forgets(i, x.window) THEN Forgotten(i, from) ELSE 0) + MaxCost * (Cardinality(Unrecorded(i)) + faults)
<1>1. Inv /\ Inv' /\ [Next]_vars => Fits
  <2> SUFFICES ASSUME Inv, Inv', [Next]_vars, NEW c \in Calls, Doing(c, "check"), Doing(c, "call")'
               PROVE  LET i == call[c].inst  x == GetBudgetCeiling(i)  from == From(x.window) IN
                      x # Unset =>
                         Since(billed[i], from) + Estimate
                             <= x.max + (IF Forgets(i, x.window) THEN Forgotten(i, from) ELSE 0) + MaxCost * (Cardinality(Unrecorded(i)) + faults)
    OBVIOUS
  <2>1. TypeInv /\ TypeInv' /\ SpendInv /\ KeepInv
    BY DEF Inv
  <2>2. CheckSpend(c)
    BY <2>1, OnlyCheck
  <2> QED
    BY <2>1, <2>2, SpendAllows
<1>2. Inv /\ Inv' /\ [Next]_vars => [Fits]_vars
  BY <1>1
<1>3. SpendUpToOverlap <=> [][Fits]_vars
  BY DEF SpendUpToOverlap
<1> HIDE DEF Fits
<1> QED
  BY <1>2, <1>3, SpendingInductive, PTL DEF Spec

(* The totals by user, by task and overall tell the same cost but for a    *)
(* record under way and those that failed midway, and a prompt's answer is *)
(* asked of a model once, and again only for a race, a failure or a        *)
(* deletion.                                                               *)
THEOREM BooksAreKept == Spec => []BooksBalance
<1>1. Inv => BooksBalance
  BY Agreement, PaidOnce DEF Inv, BooksBalance
<1> QED
  BY <1>1, SpendingInductive, PTL
=============================================================================
