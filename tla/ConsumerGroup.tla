---------------------------- MODULE ConsumerGroup ----------------------------
(***************************************************************************)
(* The consuming half of shared/pkg/events: RedisEventBus.Subscribe and    *)
(* processMessage, run by several consumers of one Redis consumer group.   *)
(*                                                                         *)
(* A message is the position it has in the stream (a stream ID is never    *)
(* reused).  Every Redis command of a consumer is one step, and may        *)
(*   - take effect and be answered,                                        *)
(*   - take effect while its answer is lost ("lost"), or                   *)
(*   - fail without any effect ("failed"),                                 *)
(* where the last two are allowed for the commands in FaultyCalls and are  *)
(* counted in faults.  When the consumer's context has been cancelled its  *)
(* commands fail without any effect: go-redis gives the context's error    *)
(* before it takes a connection.                                           *)
(***************************************************************************)
EXTENDS Naturals, Sequences, FiniteSets

CONSTANTS
    Keys,         \* idempotency keys that identify well-formed events
    Malformed,    \* a message EventFromMap cannot parse
    Consumers,    \* consumer names of the group, one process each
    NoConsumer,
    Named,        \* TRUE: a restarted subscriber passes the same consumer name
    MaxMsgs,      \* bound on the length of the stream
    MaxRetries,   \* b.maxRetries
    ReadCount,    \* b.readCount
    FaultyCalls,  \* Redis commands that may be answered with an error
    MaxFaults,    \* bound on the number of such answers
    MaxStops,     \* bound on cancelled contexts and crashes
    MaxLapses     \* bound on retry counters that expire

Calls == {"read", "incr", "dlq", "ack", "clear"}

ASSUME GroupAssumption ==
    /\ Malformed \notin Keys
    /\ NoConsumer \notin Consumers
    /\ Named \in BOOLEAN
    /\ MaxMsgs \in Nat
    /\ MaxRetries \in Nat \ {0}
    /\ ReadCount \in Nat \ {0}
    /\ FaultyCalls \subseteq Calls
    /\ MaxFaults \in Nat
    /\ MaxStops \in Nat
    /\ MaxLapses \in Nat

VARIABLES
    stream,     \* the Redis stream: a sequence of keys and malformed entries
    lastId,     \* the group's last delivered ID
    owner,      \* the group's pending entries: the consumer a message is pending at
    retryKey,   \* events:retries:<group>:<id>, 0 when the key is absent
    dlq,        \* how many entries of the dead-letter stream are about a message
    cursor,     \* currentID of each subscriber: "0" or ">"
    batch,      \* messages of the last read it has not finished
    pc,         \* where the subscriber is in Subscribe and processMessage
    cancelled,  \* subscribers whose context has been cancelled
    used,       \* consumer names that have subscribed
    ran,        \* history: successful runs of the handler per message
    failed,     \* history: failed runs of the handler per message
    dropped,    \* history: messages whose dead-letter XADD was answered with an error
    faults,     \* history: error answers so far
    stops,      \* history: cancellations and crashes so far
    lapses      \* history: retry counters that expired so far

groupVars == <<lastId, owner, retryKey, dlq, cursor, batch, pc, cancelled, used,
               ran, failed, dropped, faults, stops, lapses>>
vars == <<stream, groupVars>>

Msgs == 1..MaxMsgs
Phases == {"stopped", "poll", "run", "count", "backoff", "dlq", "ack", "clear"}

(* A message is settled when a handler run succeeded or the dead-letter    *)
(* stream has it.                                                          *)
Settled(m) == ran[m] > 0 \/ dlq[m] > 0
Delivered == 1..lastId
Acked == {m \in Delivered : owner[m] = NoConsumer}

(* Mutant: all subscribers use one consumer name.                          *)
PendingAnywhere(c) == {m \in Delivered : owner[m] # NoConsumer}

PendingAt(c) == {m \in Delivered : owner[m] = c}

GroupInit ==
    /\ lastId = 0
    /\ owner = [m \in Msgs |-> NoConsumer]
    /\ retryKey = [m \in Msgs |-> 0]
    /\ dlq = [m \in Msgs |-> 0]
    /\ cursor = [c \in Consumers |-> "0"]
    /\ batch = [c \in Consumers |-> <<>>]
    /\ pc = [c \in Consumers |-> "stopped"]
    /\ cancelled = {}
    /\ used = {}
    /\ ran = [m \in Msgs |-> 0]
    /\ failed = [m \in Msgs |-> 0]
    /\ dropped = {}
    /\ faults = 0
    /\ stops = 0
    /\ lapses = 0

Init == stream = <<>> /\ GroupInit

-----------------------------------------------------------------------------
(* The answer a command of consumer c gets.  Ok and Lost take effect.      *)
Fault(call) ==
    /\ call \in FaultyCalls
    /\ faults < MaxFaults
    /\ faults' = faults + 1

Ok(c, call) == c \notin cancelled /\ UNCHANGED faults
Lost(c, call) == c \notin cancelled /\ Fault(call)
Failed(c, call) ==
    \/ c \in cancelled /\ UNCHANGED faults
    \/ c \notin cancelled /\ Fault(call)

Current(c) == Head(batch[c])    \* the message processMessage is called with

(* processMessage returns: the subscriber goes on with its batch.          *)
NextMessage(c) ==
    /\ batch' = [batch EXCEPT ![c] = Tail(@)]
    /\ pc' = [pc EXCEPT ![c] = IF Len(batch[c]) = 1 THEN "poll" ELSE "run"]

Goto(c, phase) == pc' = [pc EXCEPT ![c] = phase] /\ UNCHANGED batch

(* s lists the first entries of a set of IDs, at most ReadCount of them.   *)
FirstOf(ids, s) ==
    /\ \A i, j \in DOMAIN s : i < j => s[i] < s[j]
    /\ \A m \in ids :
         \/ \E i \in DOMAIN s : s[i] = m
         \/ Len(s) = ReadCount /\ \A i \in DOMAIN s : s[i] < m

-----------------------------------------------------------------------------
(* Mutant: what a former run left pending is not looked at.                *)
FirstCursorNew == ">"

FirstCursor == "0"   \* drain pending messages first

(* A subscriber calls Subscribe: the group exists from then on (BUSYGROUP  *)
(* is not an error) and pending messages are drained first.  Without a     *)
(* name it gets a fresh one.                                               *)
Start(c) ==
    /\ pc[c] = "stopped"
    /\ Named \/ c \notin used
    /\ pc' = [pc EXCEPT ![c] = "poll"]
    /\ cursor' = [cursor EXCEPT ![c] = FirstCursor]
    /\ batch' = [batch EXCEPT ![c] = <<>>]
    /\ cancelled' = cancelled \ {c}
    /\ used' = used \cup {c}
    /\ UNCHANGED <<stream, lastId, owner, retryKey, dlq, ran, failed, faults,
                   stops, lapses, dropped>>

(* XREADGROUP with ID 0: the consumer's own pending entries, from the      *)
(* first.  An empty answer moves the cursor to ">".                        *)
ReadPending(c) ==
    /\ pc[c] = "poll" /\ cursor[c] = "0" /\ c \notin cancelled
    /\ \/ /\ PendingAt(c) = {}
          /\ cursor' = [cursor EXCEPT ![c] = ">"]
          /\ UNCHANGED <<batch, pc>>
       \/ \E n \in 1..ReadCount : \E s \in [1..n -> PendingAt(c)] :
            /\ FirstOf(PendingAt(c), s)
            /\ batch' = [batch EXCEPT ![c] = s]
            /\ pc' = [pc EXCEPT ![c] = "run"]
            /\ UNCHANGED cursor
    /\ UNCHANGED <<stream, lastId, owner, retryKey, dlq, cancelled, used, ran,
                   failed, faults, stops, lapses, dropped>>

BatchEnd == IF Len(stream) < lastId + ReadCount THEN Len(stream) ELSE lastId + ReadCount

(* XREADGROUP with ID >: messages nobody has been given become pending at  *)
(* this consumer.  When the answer is lost they are pending all the same,  *)
(* and the subscriber polls again behind them.                             *)
ReadNew(c) ==
    /\ pc[c] = "poll" /\ cursor[c] = ">"
    /\ lastId < Len(stream)
    /\ lastId' = BatchEnd
    /\ owner' = [m \in Msgs |-> IF m \in lastId + 1..BatchEnd THEN c ELSE owner[m]]
    /\ \/ /\ Ok(c, "read")
          /\ batch' = [batch EXCEPT ![c] = [i \in 1..BatchEnd - lastId |-> lastId + i]]
          /\ pc' = [pc EXCEPT ![c] = "run"]
       \/ /\ Lost(c, "read")
          /\ UNCHANGED <<batch, pc>>
    /\ UNCHANGED <<stream, retryKey, dlq, cursor, cancelled, used, ran, failed,
                   stops, lapses, dropped>>

(* The loop of Subscribe sees the cancelled context.                       *)
Return(c) ==
    /\ pc[c] = "poll" /\ c \in cancelled
    /\ Goto(c, "stopped")
    /\ UNCHANGED <<stream, lastId, owner, retryKey, dlq, cursor, cancelled,
                   used, ran, failed, faults, stops, lapses, dropped>>

(* processMessage: a malformed message goes to the dead-letter stream; of  *)
(* any other the handler runs, and may succeed or fail.                    *)
Reject(c) ==
    /\ pc[c] = "run" /\ stream[Current(c)] = Malformed
    /\ Goto(c, "dlq")
    /\ UNCHANGED <<stream, lastId, owner, retryKey, dlq, cursor, cancelled,
                   used, ran, failed, faults, stops, lapses, dropped>>

HandlerSucceeds(c) ==
    /\ pc[c] = "run" /\ stream[Current(c)] # Malformed
    /\ ran' = [ran EXCEPT ![Current(c)] = @ + 1]
    /\ Goto(c, "ack")
    /\ UNCHANGED <<stream, lastId, owner, retryKey, dlq, cursor, cancelled,
                   used, failed, faults, stops, lapses, dropped>>

HandlerFails(c) ==
    /\ pc[c] = "run" /\ stream[Current(c)] # Malformed
    /\ failed' = [failed EXCEPT ![Current(c)] = @ + 1]
    /\ Goto(c, "count")
    /\ UNCHANGED <<stream, lastId, owner, retryKey, dlq, cursor, cancelled,
                   used, ran, faults, stops, lapses, dropped>>

(* Mutant: gives up one attempt early.                                     *)
ExhaustedEarly(attempts) == attempts + 1 >= MaxRetries

Exhausted(attempts) == attempts >= MaxRetries

(* Mutant: an exhausted message is acknowledged without a dead letter.     *)
AfterAttemptDropped(attempts) == IF Exhausted(attempts) THEN "ack" ELSE "backoff"

AfterAttempt(attempts) == IF Exhausted(attempts) THEN "dlq" ELSE "backoff"

(* INCR of the retry counter; an error answer counts as attempt 0.  The    *)
(* EXPIRE after it, whose error is ignored, only moves the end of the      *)
(* counter's life: see RetryKeyLapses.                                     *)
CountAttempt(c) ==
    /\ pc[c] = "count"
    /\ LET m == Current(c)
       IN \/ /\ Ok(c, "incr")
             /\ retryKey' = [retryKey EXCEPT ![m] = @ + 1]
             /\ Goto(c, AfterAttempt(retryKey[m] + 1))
          \/ /\ Lost(c, "incr")
             /\ retryKey' = [retryKey EXCEPT ![m] = @ + 1]
             /\ Goto(c, "backoff")
          \/ /\ Failed(c, "incr")
             /\ UNCHANGED retryKey
             /\ Goto(c, "backoff")
    /\ UNCHANGED <<stream, lastId, owner, dlq, cursor, cancelled, used, ran,
                   failed, stops, lapses, dropped>>

(* A cancelled context gives the message up for now, otherwise the handler *)
(* is tried again after the pause.                                         *)
Backoff(c) ==
    /\ pc[c] = "backoff"
    /\ IF c \in cancelled THEN NextMessage(c) ELSE Goto(c, "run")
    /\ UNCHANGED <<stream, lastId, owner, retryKey, dlq, cursor, cancelled,
                   used, ran, failed, faults, stops, lapses, dropped>>

(* routeToDLQ; its error is ignored, and XACK follows all the same.        *)
RouteToDLQ(c) ==
    /\ pc[c] = "dlq"
    /\ \/ /\ Ok(c, "dlq") \/ Lost(c, "dlq")
          /\ dlq' = [dlq EXCEPT ![Current(c)] = @ + 1]
          /\ UNCHANGED dropped
       \/ /\ Failed(c, "dlq")
          /\ dropped' = IF c \in cancelled THEN dropped ELSE dropped \cup {Current(c)}
          /\ UNCHANGED dlq
    /\ Goto(c, "ack")
    /\ UNCHANGED <<stream, lastId, owner, retryKey, cursor, cancelled, used,
                   ran, failed, stops, lapses>>

(* XACK; its error is ignored.  A malformed message has no retry key.      *)
Ack(c) ==
    /\ pc[c] = "ack"
    /\ \/ /\ Ok(c, "ack") \/ Lost(c, "ack")
          /\ owner' = [owner EXCEPT ![Current(c)] = NoConsumer]
       \/ /\ Failed(c, "ack")
          /\ UNCHANGED owner
    /\ IF stream[Current(c)] = Malformed THEN NextMessage(c) ELSE Goto(c, "clear")
    /\ UNCHANGED <<stream, lastId, retryKey, dlq, cursor, cancelled, used, ran,
                   failed, stops, lapses, dropped>>

(* DEL of the retry counter; its error is ignored.                         *)
ClearRetries(c) ==
    /\ pc[c] = "clear"
    /\ \/ /\ Ok(c, "clear") \/ Lost(c, "clear")
          /\ retryKey' = [retryKey EXCEPT ![Current(c)] = 0]
       \/ /\ Failed(c, "clear")
          /\ UNCHANGED retryKey
    /\ NextMessage(c)
    /\ UNCHANGED <<stream, lastId, owner, dlq, cursor, cancelled, used, ran,
                   failed, stops, lapses, dropped>>

-----------------------------------------------------------------------------
(* The subscriber's context is cancelled (shutdown), or its process dies.  *)
Cancel(c) ==
    /\ pc[c] # "stopped" /\ c \notin cancelled
    /\ stops < MaxStops
    /\ stops' = stops + 1
    /\ cancelled' = cancelled \cup {c}
    /\ UNCHANGED <<stream, lastId, owner, retryKey, dlq, cursor, batch, pc,
                   used, ran, failed, faults, lapses, dropped>>

Crash(c) ==
    /\ pc[c] # "stopped"
    /\ stops < MaxStops
    /\ stops' = stops + 1
    /\ pc' = [pc EXCEPT ![c] = "stopped"]
    /\ batch' = [batch EXCEPT ![c] = <<>>]
    /\ UNCHANGED <<stream, lastId, owner, retryKey, dlq, cursor, cancelled,
                   used, ran, failed, faults, lapses, dropped>>

(* 24 hours have passed without another attempt that prolongs the retry    *)
(* counter: its message waits for a subscriber to start again, or for a    *)
(* handler that takes as long.  The next attempt is then the first.        *)
RetryKeyLapses(m) ==
    /\ retryKey[m] > 0
    /\ lapses < MaxLapses
    /\ lapses' = lapses + 1
    /\ retryKey' = [retryKey EXCEPT ![m] = 0]
    /\ UNCHANGED <<stream, lastId, owner, dlq, cursor, batch, pc, cancelled,
                   used, ran, failed, dropped, faults, stops>>

(* Somebody appends to the stream: the bus, or any other writer.           *)
AppendEntry(entry) ==
    /\ Len(stream) < MaxMsgs
    /\ stream' = Append(stream, entry)
    /\ UNCHANGED groupVars

(* What a subscriber does by itself.                                       *)
Work(c) ==
    \/ ReadPending(c) \/ ReadNew(c) \/ Return(c)
    \/ Reject(c) \/ HandlerSucceeds(c) \/ HandlerFails(c)
    \/ CountAttempt(c) \/ Backoff(c) \/ RouteToDLQ(c) \/ Ack(c) \/ ClearRetries(c)

GroupNext ==
    \/ \E c \in Consumers : Start(c) \/ Work(c) \/ Cancel(c) \/ Crash(c)
    \/ \E m \in Msgs : RetryKeyLapses(m)

Next == GroupNext \/ \E entry \in Keys \cup {Malformed} : AppendEntry(entry)

Spec == Init /\ [][Next]_vars

(* A subscriber keeps running, and a stopped one is started again (every   *)
(* service is deployed with restart: unless-stopped).                      *)
GroupFairness == \A c \in Consumers : WF_vars(Work(c)) /\ WF_vars(Start(c))

FairSpec == Spec /\ GroupFairness

-----------------------------------------------------------------------------
GroupTypeOK ==
    /\ lastId \in 0..Len(stream)
    /\ owner \in [Msgs -> Consumers \cup {NoConsumer}]
    /\ retryKey \in [Msgs -> Nat]
    /\ dlq \in [Msgs -> Nat]
    /\ cursor \in [Consumers -> {"0", ">"}]
    /\ batch \in [Consumers -> Seq(Msgs)]
    /\ pc \in [Consumers -> Phases]
    /\ cancelled \subseteq Consumers
    /\ used \subseteq Consumers
    /\ ran \in [Msgs -> Nat]
    /\ failed \in [Msgs -> Nat]
    /\ dropped \subseteq Msgs
    /\ faults \in 0..MaxFaults
    /\ stops \in 0..MaxStops
    /\ lapses \in 0..MaxLapses

(* Every variable has its type; the stream never outgrows its bound.       *)
TypeOK ==
    /\ stream \in Seq(Keys \cup {Malformed})
    /\ Len(stream) <= MaxMsgs
    /\ GroupTypeOK

(* What the documentation of Subscribe says of events: one that fails is   *)
(* retried, and in the dead-letter queue if maxRetries is exceeded; so an  *)
(* event that is acknowledged was handled or is there.  processMessage     *)
(* acknowledges when the dead-letter XADD has failed, too.                 *)
EventsAreSettled == \A m \in Acked : stream[m] \in Keys => Settled(m)

(* What it does keep: a message is acknowledged without having been        *)
(* handled or dead-lettered only if its own dead-letter XADD was answered  *)
(* with an error, one error for each such message.  Neither a stop, nor a  *)
(* lost answer, nor an error anywhere else loses one.                      *)
LossesPaidFor ==
    /\ \A m \in Acked : Settled(m) \/ m \in dropped
    /\ Cardinality(dropped) <= faults

(* Two subscribers never work on the same message at the same time, and a  *)
(* message that is being worked on has been acknowledged by nobody else.   *)
ExclusiveDelivery ==
    \A c, d \in Consumers : c # d =>
        \A i \in DOMAIN batch[c] : \A j \in DOMAIN batch[d] : batch[c][i] # batch[d][j]

(* The retry counter outlives the subscriber: a handler fails at most      *)
(* maxRetries times on a message, plus once for each time a subscriber was *)
(* stopped before it had recorded or finished the last attempt, and from   *)
(* the start for each XACK that failed after the counter was spent and for *)
(* each counter that expired while its message waited.                     *)
RetryBudget ==
    \A m \in Msgs : failed[m] <= MaxRetries * (1 + faults + lapses) + stops + faults

(* A message is handled or dead-lettered a second time only after a        *)
(* subscriber stopped or an answer of Redis was an error.                  *)
BoundedRedelivery == \A m \in Msgs : ran[m] + dlq[m] <= 1 + stops + faults

(* Only what maxRetries failures or a parse error justify is dead-lettered.*)
DeadLettersEarned ==
    \A m \in 1..Len(stream) :
        dlq[m] > 0 => stream[m] = Malformed \/ failed[m] >= MaxRetries

(* All three: how often a message is tried, and what each outcome takes.   *)
TriesAccountedFor == RetryBudget /\ BoundedRedelivery /\ DeadLettersEarned

(* The promise of the group, implemented.                                  *)
Promise == INSTANCE AtLeastOnce WITH
    appended <- 1..Len(stream),
    settled <- {m \in Msgs : Settled(m)},
    dropped <- dropped,
    acked <- Acked

(* Every step of the group is a step of the promise or none at all.        *)
ImplementsPromise == Promise!Spec

(* A subscriber that has drained its pending entries never looks at them   *)
(* again: a message is stranded when it is pending at such a subscriber    *)
(* and not in its batch, as after an error answer of XREADGROUP or XACK.   *)
Stranded(m) ==
    \E c \in Consumers : /\ owner[m] = c /\ cursor[c] = ">"
                         /\ \A i \in DOMAIN batch[c] : batch[c][i] # m

(* Every message that is appended is handled or dead-lettered (but for a   *)
(* dead-letter XADD that failed), leaves the pending entries and never     *)
(* comes back.  Nothing but an error answer of Redis strands one, and then *)
(* only until its subscriber starts again.                                 *)
EventuallyAcked ==
    \A m \in Msgs :
        m <= Len(stream) ~> \/ [](m \in Acked /\ (Settled(m) \/ m \in dropped))
                           \/ [](Stranded(m) /\ faults > 0)
=============================================================================
