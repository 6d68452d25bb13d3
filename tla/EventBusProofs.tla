---------------------------- MODULE EventBusProofs ----------------------------
(***************************************************************************)
(* What holds of ConsumerGroup for every number of consumers, messages,    *)
(* retries, faults and stops, and of EventBus for every number of          *)
(* publishers, keys and subscribers: what is proved of the group alone is  *)
(* true of the whole bus, and the publishers keep their own promises.      *)
(***************************************************************************)
EXTENDS EventBus, FiniteSetTheorems, SequenceTheorems, TLAPS

Working == {"run", "count", "backoff", "dlq", "ack", "clear"}

(* A subscriber has a batch exactly while it works on one.                 *)
BatchInv == \A c \in Consumers : batch[c] = <<>> <=> pc[c] \notin Working

(* What a subscriber still has to process is pending at it, and it has it  *)
(* once; only the message it has just acknowledged may be pending nowhere. *)
OwnerInv ==
    \A c \in Consumers : \A i \in 1..Len(batch[c]) :
        /\ batch[c][i] <= lastId
        /\ \/ owner[batch[c][i]] = c
           \/ i = 1 /\ pc[c] = "clear" /\ owner[batch[c][i]] = NoConsumer
        /\ \A j \in 1..Len(batch[c]) : i # j => batch[c][i] # batch[c][j]

ExclusiveInv ==
    \A c, d \in Consumers : c # d =>
        \A i \in 1..Len(batch[c]) : \A j \in 1..Len(batch[d]) : batch[c][i] # batch[d][j]

(* A subscriber whose commands still work comes to XACK with a settled     *)
(* message, or one whose dead letter could not be written.                 *)
AckInv == \A c \in Consumers :
    pc[c] = "ack" /\ c \notin cancelled => Settled(batch[c][1]) \/ batch[c][1] \in dropped

(* Each message whose dead letter could not be written has had an error    *)
(* answer of its own.                                                      *)
DroppedInv == IsFiniteSet(dropped) /\ Cardinality(dropped) <= faults

-----------------------------------------------------------------------------
LEMMA AppendType ==
    ASSUME NEW S, NEW s \in Seq(S), NEW e \in S
    PROVE  Append(s, e) \in Seq(S) /\ Len(Append(s, e)) = Len(s) + 1
  OBVIOUS

LEMMA TailType ==
    ASSUME NEW S, NEW s \in Seq(S), s # <<>>
    PROVE  /\ Tail(s) \in Seq(S)
           /\ Len(Tail(s)) = Len(s) - 1
           /\ \A i \in 1..Len(s) - 1 : Tail(s)[i] = s[i + 1]
           /\ Len(s) \in Nat \ {0}
           /\ Head(s) \in S
           /\ Head(s) = s[1]
  OBVIOUS

LEMMA UpdateType ==
    ASSUME NEW D, NEW R, NEW f \in [D -> R], NEW x, NEW v \in R
    PROVE  [f EXCEPT ![x] = v] \in [D -> R]
  OBVIOUS

LEMMA FunctionIsSeq ==
    ASSUME NEW S, NEW n \in Nat \ {0}, NEW s \in [1..n -> S]
    PROVE  s \in Seq(S) /\ Len(s) = n /\ s # <<>>
  OBVIOUS

(* Moving a subscriber on, within a message or to the next one.            *)
PcBatchInv ==
    /\ batch \in [Consumers -> Seq(Msgs)]
    /\ pc \in [Consumers -> Phases]
    /\ BatchInv

LEMMA CurrentMsg ==
    ASSUME PcBatchInv, NEW c \in Consumers, pc[c] \in Working
    PROVE  /\ batch[c] \in Seq(Msgs) /\ batch[c] # <<>>
           /\ Current(c) \in Msgs /\ Current(c) = batch[c][1]
           /\ Len(batch[c]) \in Nat \ {0}
  <1>1. batch[c] \in Seq(Msgs) /\ batch[c] # <<>>
    BY DEF PcBatchInv, BatchInv
  <1> QED
    BY <1>1, TailType DEF Current

LEMMA GotoStep ==
    ASSUME PcBatchInv, NEW c \in Consumers, NEW phase \in Phases,
           phase \in Working <=> pc[c] \in Working, Goto(c, phase)
    PROVE  PcBatchInv'
  BY DEF PcBatchInv, BatchInv, Goto

LEMMA NextMessageStep ==
    ASSUME PcBatchInv, NEW c \in Consumers, pc[c] \in Working, NextMessage(c)
    PROVE  PcBatchInv'
  <1>1. batch[c] \in Seq(Msgs) /\ batch[c] # <<>>
    BY DEF PcBatchInv, BatchInv
  <1>2. batch'[c] = Tail(batch[c]) /\ batch' \in [Consumers -> Seq(Msgs)]
    BY <1>1, TailType DEF NextMessage, PcBatchInv
  <1>3. batch'[c] = <<>> <=> Len(batch[c]) = 1
    <2>1. /\ Tail(batch[c]) \in Seq(Msgs)
          /\ Len(Tail(batch[c])) = Len(batch[c]) - 1
          /\ Len(batch[c]) \in Nat \ {0}
      BY <1>1, TailType
    <2>2. Tail(batch[c]) = <<>> <=> Len(Tail(batch[c])) = 0
      BY <2>1, EmptySeq
    <2> QED
      BY <1>2, <2>1, <2>2
  <1>4. pc' \in [Consumers -> Phases]
    BY DEF NextMessage, PcBatchInv, Phases
  <1>5. pc'[c] \in Working <=> Len(batch[c]) # 1
    BY DEF NextMessage, PcBatchInv, Working
  <1> QED
    BY <1>2, <1>3, <1>4, <1>5 DEF PcBatchInv, BatchInv, NextMessage

(* The types of the variables are preserved, whatever the constants.       *)
THEOREM TypeCorrect == Spec => [](TypeOK /\ BatchInv)
  <1>1. Init => TypeOK /\ BatchInv
    BY GroupAssumption DEF Init, GroupInit, TypeOK, GroupTypeOK, BatchInv, Phases, Working, Msgs
  <1>2. TypeOK /\ BatchInv /\ [Next]_vars => (TypeOK /\ BatchInv)'
    <2> SUFFICES ASSUME TypeOK, BatchInv, [Next]_vars
                 PROVE  TypeOK' /\ PcBatchInv'
      BY DEF PcBatchInv
    <2> PcBatchInv
      BY DEF TypeOK, GroupTypeOK, PcBatchInv
    <2> DEFINE Rest ==
            /\ stream \in Seq(Keys \cup {Malformed}) /\ Len(stream) <= MaxMsgs
            /\ lastId \in 0..Len(stream)
            /\ owner \in [Msgs -> Consumers \cup {NoConsumer}]
            /\ retryKey \in [Msgs -> Nat]
            /\ dlq \in [Msgs -> Nat]
            /\ cursor \in [Consumers -> {"0", ">"}]
            /\ cancelled \subseteq Consumers
            /\ used \subseteq Consumers
            /\ ran \in [Msgs -> Nat]
            /\ failed \in [Msgs -> Nat]
            /\ dropped \subseteq Msgs
            /\ faults \in 0..MaxFaults
            /\ stops \in 0..MaxStops
            /\ lapses \in 0..MaxLapses
    <2>0. Rest
      BY DEF TypeOK, GroupTypeOK
    <2> SUFFICES Rest' /\ PcBatchInv'
      BY DEF TypeOK, GroupTypeOK, PcBatchInv
    <2> USE <2>0, GroupAssumption
    <2>1. ASSUME NEW c \in Consumers, Start(c) PROVE Rest' /\ PcBatchInv'
      BY <2>1 DEF Start, FirstCursor, PcBatchInv, BatchInv, Working, Phases
    <2>2. ASSUME NEW c \in Consumers, ReadPending(c) PROVE Rest' /\ PcBatchInv'
      <3>1. Rest'
        BY <2>2 DEF ReadPending
      <3>2. CASE UNCHANGED <<batch, pc>>
        BY <3>1, <3>2 DEF PcBatchInv, BatchInv
      <3>3. ASSUME NEW n \in 1..ReadCount, NEW s \in [1..n -> PendingAt(c)],
                   batch' = [batch EXCEPT ![c] = s], pc' = [pc EXCEPT ![c] = "run"]
            PROVE  PcBatchInv'
        <4>1. PendingAt(c) \subseteq Msgs
          BY DEF PendingAt, Delivered, Msgs
        <4>2. s \in Seq(Msgs) /\ s # <<>>
          BY <4>1
        <4> QED
          BY <3>3, <4>2 DEF PcBatchInv, BatchInv, Phases, Working
      <3> QED
        BY <2>2, <3>1, <3>2, <3>3 DEF ReadPending
    <2>3. ASSUME NEW c \in Consumers, ReadNew(c) PROVE Rest' /\ PcBatchInv'
      <3> DEFINE top == BatchEnd
                 news == [i \in 1..top - lastId |-> lastId + i]
      <3>1. top \in lastId + 1..Len(stream) /\ lastId' = top
        BY <2>3 DEF ReadNew, BatchEnd
      <3>2. Rest'
        BY <2>3, <3>1 DEF ReadNew, Ok, Lost, Fault
      <3>3. news \in Seq(Msgs) /\ news # <<>>
        <4>1. \A i \in 1..top - lastId : lastId + i \in Msgs
          BY <3>1 DEF Msgs
        <4>2. top - lastId \in Nat \ {0}
          BY <3>1
        <4> HIDE DEF top
        <4>3. news \in [1..top - lastId -> Msgs]
          BY <4>1
        <4> HIDE DEF news
        <4> QED
          BY <4>2, <4>3, FunctionIsSeq
      <3> HIDE DEF news, top
      <3>4. CASE UNCHANGED <<batch, pc>>
        BY <3>2, <3>4 DEF PcBatchInv, BatchInv
      <3>5. CASE batch' = [batch EXCEPT ![c] = news] /\ pc' = [pc EXCEPT ![c] = "run"]
        BY <3>2, <3>3, <3>5 DEF PcBatchInv, BatchInv, Phases, Working
      <3> QED
        BY <2>3, <3>2, <3>4, <3>5 DEF ReadNew, top, news
    <2>4. ASSUME NEW c \in Consumers, Return(c) PROVE Rest' /\ PcBatchInv'
      BY <2>4, GotoStep DEF Return, Phases, Working
    <2>5. ASSUME NEW c \in Consumers, Reject(c) PROVE Rest' /\ PcBatchInv'
      BY <2>5, GotoStep DEF Reject, Phases, Working
    <2>6. ASSUME NEW c \in Consumers, HandlerSucceeds(c) PROVE Rest' /\ PcBatchInv'
      <3>0. Current(c) \in Msgs
        BY <2>6, CurrentMsg DEF HandlerSucceeds, Working
      <3>1. Rest'
        BY <2>6, <3>0 DEF HandlerSucceeds
      <3> QED
        BY <2>6, <3>1, GotoStep DEF HandlerSucceeds, Phases, Working
    <2>7. ASSUME NEW c \in Consumers, HandlerFails(c) PROVE Rest' /\ PcBatchInv'
      <3>0. Current(c) \in Msgs
        BY <2>7, CurrentMsg DEF HandlerFails, Working
      <3>1. Rest'
        BY <2>7, <3>0 DEF HandlerFails
      <3> QED
        BY <2>7, <3>1, GotoStep DEF HandlerFails, Phases, Working
    <2>8. ASSUME NEW c \in Consumers, CountAttempt(c) PROVE Rest' /\ PcBatchInv'
      <3>0. Current(c) \in Msgs
        BY <2>8, CurrentMsg DEF CountAttempt, Working
      <3>1. faults' \in 0..MaxFaults
        BY <2>8 DEF CountAttempt, Ok, Lost, Failed, Fault
      <3>2. retryKey' \in [Msgs -> Nat]
        BY <2>8, <3>0 DEF CountAttempt
      <3>3. Rest'
        BY <2>8, <3>1, <3>2 DEF CountAttempt
      <3> QED
        BY <2>8, <3>3, GotoStep DEF CountAttempt, AfterAttempt, Phases, Working
    <2>9. ASSUME NEW c \in Consumers, Backoff(c) PROVE Rest' /\ PcBatchInv'
      BY <2>9, GotoStep, NextMessageStep DEF Backoff, Phases, Working
    <2>10. ASSUME NEW c \in Consumers, RouteToDLQ(c) PROVE Rest' /\ PcBatchInv'
      <3>0. Current(c) \in Msgs
        BY <2>10, CurrentMsg DEF RouteToDLQ, Working
      <3>1. faults' \in 0..MaxFaults
        BY <2>10 DEF RouteToDLQ, Ok, Lost, Failed, Fault
      <3>2. dlq' = dlq \/ dlq' = [dlq EXCEPT ![Current(c)] = dlq[Current(c)] + 1]
        BY <2>10 DEF RouteToDLQ
      <3>3. dlq' \in [Msgs -> Nat]
        <4>1. dlq \in [Msgs -> Nat] /\ dlq[Current(c)] + 1 \in Nat
          BY <3>0
        <4> QED
          BY <3>0, <3>2, <4>1, Zenon
      <3>4. dropped' \subseteq Msgs
        BY <2>10, <3>0 DEF RouteToDLQ
      <3>5. Rest'
        BY <2>10, <3>1, <3>3, <3>4 DEF RouteToDLQ
      <3> QED
        BY <2>10, <3>5, GotoStep DEF RouteToDLQ, Phases, Working
    <2>11. ASSUME NEW c \in Consumers, Ack(c) PROVE Rest' /\ PcBatchInv'
      <3>0. Current(c) \in Msgs
        BY <2>11, CurrentMsg DEF Ack, Working
      <3>1. faults' \in 0..MaxFaults
        BY <2>11 DEF Ack, Ok, Lost, Failed, Fault
      <3>2. owner' \in [Msgs -> Consumers \cup {NoConsumer}]
        BY <2>11, <3>0 DEF Ack
      <3>3. Rest'
        BY <2>11, <3>1, <3>2 DEF Ack
      <3> QED
        BY <2>11, <3>3, GotoStep, NextMessageStep DEF Ack, Phases, Working
    <2>12. ASSUME NEW c \in Consumers, ClearRetries(c) PROVE Rest' /\ PcBatchInv'
      <3>0. Current(c) \in Msgs
        BY <2>12, CurrentMsg DEF ClearRetries, Working
      <3>1. faults' \in 0..MaxFaults
        BY <2>12 DEF ClearRetries, Ok, Lost, Failed, Fault
      <3>2. retryKey' \in [Msgs -> Nat]
        <4>1. \/ retryKey' = [retryKey EXCEPT ![Current(c)] = 0]
              \/ retryKey' = retryKey
          BY <2>12 DEF ClearRetries
        <4> QED
          BY <4>1, UpdateType
      <3>3. Rest'
        BY <2>12, <3>1, <3>2 DEF ClearRetries
      <3> QED
        BY <2>12, <3>3, NextMessageStep DEF ClearRetries, Working
    <2>13. ASSUME NEW c \in Consumers, Cancel(c) PROVE Rest' /\ PcBatchInv'
      BY <2>13 DEF Cancel, PcBatchInv, BatchInv
    <2>14. ASSUME NEW c \in Consumers, Crash(c) PROVE Rest' /\ PcBatchInv'
      BY <2>14 DEF Crash, PcBatchInv, BatchInv, Working, Phases
    <2>15. ASSUME NEW e \in Keys \cup {Malformed}, AppendEntry(e) PROVE Rest' /\ PcBatchInv'
      BY <2>15, AppendType DEF AppendEntry, groupVars, PcBatchInv, BatchInv
    <2>16. CASE UNCHANGED vars
      BY <2>16 DEF vars, groupVars, PcBatchInv, BatchInv
    <2>17. ASSUME NEW m \in Msgs, RetryKeyLapses(m) PROVE Rest' /\ PcBatchInv'
      <3>1. retryKey' \in [Msgs -> Nat]
        BY <2>17, UpdateType DEF RetryKeyLapses
      <3>2. lapses' \in 0..MaxLapses
        BY <2>17 DEF RetryKeyLapses
      <3> QED
        BY <2>17, <3>1, <3>2 DEF RetryKeyLapses, PcBatchInv, BatchInv
    <2> QED
      BY <2>1, <2>2, <2>3, <2>4, <2>5, <2>6, <2>7, <2>8, <2>9, <2>10, <2>11, <2>12,
         <2>13, <2>14, <2>15, <2>16, <2>17 DEF Next, GroupNext, Work
  <1> QED
    BY <1>1, <1>2, PTL DEF Spec

-----------------------------------------------------------------------------
(* What the two ways of moving a subscriber on do to the messages it has.  *)
OwnedInv == PcBatchInv /\ OwnerInv /\ ExclusiveInv

LEMMA GotoKeepsOwners ==
    ASSUME OwnedInv, NEW c \in Consumers, NEW phase \in Phases,
           pc[c] # "clear", Goto(c, phase), UNCHANGED <<lastId, owner>>
    PROVE  OwnerInv' /\ ExclusiveInv'
  BY DEF OwnedInv, PcBatchInv, OwnerInv, ExclusiveInv, Goto

LEMMA NextMessageBatch ==
    ASSUME PcBatchInv, NEW c \in Consumers, pc[c] \in Working, NextMessage(c)
    PROVE  /\ Len(batch'[c]) = Len(batch[c]) - 1
           /\ Len(batch[c]) \in Nat \ {0}
           /\ \A i \in 1..Len(batch'[c]) : batch'[c][i] = batch[c][i + 1]
           /\ \A d \in Consumers \ {c} : batch'[d] = batch[d] /\ pc'[d] = pc[d]
  <1>1. batch[c] \in Seq(Msgs) /\ batch[c] # <<>>
    BY CurrentMsg
  <1>2. batch'[c] = Tail(batch[c])
    BY DEF NextMessage, PcBatchInv
  <1>3. \A d \in Consumers \ {c} : batch'[d] = batch[d] /\ pc'[d] = pc[d]
    BY DEF NextMessage, PcBatchInv
  <1> QED
    BY <1>1, <1>2, <1>3, TailType

LEMMA NextMessageKeepsOwners ==
    ASSUME OwnedInv, NEW c \in Consumers, pc[c] \in Working,
           NextMessage(c), UNCHANGED <<lastId, owner>>
    PROVE  OwnerInv' /\ ExclusiveInv'
  <1> USE NextMessageBatch DEF OwnedInv
  <1>1. \A i \in 1..Len(batch'[c]) : i + 1 \in 1..Len(batch[c]) /\ i + 1 # 1
    OBVIOUS
  <1>2. OwnerInv'
    <2> SUFFICES ASSUME NEW d \in Consumers, NEW i \in 1..Len(batch'[d])
                 PROVE  /\ batch'[d][i] <= lastId'
                        /\ \/ owner'[batch'[d][i]] = d
                           \/ i = 1 /\ pc'[d] = "clear" /\ owner'[batch'[d][i]] = NoConsumer
                        /\ \A j \in 1..Len(batch'[d]) : i # j => batch'[d][i] # batch'[d][j]
      BY DEF OwnerInv
    <2>1. CASE d = c
      BY <1>1, <2>1 DEF OwnerInv
    <2>2. CASE d # c
      BY <2>2 DEF OwnerInv
    <2> QED
      BY <2>1, <2>2
  <1>3. ExclusiveInv'
    <2> SUFFICES ASSUME NEW d \in Consumers, NEW e \in Consumers, d # e,
                        NEW i \in 1..Len(batch'[d]), NEW j \in 1..Len(batch'[e])
                 PROVE  batch'[d][i] # batch'[e][j]
      BY DEF ExclusiveInv
    <2>1. CASE d = c
      BY <1>1, <2>1 DEF ExclusiveInv
    <2>2. CASE e = c
      BY <1>1, <2>2 DEF ExclusiveInv
    <2>3. CASE d # c /\ e # c
      BY <2>3 DEF ExclusiveInv
    <2> QED
      BY <2>1, <2>2, <2>3
  <1> QED
    BY <1>2, <1>3

(* An acknowledged message is no longer pending; the other messages of all *)
(* subscribers are where they were.                                        *)
LEMMA AckedOwners ==
    ASSUME TypeOK, OwnedInv, NEW c \in Consumers, pc[c] = "ack",
           owner' = [owner EXCEPT ![Current(c)] = NoConsumer]
    PROVE  /\ \A d \in Consumers \ {c} : \A j \in 1..Len(batch[d]) :
                 owner'[batch[d][j]] = owner[batch[d][j]]
           /\ \A j \in 1..Len(batch[c]) : j # 1 => owner'[batch[c][j]] = owner[batch[c][j]]
           /\ owner'[batch[c][1]] = NoConsumer
           /\ 1 \in 1..Len(batch[c])
  <1>1. Current(c) \in Msgs /\ Current(c) = batch[c][1] /\ 1 \in 1..Len(batch[c])
    BY CurrentMsg DEF OwnedInv, Working
  <1>2. owner \in [Msgs -> Consumers \cup {NoConsumer}]
    BY DEF TypeOK, GroupTypeOK
  <1>3. \A d \in Consumers : \A j \in 1..Len(batch[d]) : batch[d][j] \in Msgs
    BY DEF OwnedInv, PcBatchInv
  <1>4. \A d \in Consumers \ {c} : \A j \in 1..Len(batch[d]) : batch[d][j] # Current(c)
    BY <1>1 DEF OwnedInv, ExclusiveInv
  <1>5. \A j \in 1..Len(batch[c]) : j # 1 => batch[c][j] # Current(c)
    BY <1>1 DEF OwnedInv, OwnerInv
  <1> QED
    BY <1>1, <1>2, <1>3, <1>4, <1>5

(* A message is worked on by one subscriber at most.                       *)
LEMMA OwnersKept ==
    ASSUME TypeOK, TypeOK', OwnedInv, [Next]_vars
    PROVE  OwnerInv' /\ ExclusiveInv'
  <1> USE GroupAssumption
  <1>1. ASSUME NEW c \in Consumers, Start(c) PROVE OwnerInv' /\ ExclusiveInv'
    BY <1>1 DEF Start, OwnedInv, PcBatchInv, OwnerInv, ExclusiveInv
  <1>2. ASSUME NEW c \in Consumers, ReadPending(c) PROVE OwnerInv' /\ ExclusiveInv'
    <2>1. CASE UNCHANGED <<batch, pc>>
      BY <1>2, <2>1 DEF ReadPending, OwnedInv, OwnerInv, ExclusiveInv
    <2>2. ASSUME NEW n \in 1..ReadCount, NEW s \in [1..n -> PendingAt(c)],
                 FirstOf(PendingAt(c), s),
                 batch' = [batch EXCEPT ![c] = s], pc' = [pc EXCEPT ![c] = "run"]
          PROVE  OwnerInv' /\ ExclusiveInv'
      <3>1. UNCHANGED <<lastId, owner>>
        BY <1>2 DEF ReadPending
      <3>2. Len(s) = n /\ batch'[c] = s
        BY <2>2 DEF OwnedInv, PcBatchInv
      <3>3. \A d \in Consumers \ {c} : batch'[d] = batch[d] /\ pc'[d] = pc[d]
        BY <2>2 DEF OwnedInv, PcBatchInv
      <3>4. \A i \in 1..n : s[i] \in Nat /\ s[i] <= lastId /\ owner[s[i]] = c
        BY DEF PendingAt, Delivered, TypeOK, GroupTypeOK
      <3>5. \A i, j \in 1..n : i < j => s[i] < s[j]
        BY <2>2 DEF FirstOf
      <3>6. \A i, j \in 1..n : i # j => s[i] # s[j]
        <4> SUFFICES ASSUME NEW i \in 1..n, NEW j \in 1..n, i # j PROVE s[i] # s[j]
          OBVIOUS
        <4>1. i < j \/ j < i
          OBVIOUS
        <4> QED
          BY <4>1, <3>4, <3>5
      <3>7. OwnerInv'
        BY <3>1, <3>2, <3>3, <3>4, <3>6 DEF OwnedInv, OwnerInv
      <3>8. \A d \in Consumers \ {c} : \A j \in 1..Len(batch[d]) : owner[batch[d][j]] # c
        BY DEF OwnedInv, OwnerInv
      <3>9. ExclusiveInv'
        <4> SUFFICES ASSUME NEW d \in Consumers, NEW e \in Consumers, d # e,
                            NEW i \in 1..Len(batch'[d]), NEW j \in 1..Len(batch'[e])
                     PROVE  batch'[d][i] # batch'[e][j]
          BY DEF ExclusiveInv
        <4>1. CASE d = c
          BY <4>1, <3>2, <3>3, <3>4, <3>8
        <4>2. CASE e = c
          BY <4>2, <3>2, <3>3, <3>4, <3>8
        <4>3. CASE d # c /\ e # c
          BY <4>3, <3>3 DEF OwnedInv, ExclusiveInv
        <4> QED
          BY <4>1, <4>2, <4>3
      <3> QED
        BY <3>7, <3>9
    <2> QED
      BY <1>2, <2>1, <2>2 DEF ReadPending
  <1>3. ASSUME NEW c \in Consumers, ReadNew(c) PROVE OwnerInv' /\ ExclusiveInv'
    <2> DEFINE top == BatchEnd
               news == [i \in 1..top - lastId |-> lastId + i]
    <2>1. /\ lastId \in Nat /\ top \in Nat /\ lastId < top /\ lastId' = top /\ top <= MaxMsgs
          /\ owner' = [m \in Msgs |-> IF m \in lastId + 1..top THEN c ELSE owner[m]]
      BY <1>3 DEF ReadNew, BatchEnd, TypeOK, GroupTypeOK
    <2>2. batch[c] = <<>> /\ pc[c] = "poll"
      BY <1>3 DEF ReadNew, OwnedInv, PcBatchInv, BatchInv, Working
    <2> HIDE DEF top
    <2>3. \A d \in Consumers : \A j \in 1..Len(batch[d]) :
            /\ batch[d][j] \in Msgs /\ batch[d][j] <= lastId
            /\ batch[d][j] \in Nat /\ batch[d][j] <= lastId'
            /\ owner'[batch[d][j]] = owner[batch[d][j]]
      <3> SUFFICES ASSUME NEW d \in Consumers, NEW j \in 1..Len(batch[d])
                   PROVE  /\ batch[d][j] \in Msgs /\ batch[d][j] <= lastId
                          /\ batch[d][j] \in Nat /\ batch[d][j] <= lastId'
                          /\ owner'[batch[d][j]] = owner[batch[d][j]]
        OBVIOUS
      <3>1. batch[d][j] \in Msgs
        BY DEF OwnedInv, PcBatchInv
      <3>2. batch[d][j] <= lastId /\ batch[d][j] \in Nat
        BY <3>1 DEF OwnedInv, OwnerInv, Msgs
      <3> QED
        BY <2>1, <3>1, <3>2
    <2>4. CASE UNCHANGED <<batch, pc>>
      BY <2>3, <2>4 DEF OwnedInv, OwnerInv, ExclusiveInv
    <2>5. CASE batch' = [batch EXCEPT ![c] = news] /\ pc' = [pc EXCEPT ![c] = "run"]
      <3>1. /\ batch'[c] = news
            /\ \A d \in Consumers \ {c} : batch'[d] = batch[d] /\ pc'[d] = pc[d]
        BY <2>5 DEF OwnedInv, PcBatchInv
      <3>2. Len(news) = top - lastId
        BY <2>1
      <3>3. \A i \in 1..Len(news) :
              /\ news[i] = lastId + i /\ news[i] <= lastId'
              /\ owner'[news[i]] = c
        BY <2>1, <3>2 DEF Msgs
      <3> HIDE DEF news
      <3>4. OwnerInv'
        <4> SUFFICES ASSUME NEW d \in Consumers, NEW i \in 1..Len(batch'[d])
                     PROVE  /\ batch'[d][i] <= lastId'
                            /\ \/ owner'[batch'[d][i]] = d
                               \/ i = 1 /\ pc'[d] = "clear" /\ owner'[batch'[d][i]] = NoConsumer
                            /\ \A j \in 1..Len(batch'[d]) : i # j => batch'[d][i] # batch'[d][j]
          BY DEF OwnerInv
        <4>1. CASE d = c
          BY <4>1, <2>1, <3>1, <3>2, <3>3
        <4>2. CASE d # c
          BY <4>2, <2>3, <3>1 DEF OwnedInv, OwnerInv
        <4> QED
          BY <4>1, <4>2
      <3>5. ExclusiveInv'
        <4> SUFFICES ASSUME NEW d \in Consumers, NEW e \in Consumers, d # e,
                            NEW i \in 1..Len(batch'[d]), NEW j \in 1..Len(batch'[e])
                     PROVE  batch'[d][i] # batch'[e][j]
          BY DEF ExclusiveInv
        <4>1. CASE d = c
          BY <4>1, <2>1, <2>3, <3>1, <3>2, <3>3
        <4>2. CASE e = c
          BY <4>2, <2>1, <2>3, <3>1, <3>2, <3>3
        <4>3. CASE d # c /\ e # c
          BY <4>3, <3>1 DEF OwnedInv, ExclusiveInv
        <4> QED
          BY <4>1, <4>2, <4>3
      <3> QED
        BY <3>4, <3>5
    <2> QED
      BY <1>3, <2>4, <2>5 DEF ReadNew, top, news
  <1>4. ASSUME NEW c \in Consumers, Return(c) PROVE OwnerInv' /\ ExclusiveInv'
    BY <1>4, GotoKeepsOwners DEF Return, Phases
  <1>5. ASSUME NEW c \in Consumers, Reject(c) PROVE OwnerInv' /\ ExclusiveInv'
    BY <1>5, GotoKeepsOwners DEF Reject, Phases
  <1>6. ASSUME NEW c \in Consumers, HandlerSucceeds(c) PROVE OwnerInv' /\ ExclusiveInv'
    BY <1>6, GotoKeepsOwners DEF HandlerSucceeds, Phases
  <1>7. ASSUME NEW c \in Consumers, HandlerFails(c) PROVE OwnerInv' /\ ExclusiveInv'
    BY <1>7, GotoKeepsOwners DEF HandlerFails, Phases
  <1>8. ASSUME NEW c \in Consumers, CountAttempt(c) PROVE OwnerInv' /\ ExclusiveInv'
    BY <1>8, GotoKeepsOwners DEF CountAttempt, AfterAttempt, Phases
  <1>9. ASSUME NEW c \in Consumers, Backoff(c) PROVE OwnerInv' /\ ExclusiveInv'
    BY <1>9, GotoKeepsOwners, NextMessageKeepsOwners DEF Backoff, Phases, Working
  <1>10. ASSUME NEW c \in Consumers, RouteToDLQ(c) PROVE OwnerInv' /\ ExclusiveInv'
    BY <1>10, GotoKeepsOwners DEF RouteToDLQ, Phases
  <1>11. ASSUME NEW c \in Consumers, Ack(c) PROVE OwnerInv' /\ ExclusiveInv'
    <2>1. pc[c] = "ack" /\ UNCHANGED lastId
      BY <1>11 DEF Ack
    <2>2. CASE UNCHANGED owner
      BY <1>11, <2>2, GotoKeepsOwners, NextMessageKeepsOwners DEF Ack, Phases, Working
    <2>3. CASE owner' = [owner EXCEPT ![Current(c)] = NoConsumer]
      <3>0. /\ \A d \in Consumers \ {c} : \A j \in 1..Len(batch[d]) :
                 owner'[batch[d][j]] = owner[batch[d][j]]
            /\ \A j \in 1..Len(batch[c]) : j # 1 => owner'[batch[c][j]] = owner[batch[c][j]]
            /\ owner'[batch[c][1]] = NoConsumer
            /\ 1 \in 1..Len(batch[c])
        BY AckedOwners, <2>1, <2>3
      <3>1. CASE Goto(c, "clear")
        <4>1. /\ UNCHANGED batch
              /\ \A d \in Consumers : pc'[d] = IF d = c THEN "clear" ELSE pc[d]
          BY <3>1 DEF Goto, OwnedInv, PcBatchInv
        <4>2. OwnerInv'
          <5> SUFFICES ASSUME NEW d \in Consumers, NEW i \in 1..Len(batch[d])
                       PROVE  /\ batch[d][i] <= lastId
                              /\ \/ owner'[batch[d][i]] = d
                                 \/ i = 1 /\ pc'[d] = "clear" /\ owner'[batch[d][i]] = NoConsumer
                              /\ \A j \in 1..Len(batch[d]) : i # j => batch[d][i] # batch[d][j]
            BY <2>1, <4>1 DEF OwnerInv
          <5>1. CASE d = c
            BY <2>1, <3>0, <4>1, <5>1 DEF OwnedInv, OwnerInv
          <5>2. CASE d # c
            <6>1. /\ batch[d][i] <= lastId
                  /\ \/ owner[batch[d][i]] = d
                     \/ i = 1 /\ pc[d] = "clear" /\ owner[batch[d][i]] = NoConsumer
                  /\ \A j \in 1..Len(batch[d]) : i # j => batch[d][i] # batch[d][j]
              BY DEF OwnedInv, OwnerInv
            <6>2. owner'[batch[d][i]] = owner[batch[d][i]]
              BY <3>0, <5>2
            <6> QED
              BY <4>1, <5>2, <6>1, <6>2
          <5> QED
            BY <5>1, <5>2
        <4> QED
          BY <4>1, <4>2 DEF OwnedInv, ExclusiveInv
      <3>2. CASE NextMessage(c)
        <4>1. /\ Len(batch'[c]) = Len(batch[c]) - 1
              /\ Len(batch[c]) \in Nat \ {0}
              /\ \A i \in 1..Len(batch'[c]) : batch'[c][i] = batch[c][i + 1]
              /\ \A d \in Consumers \ {c} : batch'[d] = batch[d] /\ pc'[d] = pc[d]
          BY <2>1, <3>2, NextMessageBatch DEF OwnedInv, Working
        <4>2. \A i \in 1..Len(batch'[c]) : i + 1 \in 1..Len(batch[c]) /\ i + 1 # 1
          BY <4>1
        <4>3. OwnerInv'
          <5> SUFFICES ASSUME NEW d \in Consumers, NEW i \in 1..Len(batch'[d])
                       PROVE  /\ batch'[d][i] <= lastId
                              /\ \/ owner'[batch'[d][i]] = d
                                 \/ i = 1 /\ pc'[d] = "clear" /\ owner'[batch'[d][i]] = NoConsumer
                              /\ \A j \in 1..Len(batch'[d]) : i # j => batch'[d][i] # batch'[d][j]
            BY <2>1 DEF OwnerInv
          <5>1. CASE d = c
            <6>0. i + 1 \in 1..Len(batch[c]) /\ i + 1 # 1 /\ batch'[c][i] = batch[c][i + 1]
              BY <4>1, <4>2, <5>1
            <6>1. /\ batch[c][i + 1] <= lastId
                  /\ owner[batch[c][i + 1]] = c
                  /\ \A j \in 1..Len(batch[c]) : i + 1 # j => batch[c][i + 1] # batch[c][j]
              BY <6>0, <2>1 DEF OwnedInv, OwnerInv
            <6>2. owner'[batch[c][i + 1]] = c
              BY <3>0, <6>0, <6>1
            <6>3. \A j \in 1..Len(batch'[c]) : i # j => batch'[c][i] # batch'[c][j]
              <7> SUFFICES ASSUME NEW j \in 1..Len(batch'[c]), i # j
                           PROVE  batch'[c][i] # batch'[c][j]
                OBVIOUS
              <7>1. j + 1 \in 1..Len(batch[c]) /\ i + 1 # j + 1 /\ batch'[c][j] = batch[c][j + 1]
                BY <4>1, <4>2, <5>1
              <7> QED
                BY <6>0, <6>1, <7>1
            <6> QED
              BY <5>1, <6>0, <6>1, <6>2, <6>3
          <5>2. CASE d # c
            <6>0. batch'[d] = batch[d] /\ pc'[d] = pc[d] /\ i \in 1..Len(batch[d])
              BY <4>1, <5>2
            <6>1. /\ batch[d][i] <= lastId
                  /\ \/ owner[batch[d][i]] = d
                     \/ i = 1 /\ pc[d] = "clear" /\ owner[batch[d][i]] = NoConsumer
                  /\ \A j \in 1..Len(batch[d]) : i # j => batch[d][i] # batch[d][j]
              BY <6>0 DEF OwnedInv, OwnerInv
            <6>2. owner'[batch[d][i]] = owner[batch[d][i]]
              BY <3>0, <5>2, <6>0
            <6> QED
              BY <6>0, <6>1, <6>2
          <5> QED
            BY <5>1, <5>2
        <4>4. ExclusiveInv'
          <5> SUFFICES ASSUME NEW d \in Consumers, NEW e \in Consumers, d # e,
                              NEW i \in 1..Len(batch'[d]), NEW j \in 1..Len(batch'[e])
                       PROVE  batch'[d][i] # batch'[e][j]
            BY DEF ExclusiveInv
          <5>0. \A p \in 1..Len(batch[d]), q \in 1..Len(batch[e]) : batch[d][p] # batch[e][q]
            BY DEF OwnedInv, ExclusiveInv
          <5>1. CASE d = c
            <6>1. e # c /\ batch'[e] = batch[e] /\ j \in 1..Len(batch[e])
              BY <4>1, <5>1
            <6>2. i + 1 \in 1..Len(batch[d]) /\ batch'[d][i] = batch[d][i + 1]
              BY <4>1, <4>2, <5>1
            <6> QED
              BY <5>0, <6>1, <6>2
          <5>2. CASE e = c
            <6>1. d # c /\ batch'[d] = batch[d] /\ i \in 1..Len(batch[d])
              BY <4>1, <5>2
            <6>2. j + 1 \in 1..Len(batch[e]) /\ batch'[e][j] = batch[e][j + 1]
              BY <4>1, <4>2, <5>2
            <6> QED
              BY <5>0, <6>1, <6>2
          <5>3. CASE d # c /\ e # c
            BY <4>1, <5>3 DEF OwnedInv, ExclusiveInv
          <5> QED
            BY <5>1, <5>2, <5>3
        <4> QED
          BY <4>3, <4>4
      <3> QED
        BY <1>11, <3>1, <3>2 DEF Ack
    <2> QED
      BY <1>11, <2>2, <2>3 DEF Ack
  <1>12. ASSUME NEW c \in Consumers, ClearRetries(c) PROVE OwnerInv' /\ ExclusiveInv'
    BY <1>12, NextMessageKeepsOwners DEF ClearRetries, Working
  <1>13. ASSUME NEW c \in Consumers, Cancel(c) PROVE OwnerInv' /\ ExclusiveInv'
    BY <1>13 DEF Cancel, OwnedInv, OwnerInv, ExclusiveInv
  <1>14. ASSUME NEW c \in Consumers, Crash(c) PROVE OwnerInv' /\ ExclusiveInv'
    BY <1>14 DEF Crash, OwnedInv, PcBatchInv, OwnerInv, ExclusiveInv
  <1>15. ASSUME NEW e, AppendEntry(e) PROVE OwnerInv' /\ ExclusiveInv'
    BY <1>15 DEF AppendEntry, groupVars, OwnedInv, OwnerInv, ExclusiveInv
  <1>16. ASSUME NEW m \in Msgs, RetryKeyLapses(m) PROVE OwnerInv' /\ ExclusiveInv'
    BY <1>16 DEF RetryKeyLapses, OwnedInv, OwnerInv, ExclusiveInv
  <1>17. CASE UNCHANGED vars
    BY <1>17 DEF vars, groupVars, OwnedInv, OwnerInv, ExclusiveInv
  <1> QED
    BY <1>1, <1>2, <1>3, <1>4, <1>5, <1>6, <1>7, <1>8, <1>9, <1>10, <1>11, <1>12,
       <1>13, <1>14, <1>15, <1>16, <1>17 DEF Next, GroupNext, Work

(* No two subscribers of the group ever work on the same message.          *)
THEOREM WorkIsExclusive == Spec => []ExclusiveDelivery
  <1>1. Init => OwnerInv /\ ExclusiveInv
    BY DEF Init, GroupInit, OwnerInv, ExclusiveInv
  <1>2. TypeOK /\ BatchInv /\ TypeOK' /\ OwnerInv /\ ExclusiveInv /\ [Next]_vars
            => (OwnerInv /\ ExclusiveInv)'
    BY OwnersKept DEF OwnedInv, PcBatchInv, TypeOK, GroupTypeOK
  <1>3. TypeOK /\ ExclusiveInv => ExclusiveDelivery
    <2> SUFFICES ASSUME TypeOK, ExclusiveInv, NEW c \in Consumers, NEW d \in Consumers, c # d,
                        NEW i \in DOMAIN batch[c], NEW j \in DOMAIN batch[d]
                 PROVE  batch[c][i] # batch[d][j]
      BY DEF ExclusiveDelivery
    <2>1. batch[c] \in Seq(Msgs) /\ batch[d] \in Seq(Msgs)
      BY DEF TypeOK, GroupTypeOK
    <2>2. DOMAIN batch[c] = 1..Len(batch[c]) /\ DOMAIN batch[d] = 1..Len(batch[d])
      BY <2>1
    <2> QED
      BY <2>2 DEF ExclusiveInv
  <1> QED
    BY <1>1, <1>2, <1>3, TypeCorrect, PTL DEF Spec

-----------------------------------------------------------------------------
(* Where the number of settlements of a message may grow.                  *)
LEMMA SettledStays ==
    ASSUME TypeOK, BatchInv, [Next]_vars
    PROVE  /\ \A m \in Msgs : Settled(m) => Settled(m)'
           /\ \A m \in Msgs : Settled(m)' /\ ~ Settled(m) =>
                \E c \in Consumers : /\ HandlerSucceeds(c) \/ RouteToDLQ(c)
                                    /\ m = Current(c)
  <1> USE DEF Settled
  <1>1. ran \in [Msgs -> Nat] /\ dlq \in [Msgs -> Nat]
    BY DEF TypeOK, GroupTypeOK
  <1>2. CASE UNCHANGED <<ran, dlq>>
    BY <1>2
  <1>3. ASSUME NEW c \in Consumers, HandlerSucceeds(c)
        PROVE  /\ \A m \in Msgs : Settled(m) => Settled(m)'
               /\ \A m \in Msgs : Settled(m)' /\ ~ Settled(m) => m = Current(c)
    <2>1. ran' = [ran EXCEPT ![Current(c)] = @ + 1] /\ dlq' = dlq
      BY <1>3 DEF HandlerSucceeds
    <2>2. \A m \in Msgs : m # Current(c) => ran'[m] = ran[m]
      BY <1>1, <2>1
    <2>3. \A m \in Msgs : ran'[m] >= ran[m]
      BY <1>1, <2>1
    <2> QED
      BY <1>1, <2>1, <2>2, <2>3
  <1>4. ASSUME NEW c \in Consumers, RouteToDLQ(c)
        PROVE  /\ \A m \in Msgs : Settled(m) => Settled(m)'
               /\ \A m \in Msgs : Settled(m)' /\ ~ Settled(m) => m = Current(c)
    <2>1. /\ ran' = ran
          /\ dlq' = [dlq EXCEPT ![Current(c)] = @ + 1] \/ dlq' = dlq
      BY <1>4 DEF RouteToDLQ
    <2>2. \A m \in Msgs : m # Current(c) => dlq'[m] = dlq[m]
      BY <1>1, <2>1
    <2>3. \A m \in Msgs : dlq'[m] >= dlq[m]
      BY <1>1, <2>1
    <2> QED
      BY <1>1, <2>1, <2>2, <2>3
  <1>5. \/ UNCHANGED <<ran, dlq>>
        \/ \E c \in Consumers : HandlerSucceeds(c) \/ RouteToDLQ(c)
    BY DEF Next, GroupNext, Work, vars, groupVars, Start, ReadPending, ReadNew, Return,
           Reject, HandlerFails, CountAttempt, Backoff, Ack, ClearRetries, Cancel, Crash,
           RetryKeyLapses, AppendEntry
  <1> QED
    BY <1>2, <1>3, <1>4, <1>5

(* Where a message may become acknowledged: only where XACK takes effect.  *)
LEMMA AckedStep ==
    ASSUME TypeOK, TypeOK', BatchInv, [Next]_vars
    PROVE  \/ Acked' = Acked
           \/ \E c \in Consumers : /\ Ack(c) /\ c \notin cancelled
                                   /\ Current(c) \in Msgs
                                   /\ Acked' \subseteq Acked \cup {Current(c)}
                                   /\ Acked \subseteq Acked'
  <1> USE GroupAssumption DEF Acked, Delivered
  <1>1. /\ owner \in [Msgs -> Consumers \cup {NoConsumer}]
        /\ lastId \in Nat /\ \A m \in 1..lastId : m \in Msgs
    BY DEF TypeOK, GroupTypeOK, Msgs
  <1>2. CASE UNCHANGED <<lastId, owner>>
    BY <1>2
  <1>3. ASSUME NEW c \in Consumers, ReadNew(c) PROVE Acked' = Acked
    <2> DEFINE top == BatchEnd
    <2>1. /\ top \in Nat /\ lastId < top /\ lastId' = top /\ top <= MaxMsgs
          /\ owner' = [m \in Msgs |-> IF m \in lastId + 1..top THEN c ELSE owner[m]]
      BY <1>3 DEF ReadNew, BatchEnd, TypeOK, GroupTypeOK
    <2> HIDE DEF top
    <2>2. \A m \in 1..top : m \in Msgs
      BY <2>1 DEF Msgs
    <2>3. \A m \in 1..lastId : owner'[m] = owner[m] /\ m \in 1..top
      BY <1>1, <2>1, <2>2
    <2>4. \A m \in 1..top : m \notin 1..lastId => owner'[m] = c
      BY <1>1, <2>1, <2>2
    <2> QED
      BY <2>1, <2>3, <2>4
  <1>4. ASSUME NEW c \in Consumers, Ack(c)
        PROVE  \/ Acked' = Acked
               \/ /\ c \notin cancelled /\ Current(c) \in Msgs
                  /\ Acked' \subseteq Acked \cup {Current(c)}
                  /\ Acked \subseteq Acked'
    <2>1. CASE UNCHANGED owner
      BY <1>4, <2>1 DEF Ack
    <2>2. CASE c \notin cancelled /\ owner' = [owner EXCEPT ![Current(c)] = NoConsumer]
      <3>1. Current(c) \in Msgs
        BY <1>4, CurrentMsg DEF Ack, Working, TypeOK, GroupTypeOK, PcBatchInv
      <3>2. lastId' = lastId
        BY <1>4 DEF Ack
      <3>3. \A m \in Msgs : owner'[m] = IF m = Current(c) THEN NoConsumer ELSE owner[m]
        BY <1>1, <2>2, <3>1
      <3> QED
        BY <1>1, <2>2, <3>1, <3>2, <3>3
    <2> QED
      BY <1>4, <2>1, <2>2 DEF Ack, Ok, Lost
  <1>5. \/ UNCHANGED <<lastId, owner>>
        \/ \E c \in Consumers : ReadNew(c) \/ Ack(c)
    BY DEF Next, GroupNext, Work, vars, groupVars, Start, ReadPending, Return, Reject,
           HandlerSucceeds, HandlerFails, CountAttempt, Backoff, RouteToDLQ, ClearRetries,
           Cancel, Crash, RetryKeyLapses, AppendEntry
  <1> QED
    BY <1>2, <1>3, <1>4, <1>5

(* A subscriber acknowledges only what is settled or what it could not     *)
(* dead-letter; one whose context is cancelled may have done neither, but  *)
(* acknowledges nothing.                                                   *)
LEMMA AckInvStep ==
    ASSUME TypeOK, TypeOK', BatchInv, AckInv, [Next]_vars
    PROVE  AckInv' /\ dropped \subseteq dropped'
  <1>0. dropped \subseteq dropped'
    BY DEF Next, GroupNext, Work, vars, groupVars, Start, ReadPending, ReadNew, Return,
           Reject, HandlerSucceeds, HandlerFails, CountAttempt, Backoff, RouteToDLQ, Ack,
           ClearRetries, Cancel, Crash, RetryKeyLapses, AppendEntry
  <1>1. \A m \in Msgs : Settled(m) => Settled(m)'
    BY SettledStays
  <1>2. /\ ran \in [Msgs -> Nat] /\ dlq \in [Msgs -> Nat] /\ PcBatchInv
        /\ pc \in [Consumers -> Phases]
    BY DEF TypeOK, GroupTypeOK, PcBatchInv
  <1>3. SUFFICES ASSUME NEW d \in Consumers, pc'[d] = "ack", d \notin cancelled'
                 PROVE  /\ Settled(batch[d][1])' \/ batch[d][1] \in dropped'
                        /\ batch'[d] = batch[d]
    BY <1>0 DEF AckInv, Settled
  <1>4. CASE pc[d] = "ack" /\ batch'[d] = batch[d] /\ d \notin cancelled
    <2>1. batch[d][1] \in Msgs
      BY <1>2, <1>4, CurrentMsg DEF Working
    <2>2. Settled(batch[d][1]) \/ batch[d][1] \in dropped
      BY <1>4 DEF AckInv
    <2>3. \A m \in Msgs : ran[m] > 0 \/ dlq[m] > 0 => ran'[m] > 0 \/ dlq'[m] > 0
      BY <1>1 DEF Settled
    <2> QED
      BY <1>0, <1>4, <2>1, <2>2, <2>3 DEF Settled
  <1>5. CASE HandlerSucceeds(d)
    <2>1. Current(d) \in Msgs /\ Current(d) = batch[d][1]
      BY <1>2, <1>5, CurrentMsg DEF HandlerSucceeds, Working
    <2>2. ran'[Current(d)] = ran[Current(d)] + 1 /\ batch' = batch
      BY <1>2, <1>5, <2>1 DEF HandlerSucceeds, Goto
    <2> QED
      BY <1>2, <2>1, <2>2 DEF Settled
  <1>6. CASE RouteToDLQ(d)
    <2>1. Current(d) \in Msgs /\ Current(d) = batch[d][1]
      BY <1>2, <1>6, CurrentMsg DEF RouteToDLQ, Working
    <2>2. /\ dlq' = [dlq EXCEPT ![Current(d)] = @ + 1] \/ Current(d) \in dropped'
          /\ batch' = batch
      BY <1>3, <1>6 DEF RouteToDLQ, Goto, Failed, Fault
    <2> QED
      BY <1>2, <2>1, <2>2 DEF Settled
  <1>7. \/ pc[d] = "ack" /\ batch'[d] = batch[d] /\ d \notin cancelled
        \/ HandlerSucceeds(d)
        \/ RouteToDLQ(d)
    <2>1. ASSUME NEW c \in Consumers, c # d, Start(c) \/ Work(c) \/ Cancel(c) \/ Crash(c)
          PROVE  pc[d] = "ack" /\ batch'[d] = batch[d] /\ d \notin cancelled
      BY <1>2, <1>3, <2>1
         DEF Work, Start, ReadPending, ReadNew, Return, Reject, HandlerSucceeds, HandlerFails,
             CountAttempt, Backoff, RouteToDLQ, Ack, ClearRetries, Cancel, Crash,
             Goto, NextMessage, PcBatchInv
    <2>2. ASSUME Start(d) \/ Work(d) \/ Cancel(d) \/ Crash(d)
          PROVE  \/ pc[d] = "ack" /\ batch'[d] = batch[d] /\ d \notin cancelled
                 \/ HandlerSucceeds(d)
                 \/ RouteToDLQ(d)
      <3>1. pc'[d] = "ack"
        BY <1>3
      <3>2. CASE Cancel(d)
        BY <1>3, <3>2 DEF Cancel
      <3>3. CASE Start(d) \/ Crash(d) \/ ReadPending(d) \/ ReadNew(d)
        BY <1>2, <3>1, <3>3 DEF Start, Crash, ReadPending, ReadNew
      <3>4. CASE Return(d) \/ Reject(d) \/ HandlerFails(d)
        BY <1>2, <3>1, <3>4 DEF Return, Reject, HandlerFails, Goto
      <3>5. CASE CountAttempt(d)
        BY <1>2, <3>1, <3>5 DEF CountAttempt, AfterAttempt, Goto
      <3>6. CASE Backoff(d) \/ Ack(d) \/ ClearRetries(d)
        BY <1>2, <3>1, <3>6 DEF Backoff, Ack, ClearRetries, Goto, NextMessage
      <3> QED
        BY <2>2, <3>2, <3>3, <3>4, <3>5, <3>6 DEF Work
    <2>3. CASE UNCHANGED <<batch, pc, cancelled>>
      BY <1>3, <2>3
    <2> QED
      BY <2>1, <2>2, <2>3 DEF Next, GroupNext, RetryKeyLapses, AppendEntry, vars, groupVars
  <1> QED
    BY <1>0, <1>4, <1>5, <1>6, <1>7

LEMMA DroppedStep ==
    ASSUME TypeOK, BatchInv, DroppedInv, [Next]_vars
    PROVE  DroppedInv'
  <1>1. faults \in Nat
    BY GroupAssumption DEF TypeOK, GroupTypeOK
  <1>2. CASE dropped' = dropped /\ faults' \in {faults, faults + 1}
    BY <1>1, <1>2, FS_CardinalityType DEF DroppedInv
  <1>3. ASSUME NEW m, dropped' = dropped \cup {m}, faults' = faults + 1
        PROVE  DroppedInv'
    <2>1. Cardinality(dropped) \in Nat /\ IsFiniteSet(dropped) /\ Cardinality(dropped) <= faults
      BY FS_CardinalityType DEF DroppedInv
    <2>2. /\ IsFiniteSet(dropped \cup {m})
          /\ \/ Cardinality(dropped \cup {m}) = Cardinality(dropped)
             \/ Cardinality(dropped \cup {m}) = Cardinality(dropped) + 1
      BY <2>1, FS_AddElement
    <2> QED
      BY <1>1, <1>3, <2>1, <2>2 DEF DroppedInv
  <1>4. \/ dropped' = dropped /\ faults' \in {faults, faults + 1}
        \/ \E m : dropped' = dropped \cup {m} /\ faults' = faults + 1
    <2>1. ASSUME NEW c \in Consumers, RouteToDLQ(c)
          PROVE  \/ dropped' = dropped /\ faults' \in {faults, faults + 1}
                 \/ \E m : dropped' = dropped \cup {m} /\ faults' = faults + 1
      BY <2>1 DEF RouteToDLQ, Ok, Lost, Failed, Fault
    <2> QED
      BY <2>1
         DEF Next, GroupNext, Work, vars, groupVars, Start, ReadPending, ReadNew, Return,
             Reject, HandlerSucceeds, HandlerFails, CountAttempt, Backoff, Ack,
             ClearRetries, Cancel, Crash, RetryKeyLapses, AppendEntry, Ok, Lost, Failed, Fault
  <1> QED
    BY <1>2, <1>3, <1>4

(* Whatever fails and whoever stops: the group loses a message only with   *)
(* an error answer to the very XADD that was to dead-letter it.            *)
THEOREM NothingLost == Spec => []LossesPaidFor
  <1>1. Init => AckInv /\ DroppedInv /\ LossesPaidFor
    BY FS_EmptySet, GroupAssumption
       DEF Init, GroupInit, AckInv, DroppedInv, LossesPaidFor, Acked, Delivered
  <1>2. /\ TypeOK /\ BatchInv /\ TypeOK' /\ AckInv /\ DroppedInv /\ LossesPaidFor /\ [Next]_vars
        => (AckInv /\ DroppedInv /\ LossesPaidFor)'
    <2> SUFFICES ASSUME TypeOK, BatchInv, TypeOK', AckInv, DroppedInv, LossesPaidFor, [Next]_vars
                 PROVE  AckInv' /\ DroppedInv' /\ LossesPaidFor'
      OBVIOUS
    <2> DEFINE Accounted(m) == Settled(m) \/ m \in dropped
    <2>0. DroppedInv' /\ AckInv' /\ dropped \subseteq dropped'
      BY DroppedStep, AckInvStep
    <2>1. \A m \in Msgs : Accounted(m) => Accounted(m)'
      BY <2>0, SettledStays DEF Settled
    <2>2. Acked \subseteq Msgs
      BY GroupAssumption DEF Acked, Delivered, TypeOK, GroupTypeOK, Msgs
    <2>3. \A m \in Acked : Accounted(m)'
      BY <2>1, <2>2 DEF LossesPaidFor
    <2>4. ASSUME Acked' = Acked PROVE \A m \in Acked' : Accounted(m)'
      BY <2>3, <2>4
    <2>5. ASSUME NEW c \in Consumers, Ack(c), c \notin cancelled, Current(c) \in Msgs,
                 Acked' \subseteq Acked \cup {Current(c)}
          PROVE  \A m \in Acked' : Accounted(m)'
      <3>1. Accounted(Current(c))
        BY <2>5, CurrentMsg DEF Ack, AckInv, Working, TypeOK, GroupTypeOK, PcBatchInv
      <3>2. Accounted(Current(c)) => ran'[Current(c)] > 0 \/ dlq'[Current(c)] > 0 \/ Current(c) \in dropped'
        BY <2>1, <2>5 DEF Settled
      <3> QED
        BY <2>3, <2>5, <3>1, <3>2 DEF Settled
    <2>6. \A m \in Acked' : Accounted(m)'
      BY <2>4, <2>5, AckedStep
    <2> QED
      BY <2>0, <2>6 DEF LossesPaidFor, DroppedInv, Settled
  <1> QED
    BY <1>1, <1>2, TypeCorrect, PTL DEF Spec

-----------------------------------------------------------------------------
(* The group implements what it promises: each of its steps appends,       *)
(* settles, drops or acknowledges one message of AtLeastOnce, or none.     *)
THEOREM KeepsPromise == Spec => ImplementsPromise
  <1>1. Init => Promise!Init
    BY GroupAssumption
       DEF Init, GroupInit, Promise!Init, Acked, Delivered, Settled, Msgs
  <1>2. /\ TypeOK /\ BatchInv /\ OwnerInv /\ TypeOK' /\ AckInv /\ [Next]_vars
        => [Promise!Next]_(Promise!vars)
    <2> SUFFICES ASSUME TypeOK, BatchInv, OwnerInv, TypeOK', AckInv, [Next]_vars
                 PROVE  [Promise!Next]_(Promise!vars)
      OBVIOUS
    <2> DEFINE settled == {m \in Msgs : Settled(m)}
               appended == 1..Len(stream)
    <2>1. PcBatchInv /\ lastId \in Nat /\ lastId <= Len(stream) /\ Len(stream) <= MaxMsgs
          /\ Len(stream) \in Nat /\ appended \subseteq Msgs
      BY GroupAssumption DEF TypeOK, GroupTypeOK, PcBatchInv, Msgs
    <2>2. ASSUME NEW c \in Consumers, pc[c] \in Working
          PROVE  Current(c) \in Msgs /\ Current(c) \in appended
      <3>1. Current(c) \in Msgs /\ Current(c) = batch[c][1] /\ 1 \in 1..Len(batch[c])
        BY <2>1, <2>2, CurrentMsg
      <3>2. Current(c) <= lastId
        BY <3>1 DEF OwnerInv
      <3> QED
        BY <2>1, <3>1, <3>2 DEF Msgs
    <2>3. CASE UNCHANGED <<stream, ran, dlq, dropped>> /\ Acked' = Acked
      BY <2>3 DEF Promise!vars, Settled
    <2>4. ASSUME NEW e \in Keys \cup {Malformed}, AppendEntry(e)
          PROVE  [Promise!Next]_(Promise!vars)
      <3>1. Len(stream') = Len(stream) + 1 /\ Len(stream) + 1 \in Msgs
        BY <2>1, <2>4, AppendType DEF AppendEntry, TypeOK, Msgs
      <3>2. 1..Len(stream') = appended \cup {Len(stream) + 1} /\ Len(stream) + 1 \notin appended
        BY <2>1, <3>1
      <3>3. UNCHANGED <<ran, dlq, dropped, lastId, owner>>
        BY <2>4 DEF AppendEntry, groupVars
      <3>4. Promise!Arrive(Len(stream) + 1)
        BY <3>1, <3>2, <3>3 DEF Promise!Arrive, Settled, Acked, Delivered
      <3> QED
        BY <3>1, <3>4 DEF Promise!Next
    <2>5. ASSUME NEW c \in Consumers, HandlerSucceeds(c) \/ RouteToDLQ(c)
          PROVE  [Promise!Next]_(Promise!vars)
      <3>1. Current(c) \in Msgs /\ Current(c) \in appended
        BY <2>2, <2>5 DEF HandlerSucceeds, RouteToDLQ, Working
      <3>2. UNCHANGED <<stream, lastId, owner>>
        BY <2>5 DEF HandlerSucceeds, RouteToDLQ
      <3>3. ran \in [Msgs -> Nat] /\ dlq \in [Msgs -> Nat]
        BY DEF TypeOK, GroupTypeOK
      <3>4. \/ UNCHANGED <<ran, dlq>> /\ dropped' \in {dropped, dropped \cup {Current(c)}}
            \/ ran' = [ran EXCEPT ![Current(c)] = @ + 1] /\ UNCHANGED <<dlq, dropped>>
            \/ dlq' = [dlq EXCEPT ![Current(c)] = @ + 1] /\ UNCHANGED <<ran, dropped>>
        BY <2>5 DEF HandlerSucceeds, RouteToDLQ
      <3>5. CASE UNCHANGED <<ran, dlq>>
        <4>1. CASE dropped' = dropped
          BY <3>2, <3>5, <4>1 DEF Promise!vars, Settled, Acked, Delivered
        <4>2. CASE dropped' = dropped \cup {Current(c)}
          <5>1. Current(c) \notin Acked
            <6>1. pc[c] \in Working /\ pc[c] # "clear"
              BY <2>5 DEF HandlerSucceeds, RouteToDLQ, Working
            <6>2. Current(c) = batch[c][1] /\ 1 \in 1..Len(batch[c])
              BY <2>1, <6>1, CurrentMsg
            <6>3. owner[Current(c)] = c
              BY <6>1, <6>2 DEF OwnerInv
            <6> QED
              BY <6>3, GroupAssumption DEF Acked
          <5>2. Promise!Drop(Current(c))
            BY <3>1, <3>2, <3>5, <4>2, <5>1 DEF Promise!Drop, Settled, Acked, Delivered
          <5> QED
            BY <3>1, <5>2 DEF Promise!Next
        <4> QED
          BY <3>4, <3>5, <4>1, <4>2
      <3>6. CASE ~ UNCHANGED <<ran, dlq>>
        <4>1. \A m \in Msgs :
                (ran'[m] > 0 \/ dlq'[m] > 0) <=> (ran[m] > 0 \/ dlq[m] > 0 \/ m = Current(c))
          BY <3>1, <3>3, <3>4, <3>6
        <4>2. {m \in Msgs : ran'[m] > 0 \/ dlq'[m] > 0}
                = {m \in Msgs : ran[m] > 0 \/ dlq[m] > 0} \cup {Current(c)}
          BY <3>1, <4>1
        <4>3. Promise!Settle(Current(c))
          BY <3>1, <3>2, <3>4, <3>6, <4>2 DEF Promise!Settle, Settled, Acked, Delivered
        <4> QED
          BY <3>1, <4>3 DEF Promise!Next
      <3> QED
        BY <3>5, <3>6
    <2>6. ASSUME NEW c \in Consumers, Ack(c), c \notin cancelled, Current(c) \in Msgs,
                 Acked' \subseteq Acked \cup {Current(c)}, Acked \subseteq Acked'
          PROVE  [Promise!Next]_(Promise!vars)
      <3>1. Settled(Current(c)) \/ Current(c) \in dropped
        BY <2>1, <2>6, CurrentMsg DEF Ack, AckInv, Working
      <3>2. UNCHANGED <<stream, ran, dlq, dropped>>
        BY <2>6 DEF Ack
      <3>3. CASE Acked' = Acked
        BY <3>2, <3>3, <2>3
      <3>4. CASE Acked' = Acked \cup {Current(c)}
        <4>1. Promise!Acknowledge(Current(c))
          BY <2>6, <3>1, <3>2, <3>4 DEF Promise!Acknowledge, Settled
        <4> QED
          BY <2>6, <4>1 DEF Promise!Next
      <3> QED
        BY <2>6, <3>3, <3>4
    <2>7. \/ UNCHANGED <<stream, ran, dlq, dropped>>
          \/ \E e \in Keys \cup {Malformed} : AppendEntry(e)
          \/ \E c \in Consumers : HandlerSucceeds(c) \/ RouteToDLQ(c)
      BY DEF Next, GroupNext, Work, vars, groupVars, Start, ReadPending, ReadNew, Return,
             Reject, HandlerFails, CountAttempt, Backoff, Ack, ClearRetries, Cancel, Crash,
             RetryKeyLapses
    <2> QED
      BY <2>3, <2>4, <2>5, <2>6, <2>7, AckedStep
  <1>3. AckInv /\ TypeOK /\ BatchInv /\ TypeOK' /\ [Next]_vars => AckInv'
    BY AckInvStep
  <1>4. Init => AckInv /\ OwnerInv /\ ExclusiveInv
    BY DEF Init, GroupInit, AckInv, OwnerInv, ExclusiveInv
  <1>5. TypeOK /\ BatchInv /\ TypeOK' /\ OwnerInv /\ ExclusiveInv /\ [Next]_vars
            => (OwnerInv /\ ExclusiveInv)'
    BY OwnersKept DEF OwnedInv, PcBatchInv, TypeOK, GroupTypeOK
  <1> QED
    BY <1>1, <1>2, <1>3, <1>4, <1>5, TypeCorrect, PTL
       DEF Spec, ImplementsPromise, Promise!Spec
-----------------------------------------------------------------------------
(* The life of one message, seen from outside: where it is, and whether    *)
(* the subscriber that has it in its batch has been cancelled.  A message  *)
(* that waits in a batch for its turn is as good as one whose handler is   *)
(* about to run.                                                           *)
Holds(c, m) == \E i \in 1..Len(batch[c]) : batch[c][i] = m
Stage(m) ==
    IF owner[m] = NoConsumer THEN (IF m <= lastId THEN "acked" ELSE "free")
    ELSE IF ~ Holds(owner[m], m) THEN "free"
    ELSE IF batch[owner[m]][1] = m THEN pc[owner[m]] ELSE "run"
Doomed(m) == owner[m] \in cancelled /\ Holds(owner[m], m)

Counters(m) == <<retryKey[m], ran[m], dlq[m], failed[m]>>
Stays(m) == Stage(m)' = Stage(m) /\ (Doomed(m)' <=> Doomed(m))
Moves(m, from, to) == Stage(m) = from /\ Stage(m)' = to /\ (Doomed(m)' <=> Doomed(m))
Leaves(m, from) == Stage(m) = from /\ Stage(m)' = "free" /\ ~ Doomed(m)'
Errors == faults' = faults + 1

(* What one step of anybody may do to a message.                           *)
LifeStep(m) ==
    \/ Stays(m) /\ UNCHANGED Counters(m)
    \/ /\ Stage(m) = "acked" /\ Stage(m)' = "acked"
       /\ retryKey'[m] \in {retryKey[m], 0} /\ UNCHANGED <<ran[m], dlq[m], failed[m]>>
    \/ /\ Stays(m) /\ retryKey'[m] = 0 /\ UNCHANGED <<ran[m], dlq[m], failed[m]>>
       /\ lapses' = lapses + 1 /\ UNCHANGED <<faults, stops>>
    \/ Moves(m, "free", "run") /\ ~ Doomed(m) /\ UNCHANGED Counters(m)
    \/ Moves(m, "run", "dlq") /\ stream[m] = Malformed /\ UNCHANGED Counters(m)
    \/ Moves(m, "run", "ack") /\ ran'[m] = ran[m] + 1 /\ UNCHANGED <<retryKey[m], dlq[m], failed[m]>>
    \/ Moves(m, "run", "count") /\ failed'[m] = failed[m] + 1 /\ UNCHANGED <<retryKey[m], ran[m], dlq[m]>>
    \/ /\ Moves(m, "count", AfterAttempt(retryKey[m] + 1)) /\ ~ Doomed(m)
       /\ retryKey'[m] = retryKey[m] + 1 /\ UNCHANGED <<ran[m], dlq[m], failed[m]>>
    \/ /\ Moves(m, "count", "backoff") /\ (Doomed(m) \/ Errors)
       /\ retryKey'[m] = retryKey[m] \/ (~ Doomed(m) /\ retryKey'[m] = retryKey[m] + 1)
       /\ UNCHANGED <<ran[m], dlq[m], failed[m]>>
    \/ Moves(m, "backoff", "run") /\ ~ Doomed(m) /\ UNCHANGED Counters(m)
    \/ Leaves(m, "backoff") /\ Doomed(m) /\ UNCHANGED Counters(m)
    \/ /\ Moves(m, "dlq", "ack")
       /\ dlq'[m] \in {dlq[m], dlq[m] + 1} /\ UNCHANGED <<retryKey[m], ran[m], failed[m]>>
    \/ Stage(m) = "ack" /\ Stage(m)' = "acked" /\ UNCHANGED Counters(m)
    \/ /\ Moves(m, "ack", "clear") \/ Leaves(m, "ack")
       /\ Doomed(m) \/ Errors
       /\ UNCHANGED Counters(m)
    \/ /\ Leaves(m, "clear") /\ (retryKey'[m] = retryKey[m] \/ (~ Doomed(m) /\ retryKey'[m] = 0))
       /\ UNCHANGED <<ran[m], dlq[m], failed[m]>>
    \/ Stage(m)' = Stage(m) /\ ~ Doomed(m) /\ Doomed(m)' /\ stops' = stops + 1 /\ UNCHANGED Counters(m)
    \/ Stage(m)' = "free" /\ ~ Doomed(m)' /\ Stage(m) \in Working /\ stops' = stops + 1
       /\ UNCHANGED Counters(m)

LEMMA GotoLife ==
    ASSUME TypeOK, OwnedInv, NEW c \in Consumers, pc[c] \in Working, NEW phase \in Phases,
           Goto(c, phase), UNCHANGED <<lastId, owner, cancelled>>, NEW m \in Msgs
    PROVE  IF owner[m] = c /\ m = Current(c)
           THEN Moves(m, pc[c], phase) /\ (Doomed(m) <=> c \in cancelled)
           ELSE Stays(m)
<1> USE GroupAssumption DEF Stage, Doomed, Holds, Moves, Stays
<1>1. /\ batch' = batch /\ pc'[c] = phase
      /\ \A d \in Consumers \ {c} : pc'[d] = pc[d]
  BY DEF Goto, OwnedInv, PcBatchInv
<1>2. batch[c][1] = Current(c) /\ 1 \in 1..Len(batch[c])
  BY CurrentMsg DEF OwnedInv
<1>3. owner[m] \in Consumers \cup {NoConsumer}
  BY DEF TypeOK, GroupTypeOK
<1>4. CASE owner[m] = c /\ m = Current(c)
  BY <1>1, <1>2, <1>4
<1>5. CASE owner[m] # c
  BY <1>1, <1>3, <1>5
<1>6. CASE owner[m] = c /\ m # Current(c)
  BY <1>1, <1>2, <1>6
<1> QED
  BY <1>4, <1>5, <1>6

LEMMA NextMessageLife ==
    ASSUME TypeOK, OwnedInv, NEW c \in Consumers, pc[c] \in Working,
           NextMessage(c), UNCHANGED <<lastId, owner, cancelled>>, NEW m \in Msgs
    PROVE  IF owner[m] = c /\ m = Current(c)
           THEN Leaves(m, pc[c]) /\ (Doomed(m) <=> c \in cancelled)
           ELSE Stays(m)
<1> USE GroupAssumption DEF Stage, Doomed, Holds, Leaves, Stays
<1>1. /\ Len(batch'[c]) = Len(batch[c]) - 1
      /\ Len(batch[c]) \in Nat \ {0}
      /\ \A i \in 1..Len(batch'[c]) : batch'[c][i] = batch[c][i + 1]
      /\ \A d \in Consumers \ {c} : batch'[d] = batch[d] /\ pc'[d] = pc[d]
  BY NextMessageBatch DEF OwnedInv
<1>2. batch[c][1] = Current(c) /\ 1 \in 1..Len(batch[c])
  BY CurrentMsg DEF OwnedInv
<1>3. owner[m] \in Consumers \cup {NoConsumer}
  BY DEF TypeOK, GroupTypeOK
<1>4. \A i \in 1..Len(batch[c]) : i # 1 => batch[c][i] # Current(c)
  BY <1>2 DEF OwnedInv, OwnerInv
<1>5. CASE owner[m] = c /\ m = Current(c)
  <2>1. ~ Holds(c, m)'
    BY <1>1, <1>4, <1>5
  <2> QED
    BY <1>2, <1>5, <2>1
<1>6. CASE owner[m] # c
  <2>1. CASE owner[m] = NoConsumer
    BY <1>6, <2>1 DEF TypeOK, GroupTypeOK
  <2>2. CASE owner[m] \in Consumers \ {c}
    <3>1. batch'[owner[m]] = batch[owner[m]] /\ pc'[owner[m]] = pc[owner[m]]
      BY <1>1, <2>2
    <3> QED
      BY <2>2, <3>1
  <2> QED
    BY <1>3, <1>6, <2>1, <2>2
<1>7. CASE owner[m] = c /\ m # Current(c)
  <2>1. Holds(c, m)' => Holds(c, m)
    BY <1>1
  <2>2. Holds(c, m) => Holds(c, m)'
    <3> SUFFICES ASSUME NEW i \in 1..Len(batch[c]), batch[c][i] = m PROVE Holds(c, m)'
      OBVIOUS
    <3>1. i # 1
      BY <1>2, <1>7
    <3>2. i - 1 \in 1..Len(batch'[c]) /\ batch'[c][i - 1] = batch[c][i]
      BY <1>1, <3>1
    <3> QED
      BY <3>2
  <2>3. Holds(c, m)' => pc'[c] = "run"
    BY <1>1 DEF NextMessage, OwnedInv, PcBatchInv
  <2>4. batch[c][1] # m
    BY <1>2, <1>7
  <2> QED
    BY <1>7, <2>1, <2>2, <2>3, <2>4
<1> QED
  BY <1>5, <1>6, <1>7
(* An idle subscriber has no message in its batch.                         *)
LEMMA IdleLife ==
    ASSUME TypeOK, OwnedInv, NEW c \in Consumers, pc[c] \notin Working, NEW m \in Msgs
    PROVE  /\ ~ Holds(c, m) /\ batch[c] = <<>>
           /\ owner[m] = c => Stage(m) = "free" /\ ~ Doomed(m)
<1>1. batch[c] = <<>>
  BY DEF OwnedInv, PcBatchInv, BatchInv
<1>2. ~ Holds(c, m)
  BY <1>1 DEF Holds
<1> QED
  BY <1>1, <1>2, GroupAssumption DEF Stage, Doomed

(* What the others have in hand is not touched by a step of c.             *)
LEMMA OthersLife ==
    ASSUME TypeOK, TypeOK', OwnedInv, NEW c \in Consumers, NEW m \in Msgs, owner[m] # c,
           lastId' = lastId, owner'[m] = owner[m],
           \A d \in Consumers \ {c} :
               batch'[d] = batch[d] /\ pc'[d] = pc[d] /\ (d \in cancelled' <=> d \in cancelled)
    PROVE  Stays(m)
<1>1. CASE owner[m] = NoConsumer
  BY <1>1, GroupAssumption DEF TypeOK, GroupTypeOK, Stays, Stage, Doomed
<1>2. CASE owner[m] \in Consumers \ {c}
  <2>1. /\ batch'[owner[m]] = batch[owner[m]] /\ pc'[owner[m]] = pc[owner[m]]
        /\ (owner[m] \in cancelled' <=> owner[m] \in cancelled)
    BY <1>2
  <2> QED
    BY <1>2, <2>1, GroupAssumption DEF Stays, Stage, Doomed, Holds
<1> QED
  BY <1>1, <1>2 DEF TypeOK, GroupTypeOK
LEMMA LifeSteps ==
    ASSUME TypeOK, TypeOK', OwnedInv, [Next]_vars, NEW m \in Msgs
    PROVE  LifeStep(m)
<1> USE GroupAssumption DEF Counters
<1> PcBatchInv
  BY DEF OwnedInv
<1>0. /\ owner \in [Msgs -> Consumers \cup {NoConsumer}] /\ cancelled \subseteq Consumers
      /\ retryKey \in [Msgs -> Nat] /\ ran \in [Msgs -> Nat] /\ dlq \in [Msgs -> Nat]
      /\ failed \in [Msgs -> Nat] /\ faults \in Nat /\ stops \in Nat
      /\ batch \in [Consumers -> Seq(Msgs)] /\ pc \in [Consumers -> Phases]
  BY SMTT(30) DEF TypeOK, GroupTypeOK
<1>1. ASSUME NEW c \in Consumers, Start(c) PROVE LifeStep(m)
  <2>1. pc[c] \notin Working
    BY <1>1 DEF Start, Working
  <2>2. batch'[c] = <<>> /\ pc'[c] = "poll" /\ UNCHANGED <<lastId, owner, retryKey, ran, dlq, failed>>
    BY <1>0, <1>1 DEF Start
  <2>3. CASE owner[m] = c
    BY <1>0, <2>1, <2>2, <2>3, IdleLife DEF Stays, Stage, Doomed, Holds, LifeStep
  <2>4. CASE owner[m] # c
    <3>1. Stays(m)
      BY <1>0, <1>1, <2>4, OthersLife DEF Start
    <3> QED
      BY <2>2, <3>1 DEF LifeStep
  <2> QED
    BY <2>3, <2>4
<1>2. ASSUME NEW c \in Consumers, ReadPending(c) PROVE LifeStep(m)
  <2>1. pc[c] = "poll" /\ c \notin cancelled /\ pc[c] \notin Working
    BY <1>2 DEF ReadPending, Working
  <2>2. UNCHANGED <<lastId, owner, cancelled, retryKey, ran, dlq, failed>>
    BY <1>2 DEF ReadPending
  <2>3. CASE UNCHANGED <<batch, pc>>
    BY <2>2, <2>3 DEF Stays, Stage, Doomed, Holds, LifeStep
  <2>4. ASSUME NEW s, batch' = [batch EXCEPT ![c] = s], pc' = [pc EXCEPT ![c] = "run"]
        PROVE  LifeStep(m)
    <3>1. CASE owner[m] = c
      <4>1. Stage(m) = "free" /\ ~ Doomed(m) /\ ~ Doomed(m)'
        BY <1>0, <2>1, <2>2, <3>1, IdleLife DEF Doomed
      <4>2. pc'[c] = "run"
        BY <1>0, <2>4
      <4>3. Stage(m)' \in {"free", "run"}
        BY <2>2, <3>1, <4>2 DEF Stage
      <4> QED
        BY <2>2, <4>1, <4>3 DEF Stays, Moves, LifeStep
    <3>2. CASE owner[m] # c
      <4>1. Stays(m)
        BY <1>0, <2>2, <2>4, <3>2, OthersLife
      <4> QED
        BY <2>2, <4>1 DEF LifeStep
    <3> QED
      BY <3>1, <3>2
  <2> QED
    BY <1>2, <2>3, <2>4 DEF ReadPending
<1>3. ASSUME NEW c \in Consumers, ReadNew(c) PROVE LifeStep(m)
  <2> DEFINE top == BatchEnd
             news == [i \in 1..top - lastId |-> lastId + i]
  <2>1. /\ lastId \in Nat /\ top \in Nat /\ lastId < top /\ lastId' = top
        /\ owner' = [k \in Msgs |-> IF k \in lastId + 1..top THEN c ELSE owner[k]]
    BY <1>3 DEF ReadNew, BatchEnd, TypeOK, GroupTypeOK
  <2>2. pc[c] \notin Working /\ UNCHANGED <<cancelled, retryKey, ran, dlq, failed>>
    BY <1>3 DEF ReadNew, Working
  <2>3. \/ batch' = [batch EXCEPT ![c] = news] /\ pc' = [pc EXCEPT ![c] = "run"] /\ c \notin cancelled
        \/ UNCHANGED <<batch, pc>>
    BY <1>3 DEF ReadNew, Ok, Lost
  <2> HIDE DEF top
  <2>4. \A d \in Consumers \ {c} : batch'[d] = batch[d] /\ pc'[d] = pc[d]
    BY <1>0, <2>3
  <2>5. m \in Nat /\ owner'[m] = IF m \in lastId + 1..top THEN c ELSE owner[m]
    BY <2>1 DEF Msgs
  <2>6. \A d \in Consumers : Holds(d, m) => m <= lastId
    BY DEF OwnedInv, OwnerInv, Holds
  <2>7. \A d \in Consumers \ {c} : Holds(d, m)' <=> Holds(d, m)
    BY <2>4 DEF Holds
  <2>8. ~ Holds(c, m)
    BY <2>2, IdleLife
  <2>9. Holds(c, m)' => m \in lastId + 1..top /\ pc'[c] = "run" /\ c \notin cancelled
    <3>1. CASE UNCHANGED <<batch, pc>>
      BY <2>8, <3>1 DEF Holds
    <3>2. CASE batch' = [batch EXCEPT ![c] = news] /\ pc' = [pc EXCEPT ![c] = "run"] /\ c \notin cancelled
      <4>1. batch'[c] = news /\ pc'[c] = "run"
        BY <1>0, <3>2
      <4>2. Len(news) = top - lastId
        BY <2>1
      <4>3. \A i \in 1..Len(news) : news[i] \in lastId + 1..top
        BY <2>1, <4>2
      <4> HIDE DEF news
      <4> QED
        BY <3>2, <4>1, <4>3 DEF Holds
    <3> QED
      BY <2>3, <3>1, <3>2
  <2>10. CASE m \in lastId + 1..top
    <3>1. owner'[m] = c /\ ~ m <= lastId
      BY <2>1, <2>5, <2>10
    <3>2. Stage(m) = "free" /\ ~ Doomed(m)
      BY <1>0, <2>6, <3>1 DEF Stage, Doomed
    <3>3. ~ Doomed(m)'
      BY <2>2, <2>9, <3>1 DEF Doomed
    <3>4. Stage(m)' \in {"free", "run"}
      BY <2>9, <3>1 DEF Stage
    <3> QED
      BY <2>2, <3>2, <3>3, <3>4 DEF Stays, Moves, LifeStep
  <2>11. CASE m \notin lastId + 1..top
    <3>1. owner'[m] = owner[m] /\ ~ Holds(c, m)'
      BY <2>5, <2>9, <2>11
    <3>2. m <= lastId <=> m <= top
      BY <2>1, <2>5, <2>11
    <3>3. CASE owner[m] = NoConsumer
      BY <1>0, <2>1, <2>2, <3>1, <3>2, <3>3 DEF Stays, Stage, Doomed, LifeStep
    <3>4. CASE owner[m] = c
      BY <2>2, <2>8, <3>1, <3>4 DEF Stays, Stage, Doomed, LifeStep
    <3>5. CASE owner[m] \in Consumers \ {c}
      <4>1. batch'[owner[m]] = batch[owner[m]] /\ pc'[owner[m]] = pc[owner[m]]
        BY <2>4, <3>5
      <4>2. Holds(owner[m], m)' <=> Holds(owner[m], m)
        BY <3>1, <4>1 DEF Holds
      <4> QED
        BY <2>2, <3>1, <3>5, <4>1, <4>2 DEF Stays, Stage, Doomed, LifeStep, Holds
    <3> QED
      BY <1>0, <3>3, <3>4, <3>5
  <2> QED
    BY <2>10, <2>11
<1>4. ASSUME NEW c \in Consumers, Return(c) PROVE LifeStep(m)
  <2>1. pc[c] \notin Working /\ pc' = [pc EXCEPT ![c] = "stopped"]
        /\ UNCHANGED <<lastId, owner, batch, cancelled, retryKey, ran, dlq, failed>>
    BY <1>4 DEF Return, Goto, Working
  <2>2. CASE owner[m] = c
    <3>1. ~ Holds(c, m)
      BY <2>1, IdleLife
    <3> QED
      BY <1>0, <2>1, <2>2, <3>1 DEF Stays, Stage, Doomed, Holds, LifeStep
  <2>3. CASE owner[m] # c
    <3>1. Stays(m)
      BY <1>0, <2>1, <2>3, OthersLife
    <3> QED
      BY <2>1, <3>1 DEF LifeStep
  <2> QED
    BY <2>2, <2>3
<1> DEFINE Mine(c) == owner[m] = c /\ m = Current(c)
<1>5. ASSUME NEW c \in Consumers, Reject(c) PROVE LifeStep(m)
  <2>1. /\ pc[c] = "run" /\ stream[Current(c)] = Malformed /\ Goto(c, "dlq")
        /\ UNCHANGED <<lastId, owner, cancelled, retryKey, ran, dlq, failed>>
    BY <1>5 DEF Reject
  <2>2. IF Mine(c) THEN Moves(m, "run", "dlq") ELSE Stays(m)
    BY <2>1, GotoLife DEF Working, Phases
  <2> QED
    BY <2>1, <2>2 DEF LifeStep
<1>6. ASSUME NEW c \in Consumers, HandlerSucceeds(c) PROVE LifeStep(m)
  <2>1. /\ pc[c] = "run" /\ Goto(c, "ack") /\ ran' = [ran EXCEPT ![Current(c)] = @ + 1]
        /\ UNCHANGED <<lastId, owner, cancelled, retryKey, dlq, failed>>
    BY <1>6 DEF HandlerSucceeds
  <2>2. IF Mine(c) THEN Moves(m, "run", "ack") ELSE Stays(m)
    BY <2>1, GotoLife DEF Working, Phases
  <2>3. Current(c) = m => owner[m] = c
    BY <2>1, CurrentMsg DEF OwnedInv, OwnerInv, Working
  <2>4. ran'[m] = IF Mine(c) THEN ran[m] + 1 ELSE ran[m]
    BY <1>0, <2>1, <2>3
  <2> QED
    BY <2>1, <2>2, <2>4 DEF LifeStep
<1>7. ASSUME NEW c \in Consumers, HandlerFails(c) PROVE LifeStep(m)
  <2>1. /\ pc[c] = "run" /\ Goto(c, "count") /\ failed' = [failed EXCEPT ![Current(c)] = @ + 1]
        /\ UNCHANGED <<lastId, owner, cancelled, retryKey, ran, dlq>>
    BY <1>7 DEF HandlerFails
  <2>2. IF Mine(c) THEN Moves(m, "run", "count") ELSE Stays(m)
    BY <2>1, GotoLife DEF Working, Phases
  <2>3. Current(c) = m => owner[m] = c
    BY <2>1, CurrentMsg DEF OwnedInv, OwnerInv, Working
  <2>4. failed'[m] = IF Mine(c) THEN failed[m] + 1 ELSE failed[m]
    BY <1>0, <2>1, <2>3
  <2> QED
    BY <2>1, <2>2, <2>4 DEF LifeStep
<1>8. ASSUME NEW c \in Consumers, CountAttempt(c) PROVE LifeStep(m)
  <2>1. pc[c] = "count" /\ UNCHANGED <<lastId, owner, cancelled, ran, dlq, failed>>
    BY <1>8 DEF CountAttempt
  <2>2. Current(c) = m => owner[m] = c
    BY <2>1, CurrentMsg DEF OwnedInv, OwnerInv, Working
  <2>3. PICK phase \in {"dlq", "backoff"} :
          /\ Goto(c, phase)
          /\ \/ /\ c \notin cancelled /\ retryKey' = [retryKey EXCEPT ![Current(c)] = @ + 1]
                /\ phase = AfterAttempt(retryKey[Current(c)] + 1)
             \/ /\ c \notin cancelled /\ Errors /\ retryKey' = [retryKey EXCEPT ![Current(c)] = @ + 1]
                /\ phase = "backoff"
             \/ (c \in cancelled \/ Errors) /\ retryKey' = retryKey /\ phase = "backoff"
    BY <1>8 DEF CountAttempt, Ok, Lost, Failed, Fault, Errors, AfterAttempt
  <2>4. IF Mine(c) THEN Moves(m, "count", phase) /\ (Doomed(m) <=> c \in cancelled) ELSE Stays(m)
    BY <2>1, <2>3, GotoLife DEF Working, Phases
  <2>5. CASE Mine(c)
    <3>1. retryKey' = [retryKey EXCEPT ![Current(c)] = @ + 1] => retryKey'[m] = retryKey[m] + 1
      BY <1>0, <2>5
    <3> QED
      BY <2>1, <2>3, <2>4, <2>5, <3>1 DEF LifeStep
  <2>6. CASE ~ Mine(c)
    <3>1. retryKey'[m] = retryKey[m]
      BY <1>0, <2>2, <2>3, <2>6
    <3> QED
      BY <2>1, <2>4, <2>6, <3>1 DEF LifeStep
  <2> QED
    BY <2>5, <2>6
<1>9. ASSUME NEW c \in Consumers, Backoff(c) PROVE LifeStep(m)
  <2>1. pc[c] = "backoff" /\ UNCHANGED <<lastId, owner, cancelled, retryKey, ran, dlq, failed>>
    BY <1>9 DEF Backoff
  <2>2. CASE c \in cancelled
    <3>1. IF Mine(c) THEN Leaves(m, "backoff") /\ Doomed(m) ELSE Stays(m)
      BY <1>9, <2>1, <2>2, NextMessageLife DEF Backoff, Working
    <3> QED
      BY <2>1, <3>1 DEF LifeStep
  <2>3. CASE c \notin cancelled
    <3>1. IF Mine(c) THEN Moves(m, "backoff", "run") /\ ~ Doomed(m) ELSE Stays(m)
      BY <1>9, <2>1, <2>3, GotoLife DEF Backoff, Working, Phases
    <3> QED
      BY <2>1, <3>1 DEF LifeStep
  <2> QED
    BY <2>2, <2>3
<1>10. ASSUME NEW c \in Consumers, RouteToDLQ(c) PROVE LifeStep(m)
  <2>1. /\ pc[c] = "dlq" /\ Goto(c, "ack")
        /\ dlq' \in {dlq, [dlq EXCEPT ![Current(c)] = @ + 1]}
        /\ UNCHANGED <<lastId, owner, cancelled, retryKey, ran, failed>>
    BY <1>10 DEF RouteToDLQ
  <2>2. IF Mine(c) THEN Moves(m, "dlq", "ack") ELSE Stays(m)
    BY <2>1, GotoLife DEF Working, Phases
  <2>3. Current(c) = m => owner[m] = c
    BY <2>1, CurrentMsg DEF OwnedInv, OwnerInv, Working
  <2>4. CASE Mine(c)
    <3>1. dlq'[m] \in {dlq[m], dlq[m] + 1}
      BY <1>0, <2>1, <2>4
    <3> QED
      BY <2>1, <2>2, <2>4, <3>1 DEF LifeStep
  <2>5. CASE ~ Mine(c)
    <3>1. dlq'[m] = dlq[m]
      BY <1>0, <2>1, <2>3, <2>5
    <3> QED
      BY <2>1, <2>2, <2>5, <3>1 DEF LifeStep
  <2> QED
    BY <2>4, <2>5
<1>11. ASSUME NEW c \in Consumers, Ack(c) PROVE LifeStep(m)
  <2>1. pc[c] = "ack" /\ UNCHANGED <<lastId, cancelled, retryKey, ran, dlq, failed>>
    BY <1>11 DEF Ack
  <2>2. /\ Current(c) \in Msgs /\ owner[Current(c)] = c /\ Current(c) <= lastId
        /\ batch[c][1] = Current(c) /\ 1 \in 1..Len(batch[c])
    BY <2>1, CurrentMsg DEF OwnedInv, OwnerInv, Working
  <2>3. CASE owner' = owner
    <3>1. c \in cancelled \/ Errors
      BY <1>11, <2>2, <2>3, <1>0 DEF Ack, Failed, Ok, Lost, Fault, Errors
    <3>2. IF Mine(c)
          THEN (Moves(m, "ack", "clear") \/ Leaves(m, "ack")) /\ (Doomed(m) <=> c \in cancelled)
          ELSE Stays(m)
      BY <1>11, <2>1, <2>3, GotoLife, NextMessageLife DEF Ack, Working, Phases
    <3> QED
      BY <2>1, <3>1, <3>2 DEF LifeStep
  <2>4. CASE owner' = [owner EXCEPT ![Current(c)] = NoConsumer]
    <3>1. CASE m = Current(c)
      <4>1. Stage(m) = "ack"
        BY <2>1, <2>2, <3>1 DEF Stage, Holds
      <4>2. owner'[m] = NoConsumer
        BY <1>0, <2>4, <3>1
      <4>3. Stage(m)' = "acked"
        BY <2>1, <2>2, <3>1, <4>2 DEF Stage
      <4> QED
        BY <2>1, <4>1, <4>3 DEF LifeStep
    <3>2. CASE m # Current(c)
      <4>1. owner'[m] = owner[m]
        BY <1>0, <2>2, <2>4, <3>2
      <4>2. CASE Goto(c, "clear")
        <5>1. batch' = batch /\ \A d \in Consumers : pc'[d] = IF d = c THEN "clear" ELSE pc[d]
          BY <1>0, <4>2 DEF Goto
        <5>2. Stays(m)
          BY <1>0, <2>1, <2>2, <3>2, <4>1, <5>1, ZenonT(30) DEF Stays, Stage, Doomed, Holds
        <5> QED
          BY <2>1, <5>2 DEF LifeStep
      <4>3. CASE NextMessage(c)
        <5>1. /\ Len(batch'[c]) = Len(batch[c]) - 1
              /\ Len(batch[c]) \in Nat \ {0}
              /\ \A i \in 1..Len(batch'[c]) : batch'[c][i] = batch[c][i + 1]
              /\ \A d \in Consumers \ {c} : batch'[d] = batch[d] /\ pc'[d] = pc[d]
          BY <2>1, <4>3, NextMessageBatch DEF Working
        <5>2. CASE owner[m] # c
          <6>1. Stays(m)
            BY <2>1, <4>1, <5>1, <5>2, OthersLife
          <6> QED
            BY <2>1, <6>1 DEF LifeStep
        <5>3. CASE owner[m] = c
          <6>0. Holds(c, m)' => Holds(c, m)
            BY <5>1 DEF Holds
          <6>1. Holds(c, m)' => pc'[c] = "run"
            BY <4>3, <5>1, SMTT(30) DEF Holds, NextMessage, PcBatchInv
          <6>2. Holds(c, m) => Holds(c, m)'
            <7> SUFFICES ASSUME NEW i \in 1..Len(batch[c]), batch[c][i] = m PROVE Holds(c, m)'
              BY DEF Holds
            <7>1. i # 1
              BY <2>2, <3>2
            <7>2. i - 1 \in 1..Len(batch'[c]) /\ batch'[c][i - 1] = batch[c][i]
              BY <5>1, <7>1
            <7> QED
              BY <7>2 DEF Holds
          <6>3. Stays(m)
            BY <2>1, <2>2, <3>2, <4>1, <5>3, <6>0, <6>1, <6>2 DEF Stays, Stage, Doomed
          <6> QED
            BY <2>1, <6>3 DEF LifeStep
        <5> QED
          BY <5>2, <5>3
      <4> QED
        BY <1>11, <4>2, <4>3 DEF Ack
    <3> QED
      BY <3>1, <3>2
  <2> QED
    BY <1>11, <2>3, <2>4 DEF Ack
<1>12. ASSUME NEW c \in Consumers, ClearRetries(c) PROVE LifeStep(m)
  <2>1. /\ pc[c] = "clear" /\ NextMessage(c)
        /\ UNCHANGED <<lastId, owner, cancelled, ran, dlq, failed>>
    BY <1>12 DEF ClearRetries
  <2>2. \/ c \notin cancelled /\ retryKey' = [retryKey EXCEPT ![Current(c)] = 0]
        \/ retryKey' = retryKey
    BY <1>12 DEF ClearRetries, Ok, Lost
  <2>3. IF Mine(c) THEN Leaves(m, "clear") /\ (Doomed(m) <=> c \in cancelled) ELSE Stays(m)
    BY <2>1, NextMessageLife DEF Working
  <2>4. CASE Mine(c)
    <3>1. retryKey'[m] = retryKey[m] \/ (~ Doomed(m) /\ retryKey'[m] = 0)
      BY <1>0, <2>2, <2>3, <2>4
    <3> QED
      BY <2>1, <2>3, <2>4, <3>1 DEF LifeStep
  <2>5. CASE ~ Mine(c)
    <3>1. CASE m = Current(c)
      <4>1. owner[m] = NoConsumer /\ m <= lastId
        BY <2>1, <2>5, <3>1, CurrentMsg DEF OwnedInv, OwnerInv, Working
      <4>2. Stage(m) = "acked" /\ Stage(m)' = "acked"
        BY <2>1, <4>1 DEF Stage
      <4>3. retryKey'[m] \in {retryKey[m], 0}
        BY <1>0, <2>2, <3>1
      <4> QED
        BY <2>1, <4>2, <4>3 DEF LifeStep
    <3>2. CASE m # Current(c)
      <4>1. retryKey'[m] = retryKey[m]
        BY <1>0, <2>2, <3>2
      <4> QED
        BY <2>1, <2>3, <2>5, <4>1 DEF LifeStep
    <3> QED
      BY <3>1, <3>2
  <2> QED
    BY <2>4, <2>5
<1>13. ASSUME NEW c \in Consumers, Cancel(c) PROVE LifeStep(m)
  <2>1. /\ c \notin cancelled /\ cancelled' = cancelled \cup {c} /\ stops' = stops + 1
        /\ UNCHANGED <<lastId, owner, batch, pc, retryKey, ran, dlq, failed>>
    BY <1>13 DEF Cancel
  <2> QED
    BY <2>1 DEF Stays, Stage, Doomed, Holds, LifeStep
<1>14. ASSUME NEW c \in Consumers, Crash(c) PROVE LifeStep(m)
  <2>1. /\ batch' = [batch EXCEPT ![c] = <<>>] /\ pc' = [pc EXCEPT ![c] = "stopped"] /\ stops' = stops + 1
        /\ UNCHANGED <<lastId, owner, cancelled, retryKey, ran, dlq, failed>>
    BY <1>14 DEF Crash
  <2>2. CASE owner[m] # c
    <3>1. Stays(m)
      BY <1>0, <2>1, <2>2, OthersLife
    <3> QED
      BY <2>1, <3>1 DEF LifeStep
  <2>3. CASE owner[m] = c
    <3>1. ~ Holds(c, m)'
      BY <1>0, <2>1 DEF Holds
    <3>2. Stage(m)' = "free" /\ ~ Doomed(m)'
      BY <2>1, <2>3, <3>1 DEF Stage, Doomed
    <3>3. Stage(m) = "free" \/ Stage(m) \in Working
      <4>1. pc[c] \notin Working => Stage(m) = "free"
        BY <2>3, IdleLife
      <4> QED
        BY <2>3, <4>1 DEF Stage, Working
    <3>4. Stage(m) = "free" => ~ Doomed(m)
      <4>1. Holds(c, m) => Stage(m) # "free"
        BY <1>0, <2>3 DEF Stage, Phases
      <4> QED
        BY <2>3, <4>1 DEF Doomed
    <3> QED
      BY <2>1, <3>2, <3>3, <3>4 DEF Stays, LifeStep
  <2> QED
    BY <2>2, <2>3
<1>15. ASSUME (\E e \in Keys \cup {Malformed} : AppendEntry(e)) \/ UNCHANGED vars PROVE LifeStep(m)
  BY <1>15 DEF AppendEntry, vars, groupVars, Stays, Stage, Doomed, Holds, LifeStep
<1>16. ASSUME NEW k \in Msgs, RetryKeyLapses(k) PROVE LifeStep(m)
  <2>1. /\ UNCHANGED <<lastId, owner, batch, pc, cancelled, ran, dlq, failed, faults, stops>>
        /\ retryKey' = [retryKey EXCEPT ![k] = 0] /\ lapses' = lapses + 1
    BY <1>16 DEF RetryKeyLapses
  <2>2. Stays(m)
    BY <2>1 DEF Stays, Stage, Doomed, Holds
  <2>3. retryKey'[m] = 0 \/ retryKey'[m] = retryKey[m]
    BY <1>0, <2>1
  <2> QED
    BY <2>1, <2>2, <2>3 DEF LifeStep
<1> QED
  BY <1>1, <1>2, <1>3, <1>4, <1>5, <1>6, <1>7, <1>8, <1>9, <1>10, <1>11, <1>12,
     <1>13, <1>14, <1>15, <1>16 DEF Next, GroupNext, Work
-----------------------------------------------------------------------------
(* How often a message may yet be handled or dead-lettered without a stop  *)
(* or an error answer, given where it is.                                  *)
Once(b) == IF b THEN 1 ELSE 0
Worth(m) ==
    IF Stage(m) = "acked" THEN 0
    ELSE IF Stage(m) \in {"free", "clear"} THEN 1
    ELSE IF Stage(m) = "ack" THEN Once(Doomed(m)) ELSE 1 + Once(Doomed(m))
RedeliveryInv == \A m \in Msgs : ran[m] + dlq[m] + Worth(m) <= 1 + stops + faults

(* How often its handler may yet fail.                                     *)
Left(m) == IF retryKey[m] < MaxRetries THEN MaxRetries - retryKey[m] ELSE 1
FailuresLeft(m) ==
    IF Stage(m) = "acked" THEN 0
    ELSE IF Stage(m) = "run" THEN Left(m) + Once(Doomed(m))
    ELSE IF Stage(m) = "count" THEN Left(m) - 1 + Once(Doomed(m))
    ELSE IF Stage(m) \in {"dlq", "ack"}
         THEN (IF retryKey[m] < MaxRetries \/ Doomed(m) THEN Left(m) ELSE 0)
    ELSE IF Stage(m) = "clear" THEN (IF Doomed(m) THEN Left(m) ELSE MaxRetries)
    ELSE Left(m)
Budget == MaxRetries * (1 + faults + lapses) + stops + faults
BudgetInv == \A m \in Msgs : failed[m] + FailuresLeft(m) <= Budget

(* The counter in Redis never runs ahead of the failures there were.       *)
Earned(m) == m <= Len(stream) /\ (stream[m] = Malformed \/ failed[m] >= MaxRetries)
EarnedInv ==
    \A m \in Msgs :
        /\ retryKey[m] <= failed[m]
        /\ Stage(m) = "count" => retryKey[m] < failed[m]
        /\ Stage(m) = "dlq" \/ dlq[m] > 0 => Earned(m)

(* What the budget for failures gains with an error answer, a stop and an  *)
(* expired counter.                                                        *)
LEMMA BudgetGrows ==
    ASSUME NEW r \in Nat \ {0}, NEW f \in Nat, NEW s \in Nat, NEW l \in Nat,
           NEW e \in {f, f + 1}, NEW t \in {s, s + 1}, NEW k \in {l, l + 1}
    PROVE  /\ r * (1 + f + l) + s + f \in Nat /\ r * (1 + e + k) + t + e \in Nat
           /\ r * (1 + e + k) + t + e
                >= r * (1 + f + l) + s + f + (t - s)
                     + (IF e = f + 1 THEN r + 1 ELSE 0) + (IF k = l + 1 THEN r ELSE 0)
<1>1. PICK n \in Nat : n = 1 + f + l
  OBVIOUS
<1>2. r * n \in Nat /\ r * (n + 1) = r * n + r /\ r * (n + 2) = r * n + r + r
  BY SMT
<1>3. PICK a \in Nat : a = r * n
  BY <1>2
<1>4. /\ 1 + f + l = n
      /\ 1 + e + k = IF e = f + 1 THEN IF k = l + 1 THEN n + 2 ELSE n + 1
                     ELSE IF k = l + 1 THEN n + 1 ELSE n
  BY <1>1, SMT
<1>5. /\ r * (1 + f + l) = a
      /\ r * (1 + e + k) = IF e = f + 1 THEN IF k = l + 1 THEN a + r + r ELSE a + r
                           ELSE IF k = l + 1 THEN a + r ELSE a
  BY <1>2, <1>3, <1>4
<1> DEFINE old == r * (1 + f + l)
           new == r * (1 + e + k)
<1>6. /\ old = a
      /\ new = IF e = f + 1 THEN IF k = l + 1 THEN a + r + r ELSE a + r
               ELSE IF k = l + 1 THEN a + r ELSE a
  BY <1>5
<1> HIDE DEF old, new
<1>7. /\ old + s + f \in Nat /\ new + t + e \in Nat
      /\ new + t + e >= old + s + f + (t - s)
                          + (IF e = f + 1 THEN r + 1 ELSE 0) + (IF k = l + 1 THEN r ELSE 0)
  BY <1>6, SMT
<1> QED
  BY <1>7 DEF old, new

(* The price of a step.                                                    *)
LEMMA Prices ==
    ASSUME TypeOK, [Next]_vars
    PROVE  /\ faults \in Nat /\ stops \in Nat /\ lapses \in Nat /\ MaxRetries \in Nat \ {0}
           /\ faults' \in {faults, faults + 1} /\ stops' \in {stops, stops + 1}
           /\ Budget \in Nat /\ Budget' \in Nat
           /\ Budget' >= Budget + (stops' - stops) + (IF Errors THEN MaxRetries + 1 ELSE 0)
                             + (IF lapses' = lapses + 1 THEN MaxRetries ELSE 0)
<1>1. faults \in Nat /\ stops \in Nat /\ lapses \in Nat /\ MaxRetries \in Nat \ {0}
  BY GroupAssumption DEF TypeOK, GroupTypeOK
<1>2. /\ faults' \in {faults, faults + 1} /\ stops' \in {stops, stops + 1}
      /\ lapses' \in {lapses, lapses + 1}
  BY DEF Next, GroupNext, Work, Start, ReadPending, ReadNew, Return, Reject, HandlerSucceeds,
         HandlerFails, CountAttempt, Backoff, RouteToDLQ, Ack, ClearRetries, Cancel, Crash,
         RetryKeyLapses, AppendEntry, vars, groupVars, Ok, Lost, Failed, Fault
<1> DEFINE Grown(r, f, s, l, e, t, k) ==
             /\ r * (1 + f + l) + s + f \in Nat /\ r * (1 + e + k) + t + e \in Nat
             /\ r * (1 + e + k) + t + e
                  >= r * (1 + f + l) + s + f + (t - s)
                       + (IF e = f + 1 THEN r + 1 ELSE 0) + (IF k = l + 1 THEN r ELSE 0)
<1>3. \A r \in Nat \ {0}, f, s, l \in Nat :
        \A e \in {f, f + 1}, t \in {s, s + 1}, k \in {l, l + 1} : Grown(r, f, s, l, e, t, k)
  BY BudgetGrows, Zenon
<1>4. Grown(MaxRetries, faults, stops, lapses, faults', stops', lapses')
  <2> HIDE DEF Grown
  <2> QED
    BY <1>1, <1>2, <1>3, Zenon
<1> QED
  BY <1>1, <1>2, <1>4, Zenon DEF Budget, Errors

(* What a message has at most is worth something only where it is.         *)
LEMMA Worths ==
    ASSUME TypeOK, NEW m \in Msgs
    PROVE  /\ Worth(m) \in 0..2 /\ Left(m) \in 1..MaxRetries
           /\ retryKey[m] \in Nat /\ ran[m] \in Nat /\ dlq[m] \in Nat /\ failed[m] \in Nat
<1>1. MaxRetries \in Nat \ {0}
  BY GroupAssumption
<1>2. retryKey[m] \in Nat /\ ran[m] \in Nat /\ dlq[m] \in Nat /\ failed[m] \in Nat
  BY DEF TypeOK, GroupTypeOK
<1>3. Worth(m) \in 0..2
  BY DEF Worth, Once
<1> QED
  BY <1>1, <1>2, <1>3, SMT DEF Left

LEMMA WorkingIsRead ==
    ASSUME TypeOK, OwnedInv, NEW m \in Msgs, Stage(m) \in Working
    PROVE  m <= lastId /\ m <= Len(stream) /\ m \in Nat /\ Len(stream) \in Nat
<1>1. owner[m] \in Consumers /\ Holds(owner[m], m)
  BY DEF Stage, Working, TypeOK, GroupTypeOK
<1>2. m <= lastId
  BY <1>1 DEF OwnedInv, OwnerInv, Holds
<1> QED
  BY <1>2 DEF TypeOK, GroupTypeOK, Msgs

(* Sums of a state and of its successor.                                   *)
LEMMA Sums ==
    ASSUME NEW a \in Nat, NEW b \in Nat, NEW w \in Nat, NEW s \in Nat, NEW f \in Nat,
           NEW a1 \in Nat, NEW b1 \in Nat, NEW w1 \in Nat, NEW t \in {s, s + 1}, NEW e \in {f, f + 1},
           a + b + w <= 1 + s + f,
           \/ a1 = a /\ b1 = b /\ (w1 <= w \/ (w1 = w + 1 /\ (t = s + 1 \/ e = f + 1)))
           \/ a1 = a + 1 /\ b1 = b /\ w = w1 + 1
           \/ a1 = a /\ b1 = b + 1 /\ w = w1 + 1
    PROVE  a1 + b1 + w1 <= 1 + t + e
BY SMT

LEMMA RedeliveryStep ==
    ASSUME TypeOK, TypeOK', OwnedInv, RedeliveryInv, [Next]_vars
    PROVE  RedeliveryInv'
<1> SUFFICES ASSUME NEW m \in Msgs
             PROVE  ran'[m] + dlq'[m] + Worth(m)' <= 1 + stops' + faults'
  BY DEF RedeliveryInv
<1>1. ran[m] + dlq[m] + Worth(m) <= 1 + stops + faults
  BY DEF RedeliveryInv
<1>2. /\ ran[m] \in Nat /\ dlq[m] \in Nat /\ ran'[m] \in Nat /\ dlq'[m] \in Nat
      /\ Worth(m) \in Nat /\ Worth(m)' \in Nat
  BY DEF TypeOK, GroupTypeOK, Worth, Once
<1>3. /\ faults \in Nat /\ stops \in Nat
      /\ faults' \in {faults, faults + 1} /\ stops' \in {stops, stops + 1}
  BY Prices
<1>4. LifeStep(m)
  BY LifeSteps
<1>5. \/ /\ ran'[m] = ran[m] /\ dlq'[m] = dlq[m]
         /\ \/ Worth(m)' <= Worth(m)
            \/ Worth(m)' = Worth(m) + 1 /\ (stops' = stops + 1 \/ faults' = faults + 1)
      \/ ran'[m] = ran[m] + 1 /\ dlq'[m] = dlq[m] /\ Worth(m) = Worth(m)' + 1
      \/ ran'[m] = ran[m] /\ dlq'[m] = dlq[m] + 1 /\ Worth(m) = Worth(m)' + 1
  BY <1>2, <1>4
  DEF LifeStep, Worth, Once, Stays, Moves, Leaves, Counters, Errors, AfterAttempt, Working
<1> QED
  BY <1>1, <1>2, <1>3, <1>5, Sums

LEMMA BudgetStep ==
    ASSUME TypeOK, TypeOK', OwnedInv, BudgetInv, [Next]_vars
    PROVE  BudgetInv'
<1> SUFFICES ASSUME NEW m \in Msgs
             PROVE  failed'[m] + FailuresLeft(m)' <= Budget'
  BY DEF BudgetInv
<1>1. failed[m] + FailuresLeft(m) <= Budget
  BY DEF BudgetInv
<1>2. /\ retryKey[m] \in Nat /\ retryKey'[m] \in Nat /\ failed[m] \in Nat /\ failed'[m] \in Nat
      /\ MaxRetries \in Nat \ {0}
  BY GroupAssumption DEF TypeOK, GroupTypeOK
<1>3. Left(m) \in 1..MaxRetries /\ Left(m)' \in 1..MaxRetries
  BY <1>2, SMT DEF Left
<1>4. FailuresLeft(m) \in Nat /\ FailuresLeft(m)' \in Nat
  BY <1>2, <1>3, SMT DEF FailuresLeft, Once
<1>5. LifeStep(m)
  BY LifeSteps
<1>6. /\ retryKey'[m] = retryKey[m] => Left(m)' = Left(m)
      /\ ~ retryKey[m] < MaxRetries => Left(m) = 1
      /\ retryKey'[m] = retryKey[m] + 1 =>
           /\ Left(m)' <= Left(m)
           /\ retryKey'[m] < MaxRetries => Left(m)' = Left(m) - 1
  BY <1>2, SMT DEF Left
<1>7. \/ failed'[m] = failed[m] /\ FailuresLeft(m)' <= FailuresLeft(m)
      \/ failed'[m] = failed[m] + 1 /\ FailuresLeft(m) = FailuresLeft(m)' + 1
      \/ failed'[m] = failed[m] /\ stops' = stops + 1 /\ FailuresLeft(m)' <= FailuresLeft(m) + 1
      \/ failed'[m] = failed[m] /\ Errors /\ FailuresLeft(m)' <= FailuresLeft(m) + MaxRetries + 1
      \/ failed'[m] = failed[m] /\ lapses' = lapses + 1 /\ FailuresLeft(m)' <= FailuresLeft(m) + MaxRetries
  <2> USE <1>2, <1>3, <1>6 DEF FailuresLeft, Once, Stays, Moves, Leaves, Counters
  <2>2. CASE Stage(m) = "count"
    BY <1>5, <2>2 DEF LifeStep, AfterAttempt, Exhausted, Working
  <2>3. CASE Stage(m) = "clear"
    BY <1>5, <2>3 DEF LifeStep, AfterAttempt, Working
  <2>4. CASE Stage(m) \in {"dlq", "ack"}
    BY <1>5, <2>4 DEF LifeStep, AfterAttempt, Working
  <2>5. CASE Stage(m) \in {"run", "backoff"}
    BY <1>5, <2>5 DEF LifeStep, AfterAttempt, Working
  <2>6. CASE Stage(m) \in {"free", "acked"} \/ Stage(m) \notin Working
    BY <1>5, <2>6 DEF LifeStep, AfterAttempt, Working
  <2> QED
    BY <2>2, <2>3, <2>4, <2>5, <2>6 DEF Working
<1> QED
  BY <1>1, <1>2, <1>4, <1>7, Prices

LEMMA EarnedStep ==
    ASSUME TypeOK, TypeOK', OwnedInv, EarnedInv, [Next]_vars
    PROVE  EarnedInv'
<1> SUFFICES ASSUME NEW m \in Msgs
             PROVE  /\ retryKey'[m] <= failed'[m]
                    /\ Stage(m)' = "count" => retryKey'[m] < failed'[m]
                    /\ Stage(m)' = "dlq" \/ dlq'[m] > 0 => Earned(m)'
  BY DEF EarnedInv
<1>1. /\ retryKey[m] <= failed[m]
      /\ Stage(m) = "count" => retryKey[m] < failed[m]
      /\ Stage(m) = "dlq" \/ dlq[m] > 0 => Earned(m)
  BY DEF EarnedInv
<1>2. /\ retryKey[m] \in Nat /\ failed[m] \in Nat /\ dlq[m] \in Nat
      /\ retryKey'[m] \in Nat /\ failed'[m] \in Nat /\ dlq'[m] \in Nat
      /\ MaxRetries \in Nat \ {0}
  BY GroupAssumption DEF TypeOK, GroupTypeOK
<1>3. LifeStep(m)
  BY LifeSteps
<1>4. failed'[m] >= failed[m]
  BY <1>2, <1>3 DEF LifeStep, Counters
<1>5. retryKey'[m] <= failed'[m] /\ (Stage(m)' = "count" => retryKey'[m] < failed'[m])
  BY <1>1, <1>2, <1>3
  DEF LifeStep, Stays, Moves, Leaves, Counters, AfterAttempt, Working
<1>6. Earned(m) => Earned(m)'
  <2>1. CASE stream' = stream
    BY <1>2, <1>4, <2>1 DEF Earned
  <2>2. ASSUME NEW e, stream' = Append(stream, e) PROVE Earned(m) => Earned(m)'
    <3>1. stream \in Seq(Keys \cup {Malformed}) /\ m \in Nat \ {0}
      BY DEF TypeOK, Msgs
    <3>2. m <= Len(stream) => m <= Len(stream') /\ stream'[m] = stream[m]
      BY <2>2, <3>1
    <3> QED
      BY <1>2, <1>4, <3>2 DEF Earned
  <2>3. stream' = stream \/ \E e \in Keys \cup {Malformed} : stream' = Append(stream, e)
    BY DEF Next, GroupNext, Work, Start, ReadPending, ReadNew, Return, Reject, HandlerSucceeds,
           HandlerFails, CountAttempt, Backoff, RouteToDLQ, Ack, ClearRetries, Cancel, Crash,
           RetryKeyLapses, AppendEntry, vars
  <2> QED
    BY <2>1, <2>2, <2>3
<1>7. Stage(m) \in Working => m <= Len(stream)
  BY WorkingIsRead
<1>8. \/ Stage(m) = "dlq" \/ dlq[m] > 0
      \/ ~ (Stage(m)' = "dlq" \/ dlq'[m] > 0)
      \/ Stage(m) = "run" /\ Stage(m)' = "dlq" /\ stream[m] = Malformed
      \/ Stage(m) = "count" /\ Stage(m)' = "dlq" /\ retryKey[m] + 1 >= MaxRetries
  BY <1>2, <1>3
  DEF LifeStep, Stays, Moves, Leaves, Counters, AfterAttempt, Exhausted, Working
<1>9. CASE Stage(m) = "run" /\ stream[m] = Malformed
  BY <1>5, <1>6, <1>7, <1>9 DEF Earned, Working
<1>10. CASE Stage(m) = "count" /\ retryKey[m] + 1 >= MaxRetries
  <2>1. Earned(m)
    BY <1>1, <1>2, <1>7, <1>10 DEF Earned, Working
  <2> QED
    BY <1>5, <1>6, <2>1
<1> QED
  BY <1>1, <1>5, <1>6, <1>8, <1>9, <1>10

-----------------------------------------------------------------------------
LEMMA TriesInit == Init => RedeliveryInv /\ BudgetInv /\ EarnedInv
<1> SUFFICES ASSUME Init PROVE RedeliveryInv /\ BudgetInv /\ EarnedInv
  OBVIOUS
<1>1. /\ MaxRetries \in Nat \ {0} /\ faults = 0 /\ stops = 0 /\ lapses = 0
      /\ \A m \in Msgs : /\ Stage(m) = "free" /\ ~ Doomed(m) /\ retryKey[m] = 0
                         /\ ran[m] = 0 /\ dlq[m] = 0 /\ failed[m] = 0
  BY GroupAssumption DEF Init, GroupInit, Stage, Doomed, Msgs
<1>2. MaxRetries * (1 + 0 + 0) = MaxRetries
  BY <1>1, SMT
<1> QED
  BY <1>1, <1>2 DEF RedeliveryInv, BudgetInv, EarnedInv, Worth, FailuresLeft, Left, Once, Budget

LEMMA TriesHold == Spec => [](TypeOK /\ RedeliveryInv /\ BudgetInv /\ EarnedInv)
<1>1. Init => OwnerInv /\ ExclusiveInv
  BY DEF Init, GroupInit, OwnerInv, ExclusiveInv
<1>2. TypeOK /\ BatchInv /\ TypeOK' /\ OwnerInv /\ ExclusiveInv /\ [Next]_vars
          => (OwnerInv /\ ExclusiveInv)'
  BY OwnersKept DEF OwnedInv, PcBatchInv, TypeOK, GroupTypeOK
<1>3. /\ TypeOK /\ BatchInv /\ TypeOK' /\ OwnerInv /\ ExclusiveInv
      /\ RedeliveryInv /\ BudgetInv /\ EarnedInv /\ [Next]_vars
      => (RedeliveryInv /\ BudgetInv /\ EarnedInv)'
  BY RedeliveryStep, BudgetStep, EarnedStep DEF OwnedInv, PcBatchInv, TypeOK, GroupTypeOK
<1> QED
  BY <1>1, <1>2, <1>3, TriesInit, TypeCorrect, PTL DEF Spec

(* How often a message is tried: a handler fails at most maxRetries times  *)
(* on it but for stops, error answers and counters that expire, it is      *)
(* handled or dead-lettered once but for stops and error answers, and      *)
(* dead-lettered only if that is earned - whatever the number of           *)
(* subscribers, messages, retries and faults.                              *)
THEOREM TriesAreAccountedFor == Spec => []TriesAccountedFor
<1>1. TypeOK /\ RedeliveryInv /\ BudgetInv /\ EarnedInv => TriesAccountedFor
  <2> SUFFICES ASSUME TypeOK, RedeliveryInv, BudgetInv, EarnedInv PROVE TriesAccountedFor
    OBVIOUS
  <2>1. ASSUME NEW m \in Msgs
        PROVE  /\ failed[m] <= MaxRetries * (1 + faults + lapses) + stops + faults
               /\ ran[m] + dlq[m] <= 1 + stops + faults
    <3>1. /\ ran[m] \in Nat /\ dlq[m] \in Nat /\ failed[m] \in Nat /\ faults \in Nat /\ stops \in Nat
          /\ Worth(m) \in Nat /\ Left(m) \in 1..MaxRetries /\ MaxRetries \in Nat \ {0}
      <4>1. faults \in Nat /\ stops \in Nat /\ MaxRetries \in Nat \ {0}
        BY GroupAssumption DEF TypeOK, GroupTypeOK
      <4>2. /\ Worth(m) \in 0..2 /\ Left(m) \in 1..MaxRetries
            /\ ran[m] \in Nat /\ dlq[m] \in Nat /\ failed[m] \in Nat
        BY <2>1, Worths
      <4>3. Worth(m) \in Nat
        BY <4>2
      <4> QED
        BY <4>1, <4>2, <4>3
    <3>2. FailuresLeft(m) \in Nat
      BY <3>1 DEF FailuresLeft, Once
    <3>3. ran[m] + dlq[m] + Worth(m) <= 1 + stops + faults /\ failed[m] + FailuresLeft(m) <= Budget
      BY DEF RedeliveryInv, BudgetInv
    <3>4. Budget \in Nat
      <4>1. lapses \in Nat
        BY GroupAssumption DEF TypeOK, GroupTypeOK
      <4> QED
        BY <3>1, <4>1, BudgetGrows, Zenon DEF Budget
    <3>5. failed[m] <= Budget
      BY <3>1, <3>2, <3>3, <3>4, SMT
    <3>6. ran[m] + dlq[m] <= 1 + stops + faults
      BY <3>1, <3>3, SMT
    <3> QED
      BY <3>5, <3>6 DEF Budget
  <2>2. ASSUME NEW m \in 1..Len(stream), dlq[m] > 0
        PROVE  stream[m] = Malformed \/ failed[m] >= MaxRetries
    <3>1. m \in Msgs
      BY GroupAssumption DEF TypeOK, Msgs
    <3> QED
      BY <2>2, <3>1 DEF EarnedInv, Earned
  <2> QED
    BY <2>1, <2>2 DEF TriesAccountedFor, RetryBudget, BoundedRedelivery, DeadLettersEarned
<1> QED
  BY <1>1, TriesHold, PTL
-----------------------------------------------------------------------------
(* The bus.                                                                *)

(* An idempotency key in Redis, or a publisher that is entitled to add the *)
(* event, stands for one copy that is still to come.                       *)
Free(k) == IF k \in idem THEN 0 ELSE 1
Paid(k) ==
    /\ IsFiniteSet(P!Holders(k))
    /\ P!Copies(k) + Cardinality(P!Holders(k)) + Free(k) <= 1 + lost[k] + expired[k]
PaidInv == \A k \in Keys \ PlainKeys : Paid(k)

(* Until a publisher is interrupted or a command on the key fails, a key   *)
(* is held for a publisher at work or for an event in the stream.          *)
HeldInv ==
    keyFaults = 0 /\ ends = 0 =>
        /\ ended = {}
        /\ \A k \in idem : P!InStream(k) \/ P!Holders(k) # {}

-----------------------------------------------------------------------------
LEMMA PublishInitType ==
    ASSUME Init, P!PublishInit
    PROVE  P!TypeOK
BY GroupAssumption, BusAssumption
DEF Init, P!PublishInit, P!TypeOK, P!PublishTypeOK, P!Answers

(* A publisher either leaves the stream alone or adds a key to it.         *)
LEMMA PublisherStream ==
    ASSUME P!TypeOK, P!PublishNext
    PROVE  \/ stream' = stream
           \/ \E k \in Keys : Len(stream) < MaxMsgs /\ stream' = Append(stream, k)
<1>1. \A p \in Publishers : key[p] \in Keys
  BY DEF P!TypeOK, P!PublishTypeOK
<1> QED
  BY <1>1
  DEF P!PublishNext, P!Publish, P!SetKey, P!Add, P!Rollback, P!EndContext, P!NewContext,
      P!Die, P!Expire

LEMMA PublishTypeStep ==
    ASSUME P!TypeOK, P!PublishNext
    PROVE  P!TypeOK'
<1> USE BusAssumption DEF P!TypeOK, P!PublishTypeOK, P!faultCounts, P!Answers
<1>1. stream' \in Seq(Keys \cup {Malformed}) /\ Len(stream') <= MaxMsgs
  <2>1. ASSUME NEW k \in Keys, Len(stream) < MaxMsgs, stream' = Append(stream, k)
        PROVE  stream' \in Seq(Keys \cup {Malformed}) /\ Len(stream') <= MaxMsgs
    BY <2>1, AppendType, GroupAssumption
  <2> QED
    BY <2>1, PublisherStream
<1>2. ASSUME NEW call \in P!Calls, P!Fault(call)
      PROVE  pubFaults' \in 0..MaxPublishFaults /\ keyFaults' \in 0..pubFaults'
  BY <1>2 DEF P!Fault
<1>3. ASSUME NEW p \in Publishers, NEW k \in Keys, P!Publish(p, k) \/ P!SetKey(p, k)
      PROVE  P!PublishTypeOK'
  <2>1. CASE P!Publish(p, k)
    <3>1. pubFaults' \in 0..MaxPublishFaults /\ keyFaults' \in 0..pubFaults'
      BY <1>2, <2>1 DEF P!Publish, P!Ok, P!Lost, P!Failed, P!Calls
    <3>2. \E a \in P!Answers : P!Answer(p, a)
      BY <2>1 DEF P!Publish
    <3> QED
      BY <2>1, <3>1, <3>2 DEF P!Publish, P!Answer
  <2>2. CASE P!SetKey(p, k)
    <3>1. pubFaults' \in 0..MaxPublishFaults /\ keyFaults' \in 0..pubFaults'
      BY <1>2, <2>2 DEF P!SetKey, P!Ok, P!Lost, P!Failed, P!Calls
    <3>2. P!Continue(p, "publish") \/ \E a \in P!Answers : P!Answer(p, a)
      BY <2>2 DEF P!SetKey
    <3>3. idem' \in {idem, idem \cup {k}}
      BY <2>2 DEF P!SetKey
    <3> QED
      BY <2>2, <3>1, <3>2, <3>3 DEF P!SetKey, P!Answer, P!Continue
  <2> QED
    BY <1>3, <2>1, <2>2
<1>4. ASSUME NEW p \in Publishers, P!Add(p) PROVE P!PublishTypeOK'
  <2>1. pubFaults' \in 0..MaxPublishFaults /\ keyFaults' \in 0..pubFaults'
    BY <1>2, <1>4 DEF P!Add, P!Ok, P!Lost, P!Failed, P!Calls
  <2>2. P!Continue(p, "rollback") \/ P!Answer(p, "ok")
    BY <1>4 DEF P!Add
  <2>3. lost' \in [Keys -> Nat]
    BY <1>4 DEF P!Add
  <2> QED
    BY <1>4, <2>1, <2>2, <2>3 DEF P!Add, P!Answer, P!Continue
<1>5. ASSUME NEW p \in Publishers, P!Rollback(p) PROVE P!PublishTypeOK'
  <2>1. pubFaults' \in 0..MaxPublishFaults /\ keyFaults' \in 0..pubFaults'
    BY <1>2, <1>5 DEF P!Rollback, P!Ok, P!Lost, P!Failed, P!Calls
  <2> QED
    BY <1>5, <2>1 DEF P!Rollback, P!Answer, P!Freed
<1>6. ASSUME NEW p \in Publishers, P!EndContext(p) \/ P!NewContext(p) \/ P!Die(p)
      PROVE  P!PublishTypeOK'
  <2>1. CASE P!EndContext(p)
    BY <2>1 DEF P!EndContext
  <2>2. CASE P!NewContext(p)
    BY <2>2 DEF P!NewContext
  <2>3. CASE P!Die(p)
    BY <2>3 DEF P!Die
  <2> QED
    BY <1>6, <2>1, <2>2, <2>3
<1>7. ASSUME NEW k \in Keys, P!Expire(k) PROVE P!PublishTypeOK'
  BY <1>7 DEF P!Expire
<1> QED
  BY <1>1, <1>3, <1>4, <1>5, <1>6, <1>7 DEF P!PublishNext

(* The rest of the bus leaves the publishers alone.                        *)
LEMMA OtherSteps ==
    ASSUME P!TypeOK, [BusNext]_busVars
    PROVE  P!PublishNext \/ (UNCHANGED pubVars /\ (stream' = stream \/ AppendEntry(Malformed)))
BY DEF BusNext, busVars, vars, PublisherStep, SubscriberStep, ForeignWriter, GroupNext, Work,
       Start, ReadPending, ReadNew, Return, Reject, HandlerSucceeds, HandlerFails,
       CountAttempt, Backoff, RouteToDLQ, Ack, ClearRetries, Cancel, Crash, RetryKeyLapses

LEMMA BusTypeStep ==
    ASSUME P!TypeOK, [BusNext]_busVars
    PROVE  P!TypeOK'
<1>1. CASE UNCHANGED pubVars /\ (stream' = stream \/ AppendEntry(Malformed))
  <2>1. stream' \in Seq(Keys \cup {Malformed}) /\ Len(stream') <= MaxMsgs
    BY <1>1, GroupAssumption DEF P!TypeOK, AppendEntry
  <2> QED
    BY <1>1, <2>1 DEF P!TypeOK, P!PublishTypeOK, pubVars
<1> QED
  BY <1>1, OtherSteps, PublishTypeStep

(* Every step of the bus is one the group knows: a publisher is a writer   *)
(* of the stream like any other.                                           *)
LEMMA BusSteps ==
    ASSUME P!TypeOK, [BusNext]_busVars
    PROVE  [Next]_vars
<1>1. CASE P!PublishNext /\ UNCHANGED groupVars
  BY <1>1, PublisherStream DEF Next, AppendEntry, vars
<1> QED
  BY <1>1 DEF BusNext, busVars, PublisherStep, SubscriberStep, ForeignWriter, Next, vars

LEMMA BusTypes == BusSpec => []P!TypeOK
<1>1. BusInit => P!TypeOK
  BY PublishInitType DEF BusInit
<1>2. P!TypeOK /\ [BusNext]_busVars => P!TypeOK'
  BY BusTypeStep
<1> QED
  BY <1>1, <1>2, PTL DEF BusSpec

(* The bus is a consumer group to whoever does not see its publishers, so  *)
(* that all that is proved of the group is true of the bus.                *)
THEOREM BusIsAGroup == BusSpec => Spec
<1>1. BusInit => Init
  BY DEF BusInit
<1>2. P!TypeOK /\ [BusNext]_busVars => [Next]_vars
  BY BusSteps
<1> QED
  BY <1>1, <1>2, BusTypes, PTL DEF BusSpec, Spec

-----------------------------------------------------------------------------
(* An entry more is a copy more of the event it is about, and of no other. *)
At(s, k) == {i \in DOMAIN s : s[i] = k}

LEMMA CopiesGrow ==
    ASSUME NEW S, NEW s \in Seq(S), NEW e \in S, NEW k
    PROVE  /\ Cardinality(At(s, k)) \in Nat
           /\ Cardinality(At(Append(s, e), k)) = Cardinality(At(s, k)) + (IF e = k THEN 1 ELSE 0)
<1>1. Len(s) \in Nat /\ DOMAIN s = 1..Len(s)
  OBVIOUS
<1>2. At(s, k) \subseteq 1..Len(s)
  BY <1>1 DEF At
<1>3. IsFiniteSet(At(s, k))
  <2>1. IsFiniteSet(1..Len(s))
    BY <1>1, FS_Interval
  <2> QED
    BY <1>2, <2>1, FS_Subset
<1>4. Cardinality(At(s, k)) \in Nat
  BY <1>3, FS_CardinalityType
<1>5. Len(s) + 1 \notin At(s, k)
  BY <1>1, <1>2
<1>6. At(Append(s, e), k) = IF e = k THEN At(s, k) \cup {Len(s) + 1} ELSE At(s, k)
  BY <1>1 DEF At
<1>7. CASE e = k
  BY <1>3, <1>4, <1>5, <1>6, <1>7, FS_AddElement
<1>8. CASE e # k
  BY <1>4, <1>6, <1>8
<1> QED
  BY <1>7, <1>8

(* What a step means for the key k: nothing but a publisher that sets the  *)
(* key becomes entitled to add the event, and it does so once.             *)
LEMMA KeySteps ==
    ASSUME P!TypeOK, [BusNext]_busVars, NEW k \in Keys \ PlainKeys
    PROVE  \/ /\ P!Holders(k)' = P!Holders(k)
              /\ stream' = stream \/ \E e \in (Keys \cup {Malformed}) \ {k} : stream' = Append(stream, e)
              /\ idem' \in {idem, idem \cup {k}} \/ (k \in idem <=> k \in idem')
              /\ lost'[k] = lost[k] /\ expired'[k] = expired[k]
           \/ \E p \in Publishers :
                /\ p \notin P!Holders(k) /\ P!Holders(k)' = P!Holders(k) \cup {p}
                /\ k \notin idem /\ k \in idem'
                /\ UNCHANGED <<stream, lost, expired>>
           \/ \E p \in P!Holders(k) :
                /\ P!Holders(k)' = P!Holders(k) \ {p}
                /\ (stream' = Append(stream, k) /\ UNCHANGED idem) \/ stream' = stream
                /\ UNCHANGED <<lost, expired>>
           \/ /\ P!Holders(k)' = P!Holders(k)
              /\ stream' = Append(stream, k) /\ lost'[k] = lost[k] + 1
              /\ UNCHANGED <<idem, expired>>
           \/ /\ P!Holders(k)' = P!Holders(k)
              /\ expired'[k] = expired[k] + 1
              /\ UNCHANGED <<stream, lost>>
<1> USE DEF P!TypeOK, P!PublishTypeOK, P!Holders
<1>1. ASSUME NEW p \in Publishers, NEW e \in Keys, P!Publish(p, e)
      PROVE  /\ P!Holders(k)' = P!Holders(k)
             /\ stream' = stream \/ (e # k /\ stream' = Append(stream, e))
             /\ UNCHANGED <<idem, lost, expired>>
  <2>1. pubPc[p] = "idle" /\ e # k /\ \E a : P!Answer(p, a)
    BY <1>1 DEF P!Publish
  <2>2. key' = key /\ (stream' = stream \/ stream' = Append(stream, e)) /\ UNCHANGED <<idem, lost, expired>>
    BY <1>1 DEF P!Publish
  <2>3. P!Holders(k)' = P!Holders(k)
    BY <2>1, <2>2 DEF P!Answer
  <2> QED
    BY <2>1, <2>2, <2>3
<1>2. ASSUME NEW p \in Publishers, NEW e \in Keys, P!SetKey(p, e)
      PROVE  \/ /\ P!Holders(k)' = P!Holders(k)
                /\ idem' \in {idem, idem \cup {k}} \/ (k \in idem <=> k \in idem')
                /\ UNCHANGED <<stream, lost, expired>>
             \/ /\ p \notin P!Holders(k) /\ P!Holders(k)' = P!Holders(k) \cup {p}
                /\ k \notin idem /\ k \in idem'
                /\ UNCHANGED <<stream, lost, expired>>
  <2>1. CASE P!Continue(p, "publish") /\ e = k /\ ~ P!Taken(e) /\ idem' = idem \cup {e}
    <3>1. p \notin P!Holders(k) /\ P!Holders(k)' = P!Holders(k) \cup {p}
      BY <1>2, <2>1 DEF P!SetKey, P!Continue
    <3> QED
      BY <1>2, <2>1, <3>1 DEF P!SetKey, P!Taken
  <2>2. CASE P!Continue(p, "publish") /\ e # k /\ idem' = idem \cup {e}
    <3>1. P!Holders(k)' = P!Holders(k)
      BY <1>2, <2>2 DEF P!SetKey, P!Continue
    <3> QED
      BY <1>2, <2>2, <3>1 DEF P!SetKey
  <2>3. CASE idem' \in {idem, idem \cup {e}} /\ \E a : P!Answer(p, a)
    <3>1. P!Holders(k)' = P!Holders(k)
      BY <1>2, <2>3 DEF P!SetKey, P!Answer
    <3> QED
      BY <1>2, <2>3, <3>1 DEF P!SetKey
  <2> QED
    BY <1>2, <2>1, <2>2, <2>3 DEF P!SetKey
<1>3. ASSUME NEW p \in Publishers, P!Add(p)
      PROVE  /\ UNCHANGED <<idem, expired>>
             /\ \/ /\ P!Holders(k)' = P!Holders(k)
                   /\ stream' = stream \/ \E e \in (Keys \cup {Malformed}) \ {k} : stream' = Append(stream, e)
                   /\ lost'[k] = lost[k]
                \/ /\ p \in P!Holders(k) /\ P!Holders(k)' = P!Holders(k) \ {p}
                   /\ stream' = Append(stream, k) /\ UNCHANGED lost
                \/ /\ P!Holders(k)' = P!Holders(k)
                   /\ stream' = Append(stream, k) /\ lost'[k] = lost[k] + 1
  <2>1. key[p] \in Keys /\ pubPc[p] = "publish" /\ key' = key /\ UNCHANGED <<idem, expired>>
    BY <1>3 DEF P!Add
  <2>2. CASE P!Continue(p, "rollback")
    <3>1. P!Holders(k)' = P!Holders(k)
      BY <2>1, <2>2 DEF P!Continue
    <3> QED
      BY <1>3, <2>1, <3>1, <2>2 DEF P!Add, P!Continue, P!Answer
  <2>3. CASE P!Answer(p, "ok")
    <3>1. stream' = Append(stream, key[p]) /\ UNCHANGED lost
      BY <1>3, <2>1, <2>3 DEF P!Add, P!Answer, P!Continue
    <3>2. P!Holders(k)' = P!Holders(k) \ {p}
      BY <2>1, <2>3 DEF P!Answer
    <3> QED
      BY <2>1, <3>1, <3>2
  <2> QED
    BY <1>3, <2>2, <2>3 DEF P!Add
<1>4. ASSUME NEW p \in Publishers, P!Rollback(p)
      PROVE  /\ UNCHANGED <<stream, lost, expired>>
             /\ P!Holders(k)' = P!Holders(k) \ {p}
             /\ p \in P!Holders(k) \/ (k \in idem <=> k \in idem')
  BY <1>4 DEF P!Rollback, P!Answer, P!Freed
<1>5. ASSUME NEW p \in Publishers, P!EndContext(p) \/ P!NewContext(p)
      PROVE  P!Holders(k)' = P!Holders(k) /\ UNCHANGED <<stream, idem, lost, expired>>
  BY <1>5 DEF P!EndContext, P!NewContext
<1>6. ASSUME NEW p \in Publishers, P!Die(p)
      PROVE  P!Holders(k)' = P!Holders(k) \ {p} /\ UNCHANGED <<stream, idem, lost, expired>>
  BY <1>6 DEF P!Die
<1>7. ASSUME NEW e \in Keys, P!Expire(e)
      PROVE  /\ P!Holders(k)' = P!Holders(k) /\ UNCHANGED <<stream, lost>>
             /\ \/ expired'[k] = expired[k] + 1
                \/ expired'[k] = expired[k] /\ (k \in idem <=> k \in idem')
  BY <1>7 DEF P!Expire
<1>8. ASSUME UNCHANGED pubVars, stream' = stream \/ AppendEntry(Malformed)
      PROVE  /\ P!Holders(k)' = P!Holders(k) /\ UNCHANGED <<idem, lost, expired>>
             /\ stream' = stream \/ \E e \in (Keys \cup {Malformed}) \ {k} : stream' = Append(stream, e)
  BY <1>8, GroupAssumption DEF pubVars, AppendEntry
<1> QED
  <2>1. CASE P!PublishNext
    BY <2>1, <1>1, <1>2, <1>3, <1>4, <1>5, <1>6, <1>7 DEF P!PublishNext
  <2> QED
    BY <2>1, <1>8, OtherSteps

(* Cardinality as the publishers' module sees it.                          *)
LEMMA SameCardinality == \A S : P!Cardinality(S) = Cardinality(S)
BY Zenon DEF P!Cardinality, Cardinality

LEMMA PaidStep ==
    ASSUME P!TypeOK, P!TypeOK', PaidInv, [BusNext]_busVars
    PROVE  PaidInv'
<1> SUFFICES ASSUME NEW k \in Keys \ PlainKeys PROVE Paid(k)'
  BY DEF PaidInv
<1>1. Paid(k)
  BY DEF PaidInv
<1> DEFINE c == P!Copies(k)  c1 == P!Copies(k)'
           h == Cardinality(P!Holders(k))  h1 == Cardinality(P!Holders(k)')
<1>2. /\ lost[k] \in Nat /\ expired[k] \in Nat /\ lost'[k] \in Nat /\ expired'[k] \in Nat
      /\ Free(k) \in 0..1 /\ Free(k)' \in 0..1
      /\ stream \in Seq(Keys \cup {Malformed})
  BY DEF P!TypeOK, P!PublishTypeOK, Free
<1>3. /\ c \in Nat
      /\ stream' = stream => c1 = c
      /\ stream' = Append(stream, k) => c1 = c + 1
      /\ \A e \in (Keys \cup {Malformed}) \ {k} : stream' = Append(stream, e) => c1 = c
  <2>1. c = Cardinality(At(stream, k)) /\ c1 = Cardinality(At(stream', k))
    <3>1. At(stream, k) = {i \in DOMAIN stream : stream[i] = k}
      BY DEF At
    <3>2. At(stream', k) = {i \in DOMAIN stream' : stream'[i] = k}
      BY DEF At
    <3>3. c = Cardinality(At(stream, k))
      BY <3>1, Zenon, SameCardinality DEF P!Copies
    <3>4. c1 = Cardinality(At(stream', k))
      BY <3>2, Zenon, SameCardinality DEF P!Copies
    <3> QED
      BY <3>3, <3>4
  <2>2. ASSUME NEW e \in Keys \cup {Malformed}
        PROVE  /\ c \in Nat
               /\ stream' = Append(stream, e) => c1 = c + (IF e = k THEN 1 ELSE 0)
    <3>1. /\ Cardinality(At(stream, k)) \in Nat
          /\ Cardinality(At(Append(stream, e), k)) = Cardinality(At(stream, k)) + (IF e = k THEN 1 ELSE 0)
      BY <1>2, CopiesGrow, SMTT(30)
    <3> HIDE DEF c, c1
    <3> QED
      BY <2>1, <3>1
  <2>3. stream' = stream => c1 = c
    BY <2>1
  <2> HIDE DEF c, c1
  <2> QED
    BY <2>2, <2>3, SMT
<1>4. IsFiniteSet(P!Holders(k)) /\ h \in Nat
  BY <1>1, FS_CardinalityType DEF Paid
<1>5. \/ P!Holders(k)' = P!Holders(k)
      \/ \E p : p \notin P!Holders(k) /\ P!Holders(k)' = P!Holders(k) \cup {p}
      \/ \E p \in P!Holders(k) : P!Holders(k)' = P!Holders(k) \ {p}
  BY KeySteps
<1>6. IsFiniteSet(P!Holders(k)')
  BY <1>4, <1>5, FS_AddElement, FS_RemoveElement
<1>7. h1 \in Nat
  BY <1>6, FS_CardinalityType
<1>8. /\ \A p : p \notin P!Holders(k) /\ P!Holders(k)' = P!Holders(k) \cup {p} => h1 = h + 1
      /\ \A p \in P!Holders(k) : P!Holders(k)' = P!Holders(k) \ {p} => h = h1 + 1
  BY <1>4, <1>7, FS_AddElement, FS_RemoveElement
<1>9. \/ c1 = c /\ h1 = h /\ Free(k)' <= Free(k) /\ lost'[k] = lost[k] /\ expired'[k] = expired[k]
      \/ c1 = c /\ h1 = h + 1 /\ Free(k) = 1 /\ Free(k)' = 0 /\ lost'[k] = lost[k] /\ expired'[k] = expired[k]
      \/ /\ c1 = c \/ (c1 = c + 1 /\ Free(k)' = Free(k))
         /\ h = h1 + 1 /\ lost'[k] = lost[k] /\ expired'[k] = expired[k]
      \/ c1 = c + 1 /\ h1 = h /\ Free(k)' = Free(k) /\ lost'[k] = lost[k] + 1 /\ expired'[k] = expired[k]
      \/ c1 = c /\ h1 = h /\ lost'[k] = lost[k] /\ expired'[k] = expired[k] + 1
  <2> HIDE DEF c, c1, h, h1
  <2>1. P!Holders(k)' = P!Holders(k) => h1 = h
    BY DEF h, h1
  <2> QED
    BY KeySteps, <1>2, <1>3, <1>8, <2>1 DEF Free
<1>10. c + h + Free(k) <= 1 + lost[k] + expired[k]
  BY <1>1 DEF Paid
<1>11. c1 + h1 + Free(k)' <= 1 + lost'[k] + expired'[k]
  <2> DEFINE f == Free(k)  f1 == Free(k)'  l == lost[k]  l1 == lost'[k]
             x == expired[k]  x1 == expired'[k]
  <2>1. /\ c \in Nat /\ h \in Nat /\ h1 \in Nat /\ f \in 0..1 /\ f1 \in 0..1
        /\ l \in Nat /\ l1 \in Nat /\ x \in Nat /\ x1 \in Nat
    BY <1>2, <1>3, <1>4, <1>7
  <2>2. c + h + f <= 1 + l + x
    BY <1>10
  <2>3. \/ c1 = c /\ h1 = h /\ f1 <= f /\ l1 = l /\ x1 = x
        \/ c1 = c /\ h1 = h + 1 /\ f = 1 /\ f1 = 0 /\ l1 = l /\ x1 = x
        \/ (c1 = c \/ (c1 = c + 1 /\ f1 = f)) /\ h = h1 + 1 /\ l1 = l /\ x1 = x
        \/ c1 = c + 1 /\ h1 = h /\ f1 = f /\ l1 = l + 1 /\ x1 = x
        \/ c1 = c /\ h1 = h /\ l1 = l /\ x1 = x + 1
    BY <1>9, Zenon
  <2> HIDE DEF c, c1, h, h1, f, f1, l, l1, x, x1
  <2>4. c1 + h1 + f1 <= 1 + l1 + x1
    BY <2>1, <2>2, <2>3, SMT
  <2> QED
    BY <2>4 DEF f1, l1, x1
<1> HIDE DEF c1, h1
<1> QED
  BY <1>6, <1>11, SameCardinality DEF Paid, c1, h1

LEMMA HeldStep ==
    ASSUME P!TypeOK, P!TypeOK', HeldInv, [BusNext]_busVars
    PROVE  HeldInv'
<1> SUFFICES ASSUME keyFaults' = 0, ends' = 0
             PROVE  /\ ended' = {}
                    /\ \A k \in idem' : P!InStream(k)' \/ P!Holders(k)' # {}
  BY DEF HeldInv
<1> USE DEF P!TypeOK, P!PublishTypeOK
<1>1. keyFaults = 0 /\ ends = 0
  <2>1. CASE UNCHANGED pubVars
    BY <2>1 DEF pubVars
  <2>2. CASE P!PublishNext
    BY <2>2 DEF P!PublishNext, P!Publish, P!SetKey, P!Add, P!Rollback, P!EndContext, P!NewContext,
      P!Die, P!Expire, P!Ok, P!Lost, P!Failed, P!Fault, P!faultCounts
  <2> QED
    BY <2>1, <2>2, OtherSteps
<1>2. ended = {} /\ \A k \in idem : P!InStream(k) \/ P!Holders(k) # {}
  BY <1>1 DEF HeldInv
<1>3. \A k \in Keys : P!InStream(k) => P!InStream(k)'
  <2>1. ASSUME NEW e \in Keys \cup {Malformed}, stream' = Append(stream, e)
        PROVE  \A k \in Keys : P!InStream(k) => P!InStream(k)'
    <3>1. \A i \in DOMAIN stream : i \in DOMAIN stream' /\ stream'[i] = stream[i]
      BY <2>1
    <3> QED
      BY <3>1 DEF P!InStream
  <2>2. stream' = stream \/ \E e \in Keys \cup {Malformed} : stream' = Append(stream, e)
    BY OtherSteps, PublisherStream DEF AppendEntry
  <2> QED
    BY <2>1, <2>2 DEF P!InStream
<1>4. ended' = {}
  <2>1. CASE P!PublishNext
    <3>1. ASSUME NEW p \in Publishers, P!EndContext(p) \/ P!Die(p) PROVE FALSE
      BY <1>1, <3>1 DEF P!EndContext, P!Die
    <3>2. ended' \subseteq ended
      BY <2>1, <3>1
      DEF P!PublishNext, P!Publish, P!SetKey, P!Add, P!Rollback, P!NewContext, P!Expire
    <3> QED
      BY <1>2, <3>2
  <2>2. CASE UNCHANGED pubVars
    BY <1>2, <2>2 DEF pubVars
  <2> QED
    BY <2>1, <2>2, OtherSteps
(* Whoever leaves its key behind has added the event or takes the key back.*)
<1>5. ASSUME NEW p \in Publishers, NEW e \in Keys, P!Publish(p, e) \/ P!SetKey(p, e)
      PROVE  \A k \in idem' : \/ k \in idem /\ P!Holders(k) \subseteq P!Holders(k)'
                              \/ p \in P!Holders(k)'
  <2>1. CASE P!Publish(p, e)
    BY <1>5, <2>1 DEF P!Publish, P!Answer, P!Holders
  <2>2. CASE P!SetKey(p, e)
    <3>1. pubPc[p] = "idle" /\ key' = [key EXCEPT ![p] = e]
      BY <2>2 DEF P!SetKey
    <3>2. \A k \in Keys : P!Holders(k) \subseteq P!Holders(k)'
      BY <2>2, <3>1 DEF P!SetKey, P!Answer, P!Continue, P!Holders
    <3>3. CASE P!Continue(p, "publish") /\ idem' = idem \cup {e}
      <4>1. p \in P!Holders(e)'
        BY <3>1, <3>3 DEF P!Continue, P!Holders
      <4> QED
        BY <3>2, <3>3, <4>1
    <3>4. CASE idem' = idem
      BY <3>2, <3>4
    <3> QED
      BY <1>1, <2>2, <3>3, <3>4 DEF P!SetKey, P!Lost, P!Fault
  <2> QED
    BY <1>5, <2>1, <2>2
<1>6. ASSUME NEW p \in Publishers, P!Add(p)
      PROVE  /\ idem' = idem
             /\ \A k \in Keys : P!Holders(k) \subseteq P!Holders(k)' \/ P!InStream(k)'
  <2>1. key' = key /\ idem' = idem /\ pubPc[p] = "publish"
    BY <1>6 DEF P!Add
  <2>2. CASE P!Continue(p, "rollback")
    BY <2>1, <2>2 DEF P!Continue, P!Holders
  <2>3. CASE P!Answer(p, "ok") /\ stream' = Append(stream, key[p])
    <3>1. key[p] \in Keys /\ stream \in Seq(Keys \cup {Malformed})
      OBVIOUS
    <3>2. P!InStream(key[p])'
      <4>1. Len(stream') = Len(stream) + 1 /\ stream' \in Seq(Keys \cup {Malformed}) /\ Len(stream) \in Nat
        BY <2>3, <3>1, AppendType
      <4>2. stream'[Len(stream) + 1] = key[p]
        BY <2>3, <3>1
      <4>3. Len(stream) + 1 \in DOMAIN stream'
        BY <4>1
      <4> QED
        BY <2>1, <4>2, <4>3 DEF P!InStream
    <3>3. \A k \in Keys : k # key[p] => P!Holders(k) \subseteq P!Holders(k)'
      BY <2>1, <2>3 DEF P!Answer, P!Holders
    <3> QED
      BY <2>1, <3>2, <3>3
  <2> QED
    BY <1>6, <2>1, <2>2, <2>3 DEF P!Add
<1>7. ASSUME NEW p \in Publishers, P!Rollback(p)
      PROVE  \A k \in idem' : k \in idem /\ P!Holders(k) \subseteq P!Holders(k)'
  <2>1. idem' = idem \ {key[p]} /\ key' = key /\ pubPc' = [pubPc EXCEPT ![p] = "idle"]
    BY <1>1, <1>2, <1>7 DEF P!Rollback, P!Freed, P!Answer, P!Failed, P!Fault
  <2> QED
    BY <2>1 DEF P!Holders
<1>8. ASSUME \/ \E p \in Publishers : P!EndContext(p) \/ P!NewContext(p) \/ P!Die(p)
             \/ \E k \in Keys : P!Expire(k)
             \/ UNCHANGED pubVars
      PROVE  \A k \in idem' : k \in idem /\ P!Holders(k) \subseteq P!Holders(k)'
  BY <1>1, <1>8 DEF P!EndContext, P!NewContext, P!Die, P!Expire, P!Holders, pubVars
<1>9. \A k \in idem' : \/ k \in idem /\ (P!Holders(k) \subseteq P!Holders(k)' \/ P!InStream(k)')
                       \/ P!Holders(k)' # {}
  BY <1>5, <1>6, <1>7, <1>8, OtherSteps DEF P!PublishNext
<1> QED
  BY <1>2, <1>3, <1>4, <1>9

-----------------------------------------------------------------------------
LEMMA BusInv == BusSpec => [](P!TypeOK /\ PaidInv /\ HeldInv)
<1>1. BusInit => P!TypeOK /\ PaidInv /\ HeldInv
  <2> SUFFICES ASSUME BusInit PROVE P!TypeOK /\ PaidInv /\ HeldInv
    OBVIOUS
  <2>1. P!TypeOK
    BY PublishInitType DEF BusInit
  <2>2. ASSUME NEW k \in Keys \ PlainKeys PROVE Paid(k)
    <3>1. P!Holders(k) = {}
      BY DEF BusInit, P!PublishInit, P!Holders
    <3>2. {i \in DOMAIN stream : stream[i] = k} = {}
      BY DEF BusInit, Init
    <3>3. P!Copies(k) = 0
      BY <3>2, FS_EmptySet, SameCardinality, Zenon DEF P!Copies
    <3>4. lost[k] = 0 /\ expired[k] = 0 /\ Free(k) = 1
      BY DEF BusInit, P!PublishInit, Free
    <3> QED
      BY <3>1, <3>3, <3>4, FS_EmptySet DEF Paid
  <2>3. HeldInv
    BY DEF BusInit, P!PublishInit, HeldInv
  <2> QED
    BY <2>1, <2>2, <2>3 DEF PaidInv
<1>2. P!TypeOK /\ PaidInv /\ HeldInv /\ [BusNext]_busVars => (P!TypeOK /\ PaidInv /\ HeldInv)'
  <2> SUFFICES ASSUME P!TypeOK, PaidInv, HeldInv, [BusNext]_busVars
               PROVE  P!TypeOK' /\ PaidInv' /\ HeldInv'
    OBVIOUS
  <2>1. P!TypeOK'
    BY BusTypeStep
  <2> QED
    BY <2>1, PaidStep, HeldStep
<1> QED
  BY <1>1, <1>2, PTL DEF BusSpec

(* Whoever is told "duplicate" is told the truth, however many publishers  *)
(* share however many keys: without an interruption or an error answer to  *)
(* SETNX or DEL, a key in Redis stands for an event that is in the stream  *)
(* or that a publisher at work will add or take the key back for.          *)
THEOREM DuplicatesTellTheTruth == BusSpec => []DuplicatesAreTrue
<1>1. P!TypeOK /\ HeldInv => DuplicatesAreTrue
  BY DEF HeldInv, DuplicatesAreTrue, P!HeldKeyStandsForEvent
<1> QED
  BY <1>1, BusInv, PTL

(* An event published with an idempotency key is in the stream once and    *)
(* worked off once, but for what lost answers, expired keys, stops and     *)
(* error answers pay for.                                                  *)
THEOREM PublishedOnce == BusSpec => []EffectivelyOnce
<1>1. P!TypeOK /\ PaidInv => P!CopiesPaidFor
  <2> SUFFICES ASSUME P!TypeOK, PaidInv, NEW k \in Keys \ PlainKeys
               PROVE  P!Copies(k) <= 1 + lost[k] + expired[k]
    BY DEF P!CopiesPaidFor
  <2>1. stream \in Seq(Keys \cup {Malformed}) /\ lost[k] \in Nat /\ expired[k] \in Nat
    BY DEF P!TypeOK, P!PublishTypeOK
  <2>2. At(stream, k) = {i \in DOMAIN stream : stream[i] = k}
    BY DEF At
  <2>3. P!Copies(k) \in Nat
    <3>1. Malformed \in Keys \cup {Malformed}
      OBVIOUS
    <3>2. Cardinality(At(stream, k)) \in Nat
      BY <2>1, <3>1, CopiesGrow, Zenon
    <3> QED
      BY <2>2, <3>2, SameCardinality, Zenon DEF P!Copies
  <2>4. Paid(k)
    BY DEF PaidInv
  <2>5. Cardinality(P!Holders(k)) \in Nat
    BY <2>4, FS_CardinalityType DEF Paid
  <2> QED
    BY <2>1, <2>3, <2>4, <2>5 DEF Paid, Free
<1>2. TypeOK /\ TriesAccountedFor =>
        \A k \in Keys \ PlainKeys : \A i \in CopiesOf(k) : ran[i] + dlq[i] <= 1 + stops + faults
  BY GroupAssumption DEF TypeOK, TriesAccountedFor, BoundedRedelivery, CopiesOf, Msgs
<1>3. P!TypeOK /\ PaidInv /\ TypeOK /\ TriesAccountedFor => EffectivelyOnce
  BY <1>1, <1>2 DEF EffectivelyOnce
<1> QED
  BY <1>3, BusInv, BusIsAGroup, TypeCorrect, TriesAreAccountedFor, PTL

(* What the group promises it promises of the bus as a whole: no message   *)
(* is worked on by two subscribers at once, and of what any publisher or   *)
(* another writer added nothing is acknowledged without being settled, but *)
(* for what could not be dead-lettered.                                    *)
THEOREM BusDelivers ==
    BusSpec => /\ []ExclusiveDelivery
               /\ []LossesPaidFor
               /\ ImplementsPromise
BY BusIsAGroup, WorkIsExclusive, NothingLost, KeepsPromise, PTL
=============================================================================
