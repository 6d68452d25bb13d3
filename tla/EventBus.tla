------------------------------ MODULE EventBus -------------------------------
(***************************************************************************)
(* The whole bus of shared/pkg/events: idempotent publishers in front of   *)
(* the consumer group, with one Redis stream between them.  Other programs *)
(* may write to the stream too, and what they write need not parse.        *)
(***************************************************************************)
EXTENDS ConsumerGroup, FiniteSets

CONSTANTS
    Publishers, PlainKeys, InvalidKeys,
    PublishFaults, MaxPublishFaults, MaxEnds, MaxExpiries

VARIABLES idem, pubPc, key, ended, answer, lost, expired, pubFaults, keyFaults, ends

P == INSTANCE IdempotentPublish
       WITH pc <- pubPc, FaultyCalls <- PublishFaults, MaxFaults <- MaxPublishFaults

ASSUME BusAssumption ==
    /\ PlainKeys \subseteq Keys /\ InvalidKeys \subseteq Keys
    /\ PublishFaults \subseteq P!Calls
    /\ MaxPublishFaults \in Nat /\ MaxEnds \in Nat /\ MaxExpiries \in Nat

pubVars == <<idem, pubPc, key, ended, answer, lost, expired, pubFaults, keyFaults, ends>>
busVars == <<vars, pubVars>>

BusInit == Init /\ P!PublishInit

PublisherStep == P!PublishNext /\ UNCHANGED groupVars
SubscriberStep == GroupNext /\ UNCHANGED pubVars
ForeignWriter == AppendEntry(Malformed) /\ UNCHANGED pubVars

BusNext == PublisherStep \/ SubscriberStep \/ ForeignWriter

BusSpec == BusInit /\ [][BusNext]_busVars

(* Subscribers keep working and are restarted; publishers may stop.        *)
BusFairness ==
    \A c \in Consumers :
        /\ WF_busVars(Work(c) /\ UNCHANGED pubVars)
        /\ WF_busVars(Start(c) /\ UNCHANGED pubVars)

BusFairSpec == BusSpec /\ BusFairness

-----------------------------------------------------------------------------
CopiesOf(k) == {i \in DOMAIN stream : stream[i] = k}

(* End to end: an event published with an idempotency key, by however many *)
(* publishers, is in the stream once, and handled or dead-lettered once.   *)
(* Each further copy is paid for by an XADD whose answer was lost or an    *)
(* expired key, and each further time a copy is worked off by a subscriber *)
(* that stopped or an error answer.                                        *)
EffectivelyOnce ==
    /\ P!CopiesPaidFor
    /\ \A k \in Keys \ PlainKeys : \A i \in CopiesOf(k) : ran[i] + dlq[i] <= 1 + stops + faults

(* Whoever is told "duplicate" is told the truth: HeldKeyStandsForEvent of  *)
(* IdempotentPublish, for the stream that the subscribers read.            *)
DuplicatesAreTrue == P!TypeOK /\ P!HeldKeyStandsForEvent

(* End to end: an event whose publish returned without error is handled or *)
(* dead-lettered in the end, whatever stops on its way, unless writing its *)
(* dead letter failed.                                                     *)
PublishedIsSettled ==
    \A p \in Publishers : \A k \in Keys \ PlainKeys :
        (answer[p] = "ok" /\ key[p] = k) ~> (\E i \in CopiesOf(k) : Settled(i) \/ i \in dropped)
=============================================================================
