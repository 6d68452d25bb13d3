----------------------------- MODULE AtLeastOnce -----------------------------
(***************************************************************************)
(* What a consumer group promises to those who append to its stream, with  *)
(* no consumers, batches, retries or Redis commands in sight: a message is *)
(* appended, then settled (handled, or parked in the dead-letter stream),  *)
(* and only a settled message is acknowledged, or one that was dropped: it *)
(* was to be parked, and the dead-letter stream could not be written.      *)
(***************************************************************************)
EXTENDS Naturals

CONSTANT Msgs

VARIABLES appended, settled, dropped, acked

vars == <<appended, settled, dropped, acked>>

Init == appended = {} /\ settled = {} /\ dropped = {} /\ acked = {}

Arrive(m) ==
    /\ m \in Msgs \ appended
    /\ appended' = appended \cup {m}
    /\ UNCHANGED <<settled, dropped, acked>>

Settle(m) ==
    /\ m \in appended
    /\ settled' = settled \cup {m}
    /\ UNCHANGED <<appended, dropped, acked>>

Drop(m) ==
    /\ m \in appended \ acked
    /\ dropped' = dropped \cup {m}
    /\ UNCHANGED <<appended, settled, acked>>

Acknowledge(m) ==
    /\ m \in settled \cup dropped
    /\ acked' = acked \cup {m}
    /\ UNCHANGED <<appended, settled, dropped>>

Next == \E m \in Msgs : Arrive(m) \/ Settle(m) \/ Drop(m) \/ Acknowledge(m)

Spec == Init /\ [][Next]_vars
=============================================================================
