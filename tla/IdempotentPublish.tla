-------------------------- MODULE IdempotentPublish --------------------------
(***************************************************************************)
(* The publishing half of shared/pkg/events: Publish and                   *)
(* PublishWithIdempotency, called by several publishers at once, for       *)
(* events that are told apart by their idempotency key.                    *)
(*                                                                         *)
(* Each Redis command is one step; what an error answer may mean is as in  *)
(* ConsumerGroup: the command took effect ("lost") or did not ("failed").  *)
(* A publisher whose context ended gets an error from every later command, *)
(* which then has no effect.                                               *)
(***************************************************************************)
EXTENDS Naturals, Sequences, FiniteSets

CONSTANTS
    Publishers,   \* processes that may publish
    Keys,         \* idempotency keys
    Malformed,    \* a stream entry no event was serialised to
    PlainKeys,    \* keys of events published with Publish, without idempotency
    InvalidKeys,  \* keys of events without an event type: Validate rejects them
    FaultyCalls,  \* Redis commands that may be answered with an error
    MaxMsgs,      \* bound on the length of the stream
    MaxFaults,    \* bound on error answers
    MaxEnds,      \* bound on ended contexts and crashes
    MaxExpiries   \* bound on idempotency keys that outlive their TTL

Calls == {"setnx", "xadd", "del"}

VARIABLES
    stream,    \* the Redis stream
    idem,      \* the idempotency keys Redis holds
    pc,        \* where a publisher is: "idle", "publish" (key set), "rollback"
    key,       \* the key of the event it is publishing
    ended,     \* publishers whose context has ended
    answer,    \* what the last call of a publisher returned
    lost,      \* history: per key, XADDs that took effect and reported an error
    expired,   \* history: per key, expiries
    pubFaults, \* history: error answers
    keyFaults, \* history: those of them to a command on the idempotency key
    ends       \* history: ended contexts and crashes

faultCounts == <<pubFaults, keyFaults>>
pubVars == <<idem, pc, key, ended, answer, lost, expired, faultCounts, ends>>
vars == <<stream, pubVars>>

Answers == {"none", "ok", "duplicate", "error"}

PublishInit ==
    /\ idem = {}
    /\ pc = [p \in Publishers |-> "idle"]
    /\ key \in [Publishers -> Keys]
    /\ ended = {}
    /\ answer = [p \in Publishers |-> "none"]
    /\ lost = [k \in Keys |-> 0]
    /\ expired = [k \in Keys |-> 0]
    /\ pubFaults = 0 /\ keyFaults = 0
    /\ ends = 0

Init == stream = <<>> /\ PublishInit

Holders(k) == {p \in Publishers : pc[p] # "idle" /\ key[p] = k}
Copies(k) == Cardinality({i \in DOMAIN stream : stream[i] = k})
InStream(k) == \E i \in DOMAIN stream : stream[i] = k

-----------------------------------------------------------------------------
Fault(call) ==
    /\ call \in FaultyCalls
    /\ pubFaults < MaxFaults
    /\ pubFaults' = pubFaults + 1
    /\ keyFaults' = IF call = "xadd" THEN keyFaults ELSE keyFaults + 1

Ok(p) == p \notin ended /\ UNCHANGED faultCounts
Lost(p, call) == p \notin ended /\ Fault(call)
Failed(p, call) ==
    \/ p \in ended /\ UNCHANGED faultCounts
    \/ p \notin ended /\ Fault(call)

Answer(p, a) ==
    /\ pc' = [pc EXCEPT ![p] = "idle"]
    /\ answer' = [answer EXCEPT ![p] = a]

Continue(p, phase) == pc' = [pc EXCEPT ![p] = phase] /\ UNCHANGED answer

(* Publish: validate and XADD, nothing else.                               *)
Publish(p, k) ==
    /\ pc[p] = "idle" /\ k \in PlainKeys
    /\ Len(stream) < MaxMsgs
    /\ \/ /\ k \notin InvalidKeys
          /\ \/ Ok(p) /\ Answer(p, "ok")
             \/ Lost(p, "xadd") /\ Answer(p, "error")
          /\ stream' = Append(stream, k)
       \/ /\ k \notin InvalidKeys /\ Failed(p, "xadd")
          /\ Answer(p, "error")
          /\ UNCHANGED stream
       \/ /\ k \in InvalidKeys
          /\ Answer(p, "error")
          /\ UNCHANGED <<stream, faultCounts>>
    /\ UNCHANGED <<idem, key, ended, lost, expired, ends>>

(* Mutant: SET instead of SETNX.                                           *)
NeverTaken(k) == FALSE

Taken(k) == k \in idem

(* SETNX of the idempotency key.  Whoever finds it set is told the event   *)
(* is a duplicate; an error answer is returned, whatever became of the key.*)
SetKey(p, k) ==
    /\ pc[p] = "idle" /\ k \notin PlainKeys
    /\ key' = [key EXCEPT ![p] = k]
    /\ \/ Ok(p) /\ ~ Taken(k) /\ idem' = idem \cup {k} /\ Continue(p, "publish")
       \/ Ok(p) /\ Taken(k) /\ UNCHANGED idem /\ Answer(p, "duplicate")
       \/ Lost(p, "setnx") /\ idem' = idem \cup {k} /\ Answer(p, "error")
       \/ Failed(p, "setnx") /\ UNCHANGED idem /\ Answer(p, "error")
    /\ UNCHANGED <<stream, ended, lost, expired, ends>>

(* Validate and XADD on behalf of the idempotent publish.                  *)
Add(p) ==
    /\ pc[p] = "publish"
    /\ Len(stream) < MaxMsgs
    /\ LET k == key[p]
       IN \/ /\ k \in InvalidKeys
             /\ Continue(p, "rollback")
             /\ UNCHANGED <<stream, lost, faultCounts>>
          \/ /\ k \notin InvalidKeys /\ Ok(p)
             /\ stream' = Append(stream, k)
             /\ Answer(p, "ok")
             /\ UNCHANGED lost
          \/ /\ k \notin InvalidKeys /\ Lost(p, "xadd")
             /\ stream' = Append(stream, k)
             /\ lost' = [lost EXCEPT ![k] = @ + 1]
             /\ Continue(p, "rollback")
          \/ /\ k \notin InvalidKeys /\ Failed(p, "xadd")
             /\ Continue(p, "rollback")
             /\ UNCHANGED <<stream, lost>>
    /\ UNCHANGED <<idem, key, ended, expired, ends>>

(* Mutant: the key is kept.                                                *)
Kept(k) == idem

Freed(k) == idem \ {k}

(* DEL of the key after a failed publish; its error is ignored.            *)
Rollback(p) ==
    /\ pc[p] = "rollback"
    /\ \/ (Ok(p) \/ Lost(p, "del")) /\ idem' = Freed(key[p])
       \/ Failed(p, "del") /\ UNCHANGED idem
    /\ Answer(p, "error")
    /\ UNCHANGED <<stream, key, ended, lost, expired, ends>>

(* The caller's context ends (deadline, disconnect), or begins anew with   *)
(* the next call.                                                          *)
EndContext(p) ==
    /\ pc[p] # "idle" /\ p \notin ended
    /\ ends < MaxEnds
    /\ ends' = ends + 1
    /\ ended' = ended \cup {p}
    /\ UNCHANGED <<stream, idem, pc, key, answer, lost, expired, faultCounts>>

NewContext(p) ==
    /\ pc[p] = "idle" /\ p \in ended
    /\ ended' = ended \ {p}
    /\ UNCHANGED <<stream, idem, pc, key, answer, lost, expired, faultCounts, ends>>

(* The publisher's process dies between two commands.                      *)
Die(p) ==
    /\ pc[p] # "idle"
    /\ ends < MaxEnds
    /\ ends' = ends + 1
    /\ pc' = [pc EXCEPT ![p] = "idle"]
    /\ answer' = [answer EXCEPT ![p] = "none"]
    /\ UNCHANGED <<stream, idem, key, ended, lost, expired, faultCounts>>

(* The TTL of an idempotency key runs out.                                 *)
Expire(k) ==
    /\ k \in idem
    /\ expired[k] < MaxExpiries
    /\ expired' = [expired EXCEPT ![k] = @ + 1]
    /\ idem' = idem \ {k}
    /\ UNCHANGED <<stream, pc, key, ended, answer, lost, faultCounts, ends>>

PublishNext ==
    \/ \E p \in Publishers :
         \/ \E k \in Keys : Publish(p, k) \/ SetKey(p, k)
         \/ Add(p) \/ Rollback(p) \/ EndContext(p) \/ NewContext(p) \/ Die(p)
    \/ \E k \in Keys : Expire(k)

Next == PublishNext

Spec == Init /\ [][Next]_vars

-----------------------------------------------------------------------------
PublishTypeOK ==
    /\ idem \subseteq Keys
    /\ pc \in [Publishers -> {"idle", "publish", "rollback"}]
    /\ key \in [Publishers -> Keys]
    /\ ended \subseteq Publishers
    /\ answer \in [Publishers -> Answers]
    /\ lost \in [Keys -> Nat]
    /\ expired \in [Keys -> Nat]
    /\ pubFaults \in 0..MaxFaults /\ keyFaults \in 0..pubFaults
    /\ ends \in 0..MaxEnds

(* Every variable has its type; the stream never outgrows its bound.       *)
TypeOK ==
    /\ stream \in Seq(Keys \cup {Malformed})
    /\ Len(stream) <= MaxMsgs
    /\ PublishTypeOK

(* A key is published once: each further copy is paid for by an XADD whose *)
(* answer was lost or by a key that expired - however publishers with the  *)
(* same key interleave and fail.                                           *)
CopiesPaidFor == \A k \in Keys \ PlainKeys : Copies(k) <= 1 + lost[k] + expired[k]

(* A key Redis holds stands for an event that is in the stream or that a   *)
(* publisher is about to add, so that the answer "duplicate" is the truth:  *)
(* unless a SETNX or DEL was answered with an error, or a publisher ended   *)
(* midway.  A failed XADD alone never leaves a key behind.                 *)
HeldKeyStandsForEvent ==
    keyFaults = 0 /\ ends = 0 =>
        \A k \in idem : InStream(k) \/ Holders(k) # {}
=============================================================================
