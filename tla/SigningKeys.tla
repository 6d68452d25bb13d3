----------------------------- MODULE SigningKeys -----------------------------
(***************************************************************************)
(* The key pair that signs access tokens: the instances of the user        *)
(* service load or generate it when they start (loadOrGenerateKeys of      *)
(* user_service.go), and the gateway asks for the public key when it       *)
(* starts, and only then (loadPublicKey of its main.go).                   *)
(*                                                                         *)
(* A pair is a number.  Its two rows of jwt_keys are created one after the *)
(* other; of rows that are not active nobody reads.  Which of several      *)
(* active rows is found is open, for First orders by a random identifier.  *)
(***************************************************************************)
EXTENDS Naturals, FiniteSets

CONSTANTS
    Instances, \* instances of the user service
    MaxPairs   \* bound on pairs generated

ASSUME SigningKeysAssumption == MaxPairs \in Nat

VARIABLES
    privateKeys, \* pairs whose private row is active
    publicKeys,  \* pairs whose public row is active
    pairs,       \* number of pairs generated
    instance,    \* per instance, where its start is and its private key
    gateway,     \* whether the gateway runs and its public key, 0 for a nil one
    raced,       \* history: two instances have been generating at once
    torn,        \* history: a start ended between the two rows of a pair
    early        \* history: the gateway that runs asked between two such rows

keyRows == <<privateKeys, publicKeys>>
keyVars == <<keyRows, pairs, instance, gateway, raced, torn, early>>

Down == [pc |-> "down", key |-> 0]
Stopped == [up |-> FALSE, key |-> 0]

KeysInit ==
    /\ privateKeys = {} /\ publicKeys = {} /\ pairs = 0
    /\ instance = [i \in Instances |-> Down]
    /\ gateway = Stopped
    /\ raced = FALSE /\ torn = FALSE /\ early = FALSE

At(i, phase) == instance[i].pc = phase
Up(i) == At(i, "up")
Generating(i) == ~ At(i, "down") /\ ~ Up(i)

-----------------------------------------------------------------------------
(* Mutant: a start generates a pair whether there is one or not.           *)
NoneFound == {}

Found == privateKeys

(* GetActivePrivateKey: the key is loaded, or a pair generated.            *)
Start(i) ==
    /\ At(i, "down")
    /\ \/ \E k \in Found : instance' = [instance EXCEPT ![i] = [pc |-> "up", key |-> k]]
          /\ UNCHANGED <<pairs, raced>>
       \/ /\ Found = {} /\ pairs < MaxPairs
          /\ pairs' = pairs + 1
          /\ instance' = [instance EXCEPT ![i] = [pc |-> "deactivate", key |-> pairs']]
          /\ raced' = (raced \/ \E j \in Instances : Generating(j))
    /\ UNCHANGED <<keyRows, gateway, torn, early>>

DeactivateAllKeys(i) ==
    /\ At(i, "deactivate")
    /\ privateKeys' = {} /\ publicKeys' = {}
    /\ instance' = [instance EXCEPT ![i].pc = "private"]
    /\ UNCHANGED <<pairs, gateway, raced, torn, early>>

StorePrivate(i) ==
    /\ At(i, "private")
    /\ privateKeys' = privateKeys \cup {instance[i].key}
    /\ instance' = [instance EXCEPT ![i].pc = "public"]
    /\ UNCHANGED <<publicKeys, pairs, gateway, raced, torn, early>>

StorePublic(i) ==
    /\ At(i, "public")
    /\ publicKeys' = publicKeys \cup {instance[i].key}
    /\ instance' = [instance EXCEPT ![i].pc = "up"]
    /\ UNCHANGED <<privateKeys, pairs, gateway, raced, torn, early>>

(* The instance stops, or a call of its start fails, which ends it.        *)
Stop(i) ==
    /\ ~ At(i, "down")
    /\ instance' = [instance EXCEPT ![i] = Down]
    /\ torn' = (torn \/ At(i, "public"))
    /\ UNCHANGED <<keyRows, pairs, gateway, raced, early>>

(* The gateway starts when an instance answers GetPublicKey: with no       *)
(* active public key the answer is an error, and the gateway runs with a   *)
(* nil key.                                                                *)
GatewayStarts ==
    /\ ~ gateway.up
    /\ \E i \in Instances : Up(i)
    /\ \/ \E k \in publicKeys : gateway' = [up |-> TRUE, key |-> k]
       \/ publicKeys = {} /\ gateway' = [up |-> TRUE, key |-> 0]
    /\ early' = \E i \in Instances : At(i, "public")
    /\ UNCHANGED <<keyRows, pairs, instance, raced, torn>>

GatewayStops ==
    /\ gateway.up /\ gateway' = Stopped /\ early' = FALSE
    /\ UNCHANGED <<keyRows, pairs, instance, raced, torn>>

KeysNext ==
    \/ \E i \in Instances :
         Start(i) \/ DeactivateAllKeys(i) \/ StorePrivate(i) \/ StorePublic(i) \/ Stop(i)
    \/ GatewayStarts \/ GatewayStops

KeysSpec == KeysInit /\ [][KeysNext]_keyVars

-----------------------------------------------------------------------------
KeysTypeOK ==
    /\ pairs \in 0..MaxPairs
    /\ privateKeys \subseteq 1..pairs /\ publicKeys \subseteq 1..pairs
    /\ instance \in [Instances -> [pc : {"down", "deactivate", "private", "public", "up"}, key : 0..pairs]]
    /\ gateway \in [up : BOOLEAN, key : 0..pairs]
    /\ raced \in BOOLEAN /\ torn \in BOOLEAN /\ early \in BOOLEAN

(* What any running instance signs, the gateway verifies, in whatever      *)
(* order they stop and start: unless two instances have generated keys at  *)
(* the same time, or a start ended between the two rows of a pair (which   *)
(* later starts need not repair), or the gateway asked between these rows  *)
(* and has not been restarted since.                                       *)
TokensVerify ==
    /\ KeysTypeOK
    /\ gateway.up /\ ~ raced /\ ~ torn /\ ~ early =>
         \A i \in Instances : Up(i) => instance[i].key = gateway.key
=============================================================================
