------------------------------ MODULE UserProofs ------------------------------
(***************************************************************************)
(* What holds of Sessions, Registration and SigningKeys, the three parts   *)
(* of the user service that have no row in common, for every number of     *)
(* requests, tokens, codes, instances and failures.                        *)
(***************************************************************************)
EXTENDS Sessions, Registration, SigningKeys, FiniteSetTheorems, WellFoundedInduction, TLAPS

(* As long as no two starts generate at once and none ends between the two *)
(* rows of a pair, there is at most one active pair, its public row last;  *)
(* only a start that has found no private row is yet to make one.          *)
OneGenerates == \A i, j \in Instances : Generating(i) /\ Generating(j) => i = j
RowsPaired ==
    /\ privateKeys = {} \/ \E k \in 1..pairs : privateKeys = {k}
    /\ \A i \in Instances : At(i, "deactivate") \/ At(i, "private") => privateKeys = {}
    /\ \A i \in Instances : At(i, "public") => privateKeys = {instance[i].key} /\ publicKeys = {}
    /\ (\A i \in Instances : ~ At(i, "public")) => publicKeys = privateKeys
OnePair ==
    /\ \A i \in Instances : Up(i) => privateKeys = {instance[i].key}
    /\ gateway.up /\ ~ early => privateKeys = {gateway.key}
KeysNumbered == \A i \in Instances : ~ At(i, "down") => instance[i].key \in 1..pairs
KeysInv == KeysTypeOK /\ KeysNumbered /\ (~ raced /\ ~ torn => OneGenerates /\ RowsPaired /\ OnePair)

LEMMA KeysTypeStep == KeysTypeOK /\ KeysNumbered /\ [KeysNext]_keyVars => KeysTypeOK'
<1> SUFFICES ASSUME KeysTypeOK, KeysNumbered, [KeysNext]_keyVars PROVE KeysTypeOK'
  OBVIOUS
<1> USE SigningKeysAssumption DEF KeysTypeOK, keyRows, Down, Stopped
<1>1. ASSUME NEW i \in Instances, Start(i) PROVE KeysTypeOK'
  <2>1. ASSUME NEW k \in privateKeys, instance' = [instance EXCEPT ![i] = [pc |-> "up", key |-> k]],
               UNCHANGED <<keyRows, pairs, raced, gateway, torn, early>>
        PROVE  KeysTypeOK'
    BY <2>1
  <2>2. ASSUME pairs < MaxPairs, pairs' = pairs + 1,
               instance' = [instance EXCEPT ![i] = [pc |-> "deactivate", key |-> pairs']],
               raced' = (raced \/ \E j \in Instances : Generating(j)),
               UNCHANGED <<keyRows, gateway, torn, early>>
        PROVE  KeysTypeOK'
    BY <2>2
  <2> QED
    BY <1>1, <2>1, <2>2 DEF Start, Found
<1>2. ASSUME NEW i \in Instances, DeactivateAllKeys(i) PROVE KeysTypeOK'
  BY <1>2 DEF DeactivateAllKeys
<1>3. ASSUME NEW i \in Instances, StorePrivate(i) PROVE KeysTypeOK'
  <2>1. instance[i].key \in 1..pairs
    BY <1>3 DEF StorePrivate, At, KeysNumbered
  <2> QED
    BY <1>3, <2>1 DEF StorePrivate
<1>4. ASSUME NEW i \in Instances, StorePublic(i) PROVE KeysTypeOK'
  <2>1. instance[i].key \in 1..pairs
    BY <1>4 DEF StorePublic, At, KeysNumbered
  <2> QED
    BY <1>4, <2>1 DEF StorePublic
<1>5. ASSUME NEW i \in Instances, Stop(i) PROVE KeysTypeOK'
  BY <1>5 DEF Stop
<1>6. CASE GatewayStarts
  <2>1. \E k \in publicKeys \cup {0} : gateway' = [up |-> TRUE, key |-> k]
    BY <1>6 DEF GatewayStarts
  <2>2. early' \in BOOLEAN /\ UNCHANGED <<keyRows, pairs, instance, raced, torn>>
    BY <1>6 DEF GatewayStarts
  <2> QED
    BY <2>1, <2>2
<1>7. CASE GatewayStops
  <2>1. gateway' = [up |-> FALSE, key |-> 0]
    BY <1>7 DEF GatewayStops
  <2>3. early' \in BOOLEAN
    BY <1>7, Zenon DEF GatewayStops
  <2>4. 0 \in 0..pairs
    OBVIOUS
  <2>2. UNCHANGED <<privateKeys, publicKeys, pairs, instance, raced, torn>>
    BY <1>7 DEF GatewayStops
  <2> QED
    BY <2>1, <2>2, <2>3, <2>4
<1>8. CASE UNCHANGED keyVars
  BY <1>8 DEF keyVars
<1> QED
  BY <1>1, <1>2, <1>3, <1>4, <1>5, <1>6, <1>7, <1>8 DEF KeysNext

(* What a step of an instance leaves of all others.                        *)
LEMMA InstanceStep ==
    ASSUME KeysTypeOK, NEW i \in Instances, NEW pc1 \in {"down", "deactivate", "private", "public", "up"},
           NEW k \in Nat,
           \/ instance' = [instance EXCEPT ![i].pc = pc1] /\ k = instance[i].key
           \/ instance' = [instance EXCEPT ![i] = [pc |-> pc1, key |-> k]]
    PROVE  /\ instance'[i].pc = pc1 /\ instance'[i].key = k
           /\ \A j \in Instances \ {i} : instance'[j] = instance[j]
BY DEF KeysTypeOK

(* Key pairs are numbered in the order in which they are made.             *)
LEMMA NumbersStep ==
    ASSUME KeysTypeOK, KeysNumbered, [KeysNext]_keyVars
    PROVE  KeysNumbered'
<1> USE DEF KeysTypeOK, KeysNumbered, At
<1>1. ASSUME NEW i \in Instances, Start(i) PROVE KeysNumbered'
  <2>1. ASSUME NEW k \in privateKeys, instance' = [instance EXCEPT ![i] = [pc |-> "up", key |-> k]],
               pairs' = pairs
        PROVE  KeysNumbered'
    BY <2>1
  <2>2. ASSUME pairs' = pairs + 1,
               instance' = [instance EXCEPT ![i] = [pc |-> "deactivate", key |-> pairs']]
        PROVE  KeysNumbered'
    BY <2>2
  <2> QED
    BY <1>1, <2>1, <2>2 DEF Start, Found
<1>2. ASSUME NEW i \in Instances, DeactivateAllKeys(i) \/ StorePrivate(i) \/ StorePublic(i) \/ Stop(i)
      PROVE  KeysNumbered'
  BY <1>2 DEF DeactivateAllKeys, StorePrivate, StorePublic, Stop, Down
<1>3. CASE UNCHANGED <<pairs, instance>>
  BY <1>3
<1> QED
  BY <1>1, <1>2, <1>3 DEF KeysNext, GatewayStarts, GatewayStops, keyVars

(* Whichever start makes the next step, at most one pair stays active.     *)
LEMMA KeysStep ==
    ASSUME KeysInv, KeysTypeOK', [KeysNext]_keyVars
    PROVE  KeysInv'
<1> SUFFICES ASSUME ~ raced', ~ torn' PROVE (OneGenerates /\ RowsPaired /\ OnePair)'
  BY NumbersStep DEF KeysInv
<1>1. /\ KeysTypeOK /\ raced \in BOOLEAN /\ torn \in BOOLEAN /\ pairs \in Nat
      /\ \A j \in Instances : /\ instance[j].key \in Nat
                              /\ instance[j].pc \in {"down", "deactivate", "private", "public", "up"}
                              /\ instance[j].pc # "down" => instance[j].key \in 1..pairs
  BY SigningKeysAssumption DEF KeysInv, KeysTypeOK, KeysNumbered, At
<1>2. ~ raced /\ ~ torn
  <2>1. ASSUME NEW i \in Instances, Start(i) PROVE ~ raced /\ ~ torn
    BY <1>1, <2>1 DEF Start
  <2>2. ASSUME NEW i \in Instances, Stop(i) PROVE ~ raced /\ ~ torn
    BY <1>1, <2>2 DEF Stop
  <2>3. UNCHANGED <<raced, torn>> \/ \E i \in Instances : Start(i) \/ Stop(i)
    BY DEF KeysNext, DeactivateAllKeys, StorePrivate, StorePublic, GatewayStarts, GatewayStops, keyVars
  <2> QED
    BY <2>1, <2>2, <2>3
<1>3. OneGenerates /\ RowsPaired /\ OnePair
  BY <1>2 DEF KeysInv
<1> USE DEF OneGenerates, RowsPaired, OnePair, Generating, Up, At
<1>4. ASSUME NEW i \in Instances, Start(i) PROVE (OneGenerates /\ RowsPaired /\ OnePair)'
  <2>1. ASSUME NEW k \in privateKeys, instance' = [instance EXCEPT ![i] = [pc |-> "up", key |-> k]],
               pairs' = pairs
        PROVE  (OneGenerates /\ RowsPaired /\ OnePair)'
    <3>1. k \in Nat
      BY DEF KeysInv, KeysTypeOK
    <3>2. /\ instance'[i].pc = "up" /\ instance'[i].key = k
          /\ \A j \in Instances \ {i} : instance'[j] = instance[j]
      BY <1>1, <2>1, <3>1, InstanceStep
    <3>3. UNCHANGED <<privateKeys, publicKeys, gateway, early>> /\ instance[i].pc = "down"
      BY <1>4 DEF Start, keyRows
    <3>4. privateKeys = {k}
      BY <1>3
    <3> QED
      BY <1>3, <2>1, <3>2, <3>3, <3>4, SMTT(30)
  <2>2. ASSUME privateKeys = {}, pairs' = pairs + 1,
               instance' = [instance EXCEPT ![i] = [pc |-> "deactivate", key |-> pairs']],
               raced' = (raced \/ \E j \in Instances : Generating(j))
        PROVE  (OneGenerates /\ RowsPaired /\ OnePair)'
    <3>1. pairs' \in Nat
      BY <2>2 DEF KeysInv, KeysTypeOK
    <3>2. /\ instance'[i].pc = "deactivate"
          /\ \A j \in Instances \ {i} : instance'[j] = instance[j]
      BY <1>1, <2>2, <3>1, InstanceStep
    <3>3. UNCHANGED <<privateKeys, publicKeys, gateway, early>> /\ instance[i].pc = "down"
      BY <1>4 DEF Start, keyRows
    <3> QED
      BY <1>3, <2>2, <3>2, <3>3
  <2> QED
    BY <1>4, <2>1, <2>2 DEF Start, Found
<1>5. ASSUME NEW i \in Instances, DeactivateAllKeys(i) PROVE (OneGenerates /\ RowsPaired /\ OnePair)'
  <2>1. /\ instance'[i].pc = "private"
        /\ \A j \in Instances \ {i} : instance'[j] = instance[j]
    BY <1>1, <1>5, InstanceStep DEF DeactivateAllKeys
  <2> QED
    BY <1>3, <1>5, <2>1 DEF DeactivateAllKeys
<1>6. ASSUME NEW i \in Instances, StorePrivate(i) PROVE (OneGenerates /\ RowsPaired /\ OnePair)'
  <2>1. /\ instance'[i].pc = "public" /\ instance'[i].key = instance[i].key
        /\ \A j \in Instances \ {i} : instance'[j] = instance[j]
    BY <1>1, <1>6, InstanceStep DEF StorePrivate
  <2> QED
    BY <1>1, <1>3, <1>6, <2>1, SMTT(30) DEF StorePrivate
<1>7. ASSUME NEW i \in Instances, StorePublic(i) PROVE (OneGenerates /\ RowsPaired /\ OnePair)'
  <2>1. /\ instance'[i].pc = "up" /\ instance'[i].key = instance[i].key
        /\ \A j \in Instances \ {i} : instance'[j] = instance[j]
    BY <1>1, <1>7, InstanceStep DEF StorePublic
  <2> QED
    BY <1>3, <1>7, <2>1 DEF StorePublic
<1>8. ASSUME NEW i \in Instances, Stop(i) PROVE (OneGenerates /\ RowsPaired /\ OnePair)'
  <2>1. /\ instance'[i].pc = "down" /\ \A j \in Instances \ {i} : instance'[j] = instance[j]
    BY <1>1, <1>8, InstanceStep DEF Stop, Down
  <2>2. instance[i].pc # "public"
    BY <1>8 DEF Stop
  <2> QED
    BY <1>3, <1>8, <2>1, <2>2 DEF Stop, keyRows
<1>9. CASE GatewayStarts
  BY <1>3, <1>9 DEF GatewayStarts, keyRows
<1>10. CASE GatewayStops \/ UNCHANGED keyVars
  BY <1>3, <1>10 DEF GatewayStops, Stopped, keyVars, keyRows
<1> QED
  BY <1>4, <1>5, <1>6, <1>7, <1>8, <1>9, <1>10 DEF KeysNext

(* What a running instance signs the gateway verifies, for any number of   *)
(* instances, in whatever order they and the gateway stop and start.       *)
THEOREM SignedIsVerified == KeysSpec => []TokensVerify
<1>1. KeysInit => KeysInv
  <2> SUFFICES ASSUME KeysInit PROVE KeysInv
    OBVIOUS
  <2>1. KeysTypeOK
    <3>1. gateway = [up |-> FALSE, key |-> 0] /\ pairs = 0 /\ 0 \in 0..pairs /\ 0 \in 0..MaxPairs
      BY SigningKeysAssumption DEF KeysInit, Stopped
    <3>2. instance \in [Instances -> [pc : {"down", "deactivate", "private", "public", "up"}, key : 0..pairs]]
      BY <3>1 DEF KeysInit, Down
    <3>3. gateway \in [up : BOOLEAN, key : 0..pairs]
      BY <3>1
    <3> QED
      BY <3>1, <3>2, <3>3 DEF KeysInit, KeysTypeOK
  <2> QED
    BY <2>1
  DEF KeysInit, KeysInv, KeysNumbered, OneGenerates, RowsPaired, OnePair, Generating, Up, At, Down, Stopped
<1>2. KeysInv /\ [KeysNext]_keyVars => KeysInv'
  <2> SUFFICES ASSUME KeysInv, [KeysNext]_keyVars PROVE KeysInv'
    OBVIOUS
  <2>1. KeysTypeOK'
    BY KeysTypeStep DEF KeysInv
  <2> QED
    BY <2>1, KeysStep
<1>3. KeysInv => TokensVerify
  BY DEF KeysInv, TokensVerify, OnePair
<1> QED
  BY <1>1, <1>2, <1>3, PTL DEF KeysSpec

-----------------------------------------------------------------------------
(* A request that has a code to store, and what its stage says of it.      *)
Setting(c) == call[c].code # 0 /\ ~ For(c, "verify")
Storing == {"set_code", "store", "limit", "mail"}
CallsFit ==
    \A c \in Callers :
        /\ In(c, "idle") => call[c] = Quiet
        /\ In(c, "create") => For(c, "register") /\ call[c].code = 0
        /\ In(c, "check_limit") => For(c, "resend") /\ call[c].code = 0
        /\ call[c].pc \in Storing => call[c].op \in {"register", "resend"} /\ call[c].code # 0
        /\ call[c].pc \in {"compare", "mark", "forget"} => For(c, "verify")
        /\ In(c, "forget") => account = "verified"
AccountFits ==
    /\ account = "none" <=> codes = 0
    /\ account = "none" => \A c \in Callers : In(c, "idle") \/ In(c, "create")

(* Unless two requests stored codes at once, whoever stores has the latest.*)
OneSets ==
    ~ tangled => \A c \in Callers : Setting(c) =>
        /\ call[c].code = codes /\ codes \notin arrived
        /\ \A d \in Callers : Setting(d) => d = c

(* Each failure takes one of the two copies of the latest code at most.    *)
RowWritten == \A c \in Callers : In(c, "store") => inRow = codes \/ lapses >= 1
Stored == codes \in arrived \/ \E c \in Callers : In(c, "limit") \/ In(c, "mail")
CopyKept == inRow = codes \/ inRedis = codes \/ codes <= late \/ lapses >= 2
CopiesInv == ~ tangled /\ account = "open" => RowWritten /\ (Stored => CopyKept)

(* Without any failure the copies of older codes are overwritten ...       *)
NoOldCopy == inRow = codes /\ inRedis \in {0, codes}
Overwriting == \E c \in Callers : In(c, "set_code") \/ In(c, "store")
OverwrittenInv == ~ tangled /\ lapses = 0 /\ account = "open" => NoOldCopy \/ Overwriting

(* ... and what the row has is mailed by the one that has put it there.    *)
RowMailed == inRow = 0 \/ inRow \in arrived \/ \E c \in Callers : Setting(c) /\ call[c].code = inRow
OnceWritten == arrived # {} \/ \E c \in Callers : call[c].pc \in Storing \ {"set_code"}
MailedInv == lapses = 0 /\ account = "open" => RowMailed /\ (OnceWritten => inRow # 0)
RegInv == RegTypeOK /\ CallsFit /\ AccountFits /\ OneSets /\ CopiesInv /\ OverwrittenInv /\ MailedInv

-----------------------------------------------------------------------------
(* What a step leaves of the calls: of the one that makes it, and of the   *)
(* others.                                                                 *)
After(c, what, phase, code) ==
    /\ call'[c].op = what /\ call'[c].pc = phase /\ call'[c].code = code
    /\ \A d \in Callers \ {c} : call'[d] = call[d]
Gone(c) == call'[c] = Quiet /\ After(c, "none", "idle", 0)

CallKinds == {"none", "register", "resend", "verify"}
CallStages == {"idle", "create", "check_limit", "set_code", "store", "limit", "mail", "compare", "mark", "forget"}
CallsOf(n) == [op : CallKinds, code : 0..n, row : 0..n, pc : CallStages]

(* The ranges of Registration's numbers.                                   *)
LEMMA Numbers ==
    ASSUME RegTypeOK
    PROVE  /\ codes \in 0..MaxCodes /\ MaxCodes \in Nat /\ codes \in Nat /\ late \in 0..codes /\ late \in Nat
           /\ lapses \in 0..MaxLapses /\ MaxLapses \in Nat /\ lapses \in Nat
           /\ inRow \in 0..codes /\ inRedis \in 0..codes /\ arrived \subseteq 1..codes
           /\ call \in [Callers -> CallsOf(codes)]
<1>1. codes \in 0..MaxCodes /\ late \in 0..codes /\ lapses \in 0..MaxLapses
  BY DEF RegTypeOK
<1>2. MaxCodes \in Nat /\ MaxLapses \in Nat
  BY RegistrationAssumption
<1>3. codes \in Nat /\ late \in Nat /\ lapses \in Nat
  BY <1>1, <1>2
<1>4. inRow \in 0..codes /\ inRedis \in 0..codes /\ arrived \subseteq 1..codes
  BY DEF RegTypeOK
<1>5. call \in [Callers -> CallsOf(codes)]
  BY Zenon DEF RegTypeOK, CallsOf, CallKinds, CallStages
<1> QED
  BY <1>1, <1>2, <1>3, <1>4, <1>5

(* The ranges of a call's fields.                                          *)
LEMMA CallFields ==
    ASSUME RegTypeOK, NEW c \in Callers
    PROVE  /\ call[c] \in CallsOf(codes) /\ call[c].op \in CallKinds /\ call[c].pc \in CallStages
           /\ call[c].code \in 0..codes /\ call[c].row \in 0..codes
<1>1. call[c] \in CallsOf(codes)
  BY Numbers
<1> QED
  BY <1>1 DEF CallsOf

(* What writing one call leaves of the others.                             *)
LEMMA CallUpdated ==
    ASSUME RegTypeOK, NEW c \in Callers, NEW n \in Nat, codes <= n, NEW v \in CallsOf(n),
           call' = [call EXCEPT ![c] = v]
    PROVE  After(c, v.op, v.pc, v.code) /\ call' \in [Callers -> CallsOf(n)]
<1>1. call \in [Callers -> CallsOf(codes)] /\ codes \in Nat
  BY Numbers
<1>2. CallsOf(codes) \subseteq CallsOf(n)
  BY <1>1 DEF CallsOf
<1>3. call' \in [Callers -> CallsOf(n)] /\ call'[c] = v /\ \A d \in Callers \ {c} : call'[d] = call[d]
  BY <1>1, <1>2
<1> QED
  BY <1>3 DEF After

(* A call that proceeds keeps its code.                                    *)
LEMMA Proceeds ==
    ASSUME RegTypeOK, NEW c \in Callers, NEW phase \in CallStages, Proceed(c, phase)
    PROVE  After(c, call[c].op, phase, call[c].code) /\ call' \in [Callers -> CallsOf(codes)]
<1> DEFINE v == [call[c] EXCEPT !.pc = phase]
<1>1. call \in [Callers -> CallsOf(codes)] /\ codes \in Nat /\ codes <= codes /\ call[c] \in CallsOf(codes)
  BY Numbers, CallFields
<1>2. v \in CallsOf(codes) /\ v.op = call[c].op /\ v.pc = phase /\ v.code = call[c].code
  BY <1>1 DEF CallsOf
<1>3. call' = [call EXCEPT ![c] = v]
  BY <1>1 DEF Proceed
<1> HIDE DEF v
<1> QED
  BY <1>1, <1>2, <1>3, CallUpdated

(* A call that is answered is as it was before it was made.                *)
LEMMA Leaves ==
    ASSUME RegTypeOK, NEW c \in Callers, Leave(c)
    PROVE  Gone(c) /\ call' \in [Callers -> CallsOf(codes)]
<1>1. codes \in Nat /\ codes <= codes /\ call \in [Callers -> CallsOf(codes)]
  BY Numbers
<1>2. Quiet \in CallsOf(codes) /\ Quiet.op = "none" /\ Quiet.pc = "idle" /\ Quiet.code = 0
  <2>1. 0 \in 0..codes
    BY <1>1
  <2>2. Quiet \in CallsOf(codes)
    BY <2>1 DEF Quiet, CallsOf, CallKinds, CallStages
  <2> QED
    BY <2>2 DEF Quiet
<1>3. call' = [call EXCEPT ![c] = Quiet]
  BY DEF Leave
<1>4. After(c, "none", "idle", 0) /\ call' \in [Callers -> CallsOf(codes)]
  BY <1>1, <1>2, <1>3, CallUpdated
<1> QED
  BY <1>1, <1>3, <1>4 DEF Gone

(* A call starts as its caller's only one.                                 *)
LEMMA Enters ==
    ASSUME RegTypeOK, NEW c \in Callers, NEW what \in CallKinds, NEW phase \in CallStages, NEW k \in 0..codes,
           Enter(c, what, phase, k)
    PROVE  In(c, "idle") /\ After(c, what, phase, k) /\ call' \in [Callers -> CallsOf(codes)]
<1>1. codes \in Nat /\ codes <= codes /\ inRow \in 0..codes
  BY Numbers
<1> DEFINE v == [op |-> what, pc |-> phase, code |-> k, row |-> IF what = "verify" THEN inRow ELSE 0]
<1>2. v \in CallsOf(codes) /\ v.op = what /\ v.pc = phase /\ v.code = k
  BY <1>1 DEF CallsOf
<1>3. In(c, "idle") /\ call' = [call EXCEPT ![c] = v]
  BY DEF Enter
<1> HIDE DEF v
<1> QED
  BY <1>1, <1>2, <1>3, CallUpdated

(* A code that is generated is the newest.                                 *)
LEMMA Generates ==
    ASSUME RegTypeOK, NEW c \in Callers, Generate(c)
    PROVE  /\ codes' = codes + 1 /\ codes' \in 0..MaxCodes /\ tangled' \in BOOLEAN
           /\ tangled' = (tangled \/ \E d \in Callers \ {c} : Setting(d))
           /\ After(c, call[c].op, "set_code", codes') /\ call' \in [Callers -> CallsOf(codes')]
<1> DEFINE v == [call[c] EXCEPT !.pc = "set_code", !.code = codes']
<1>1. codes \in Nat /\ MaxCodes \in Nat /\ codes \in 0..MaxCodes
  BY Numbers
<1>2. codes' = codes + 1 /\ codes < MaxCodes
  BY DEF Generate
<1>3. codes' \in 0..MaxCodes /\ codes' \in Nat /\ codes <= codes' /\ codes' \in 0..codes'
  BY <1>1, <1>2
<1>4. call \in [Callers -> CallsOf(codes)] /\ call[c] \in CallsOf(codes)
  BY Numbers, CallFields
<1>5. call' = [call EXCEPT ![c] = v]
  BY <1>4 DEF Generate
<1>6. v \in CallsOf(codes') /\ v.op = call[c].op /\ v.pc = "set_code" /\ v.code = codes'
  <2>1. call[c] \in CallsOf(codes')
    BY <1>1, <1>4, <1>3 DEF CallsOf
  <2>2. codes' \in 0..codes' /\ "set_code" \in CallStages
    BY <1>3 DEF CallStages
  <2> QED
    BY <2>1, <2>2 DEF CallsOf
<1> HIDE DEF v
<1>7. After(c, call[c].op, "set_code", codes') /\ call' \in [Callers -> CallsOf(codes')]
  BY <1>5, <1>6, <1>3, CallUpdated
<1>8. tangled' = (tangled \/ \E d \in Callers \ {c} : Setting(d))
  BY DEF Generate, Setting
<1>9. tangled' \in BOOLEAN
  BY <1>8, Zenon DEF RegTypeOK
<1> QED
  BY <1>2, <1>3, <1>7, <1>8, <1>9

LEMMA RegTypeStep ==
    ASSUME RegTypeOK, CallsFit, [RegNext]_regVars
    PROVE  RegTypeOK'
<1> DEFINE CallTyped == call' \in [Callers -> CallsOf(codes')]
           CodesTyped == codes' \in 0..MaxCodes /\ codes <= codes' /\ tangled' \in BOOLEAN
           RestTyped == /\ account' \in {"none", "open", "verified"} /\ lapses' \in 0..MaxLapses
                        /\ inRow' \in 0..codes' /\ inRedis' \in 0..codes' /\ arrived' \subseteq 1..codes'
                        /\ limited' \in BOOLEAN /\ late' \in 0..codes'
<1>0. /\ account \in {"none", "open", "verified"} /\ limited \in BOOLEAN /\ tangled \in BOOLEAN
      /\ codes \in 0..MaxCodes /\ MaxCodes \in Nat /\ codes \in Nat /\ codes <= codes
      /\ late \in 0..codes /\ lapses \in 0..MaxLapses /\ MaxLapses \in Nat
      /\ inRow \in 0..codes /\ inRedis \in 0..codes /\ arrived \subseteq 1..codes
      /\ call \in [Callers -> CallsOf(codes)]
  <2>1. account \in {"none", "open", "verified"} /\ limited \in BOOLEAN /\ tangled \in BOOLEAN
    BY Zenon DEF RegTypeOK
  <2> QED
    BY <2>1, Numbers
<1>1. ASSUME NEW c \in Callers,
             \/ \E lower \in BOOLEAN : Register(c, lower)
             \/ CreateAccount(c) \/ ResendVerification(c) \/ CheckLimit(c) \/ SetCode(c) \/ StoreCode(c)
             \/ SetLimit(c) \/ Mail(c)
             \/ \E given \in 1..codes : VerifyEmail(c, given)
             \/ Compare(c) \/ MarkVerified(c) \/ Forget(c) \/ Abandon(c)
      PROVE  CallTyped /\ CodesTyped /\ RestTyped
  <2>1. CallTyped /\ CodesTyped
    <3>1. ASSUME Generate(c) PROVE CallTyped /\ CodesTyped
      <4>1. codes' = codes + 1 /\ codes' \in 0..MaxCodes /\ tangled' \in BOOLEAN /\ CallTyped
        BY <3>1, Generates
      <4> QED
        BY <1>0, <4>1
    <3>2. ASSUME Leave(c), UNCHANGED <<codes, tangled>> PROVE CallTyped /\ CodesTyped
      BY <1>0, <3>2, Leaves
    <3>3. ASSUME NEW phase \in CallStages, Proceed(c, phase), UNCHANGED <<codes, tangled>>
          PROVE  CallTyped /\ CodesTyped
      BY <1>0, <3>3, Proceeds
    <3>4. ASSUME NEW what \in CallKinds, NEW phase \in CallStages, NEW k \in 0..codes, Enter(c, what, phase, k),
                 UNCHANGED <<codes, tangled>>
          PROVE  CallTyped /\ CodesTyped
      BY <1>0, <3>4, Enters
    <3>5. CASE CreateAccount(c)
      BY <3>1, <3>2, <3>5 DEF CreateAccount
    <3>6. CASE CheckLimit(c)
      BY <3>1, <3>2, <3>6 DEF CheckLimit
    <3>7. CASE Mail(c) \/ Forget(c) \/ Abandon(c)
      BY <3>2, <3>7 DEF Mail, Forget, Abandon
    <3>8. CASE SetCode(c) \/ StoreCode(c) \/ SetLimit(c) \/ Compare(c) \/ MarkVerified(c)
      <4>1. {"store", "limit", "mail", "mark", "forget"} \subseteq CallStages
        BY DEF CallStages
      <4> QED
        BY <3>2, <3>3, <3>8, <4>1 DEF SetCode, StoreCode, SetLimit, Compare, MarkVerified
    <3>9. CASE (\E lower \in BOOLEAN : Register(c, lower)) \/ ResendVerification(c)
               \/ \E given \in 1..codes : VerifyEmail(c, given)
      <4>1. /\ {"create", "check_limit", "compare"} \subseteq CallStages /\ {"register", "resend", "verify"} \subseteq CallKinds
            /\ 0 \in 0..codes /\ 1..codes \subseteq 0..codes
        BY <1>0 DEF CallStages, CallKinds
      <4> QED
        BY <3>4, <3>9, <4>1 DEF Register, ResendVerification, VerifyEmail
    <3> QED
      BY <1>1, <3>5, <3>6, <3>7, <3>8, <3>9
  <2>2. lapses' \in 0..MaxLapses
    <3>1. UNCHANGED lapses \/ Lapse
      BY <1>1 DEF Register, CreateAccount, ResendVerification, CheckLimit, SetCode, StoreCode, SetLimit, Mail,
                  VerifyEmail, Compare, MarkVerified, Forget, Abandon, Works
    <3> QED
      BY <1>0, <3>1 DEF Lapse
  <2>3. account' \in {"none", "open", "verified"} /\ limited' \in BOOLEAN /\ late' \in 0..codes'
    <3>1. account' \in {account, "open", "verified"} /\ limited' \in {limited, TRUE} /\ late' = late
      BY <1>1 DEF Register, CreateAccount, ResendVerification, CheckLimit, SetCode, StoreCode, SetLimit, Mail,
                  VerifyEmail, Compare, MarkVerified, Forget, Abandon, stores, clocks
    <3>2. late' \in 0..codes'
      BY <1>0, <2>1, <3>1
    <3> QED
      BY <1>0, <3>1, <3>2
  <2>4. inRow' \in 0..codes' /\ inRedis' \in 0..codes' /\ arrived' \subseteq 1..codes'
    <3>1. call[c].code \in 0..codes /\ (In(c, "mail") => call[c].code # 0)
      BY CallFields DEF CallsFit, Storing, In
    <3>2. inRow' \in {inRow, 0, call[c].code}
      BY <1>1 DEF Register, CreateAccount, ResendVerification, CheckLimit, SetCode, StoreCode, SetLimit, Mail,
                  VerifyEmail, Compare, MarkVerified, Forget, Abandon, stores, clocks
    <3>3. inRedis' \in {inRedis, 0, call[c].code}
      BY <1>1 DEF Register, CreateAccount, ResendVerification, CheckLimit, SetCode, StoreCode, SetLimit, Mail,
                  VerifyEmail, Compare, MarkVerified, Forget, Abandon, stores, clocks
    <3>4. arrived' = arrived \/ (In(c, "mail") /\ arrived' = arrived \cup {call[c].code})
      BY <1>1 DEF Register, CreateAccount, ResendVerification, CheckLimit, SetCode, StoreCode, SetLimit, Mail,
                  VerifyEmail, Compare, MarkVerified, Forget, Abandon, stores, clocks
    <3>5. codes \in Nat /\ codes' \in Nat /\ codes <= codes'
      BY <1>0, <2>1
    <3>6. 0..codes \subseteq 0..codes' /\ 1..codes \subseteq 1..codes' /\ 0 \in 0..codes'
      BY <3>5
    <3>7. inRow' \in 0..codes' /\ inRedis' \in 0..codes'
      BY <1>0, <3>1, <3>2, <3>3, <3>6
    <3>8. In(c, "mail") => call[c].code \in 1..codes
      BY <3>1, <3>5
    <3>9. arrived' \subseteq 1..codes'
      <4>1. arrived \subseteq 1..codes'
        BY <1>0, <3>6
      <4>2. CASE In(c, "mail") /\ arrived' = arrived \cup {call[c].code}
        <5>1. call[c].code \in 1..codes'
          BY <3>6, <3>8, <4>2
        <5> QED
          BY <4>1, <4>2, <5>1, Zenon
      <4> QED
        BY <3>4, <4>1, <4>2
    <3> QED
      BY <3>7, <3>9
  <2> QED
    BY <2>1, <2>2, <2>3, <2>4
<1>2. ASSUME UNCHANGED regVars \/ LimitEnds \/ CodeExpires \/ KeyExpires
      PROVE  CallTyped /\ CodesTyped /\ RestTyped
  <2>1. UNCHANGED <<account, inRow, codes, call, arrived, tangled, lapses>> /\ inRedis' \in {inRedis, 0}
        /\ limited' \in {limited, FALSE} /\ late' \in {late, late + 1} /\ (late' = late \/ late < codes)
    BY <1>2 DEF LimitEnds, CodeExpires, KeyExpires, regVars, stores, clocks
  <2>2. CallTyped /\ CodesTyped
    BY <1>0, <2>1
  <2>3. late' \in 0..codes'
    BY <1>0, <2>1
  <2>4. account' \in {"none", "open", "verified"} /\ lapses' \in 0..MaxLapses /\ limited' \in BOOLEAN
    BY <1>0, <2>1
  <2>5. inRow' \in 0..codes' /\ inRedis' \in 0..codes' /\ arrived' \subseteq 1..codes'
    BY <1>0, <2>1
  <2> QED
    BY <2>2, <2>3, <2>4, <2>5
<1>3. CallTyped /\ CodesTyped /\ RestTyped
  BY <1>1, <1>2 DEF RegNext
<1> QED
  BY <1>3, Zenon DEF RegTypeOK, CallsOf, CallKinds, CallStages

(* What a step relies on, and what it has to show.                         *)
RegSafe == CallsFit /\ AccountFits /\ OneSets /\ CopiesInv /\ OverwrittenInv /\ MailedInv
Known ==
    /\ codes \in Nat /\ late \in Nat /\ lapses \in Nat /\ inRow \in Nat /\ inRedis \in Nat
    /\ inRow <= codes /\ inRedis <= codes /\ arrived \subseteq 1..codes /\ tangled \in BOOLEAN
    /\ \A d \in Callers : call[d].code \in Nat /\ call[d].code <= codes
    /\ RegTypeOK /\ RegSafe

(* The invariant has as a consequence what the steps need to know of it.   *)
LEMMA RegKnown == RegInv => Known
<1> SUFFICES ASSUME RegInv PROVE Known
  OBVIOUS
<1>1. RegTypeOK /\ RegSafe
  BY DEF RegInv, RegSafe
<1>2. codes \in Nat /\ late \in Nat /\ lapses \in Nat /\ inRow \in 0..codes /\ inRedis \in 0..codes /\ arrived \subseteq 1..codes
  BY <1>1, Numbers
<1>3. tangled \in BOOLEAN
  BY <1>1 DEF RegTypeOK
<1>4. \A d \in Callers : call[d].code \in 0..codes
  BY <1>1, CallFields
<1> QED
  BY <1>1, <1>2, <1>3, <1>4 DEF Known

(* Unless calls got tangled, one that is about to store a code is the      *)
(* only one to set any.                                                    *)
LEMMA StorersAlone ==
    ASSUME Known, NEW c \in Callers, call[c].pc \in Storing
    PROVE  /\ Setting(c) /\ call[c].op \in {"register", "resend"}
           /\ ~ tangled => /\ call[c].code = codes /\ codes \notin arrived
                           /\ \A d \in Callers \ {c} : ~ Setting(d) /\ call[d].pc \notin Storing
BY DEF Known, RegSafe, CallsFit, OneSets, Setting, For

(* A failure is counted.                                                   *)
LapsesGrow ==
    (lapses' = 0 => lapses = 0) /\ (lapses >= 1 => lapses' >= 1) /\ (lapses >= 2 => lapses' >= 2)
Failed ==
    /\ LapsesGrow /\ lapses' >= 1 /\ lapses' # 0 /\ (lapses >= 1 => lapses' >= 2)
Worked == LapsesGrow /\ lapses' = lapses
(* A statement that fails is counted, one that works is not.               *)
LEMMA Counted ==
    ASSUME Known
    PROVE  (Works => Worked) /\ (Lapse => Failed)
<1>1. lapses \in Nat
  BY DEF Known
<1> QED
  BY <1>1 DEF Works, Lapse, Worked, Failed, LapsesGrow

LEMMA KnownParts ==
    ASSUME Known
    PROVE  /\ codes \in Nat /\ late \in Nat /\ lapses \in Nat /\ inRow \in Nat /\ inRedis \in Nat
           /\ CallsFit /\ AccountFits /\ OneSets /\ CopiesInv /\ OverwrittenInv /\ MailedInv
BY DEF Known, RegSafe

(* A request that neither had a code to store nor has one after its step,  *)
(* or that loses it to a failure.                                          *)
LEMMA AsideStep ==
    ASSUME Known, NEW c \in Callers,
           UNCHANGED <<account, inRow, inRedis, codes, late, arrived, tangled>>,
           \A d \in Callers \ {c} : call'[d] = call[d],
           (call'[c].code = 0 \/ call'[c].op = "verify") /\ call'[c].pc \notin Storing,
           LapsesGrow, lapses' # 0 \/ (~ Setting(c) /\ call[c].pc \notin Storing),
           account = "none" => call'[c].pc \in {"idle", "create"}
    PROVE  AccountFits' /\ OneSets' /\ CopiesInv' /\ OverwrittenInv' /\ MailedInv'
<1>1. /\ CallsFit /\ AccountFits /\ OneSets /\ CopiesInv /\ OverwrittenInv /\ MailedInv
  BY KnownParts
<1>2. AccountFits'
  BY <1>1 DEF AccountFits, In
<1>3. OneSets'
  BY <1>1 DEF OneSets, Setting, For
<1>4. CopiesInv'
  <2>1. RowWritten => RowWritten'
    BY DEF RowWritten, In, Storing, LapsesGrow
  <2>2. Stored' => Stored
    BY DEF Stored, In, Storing
  <2>3. CopyKept => CopyKept'
    BY DEF CopyKept, LapsesGrow
  <2> QED
    BY <1>1, <2>1, <2>2, <2>3 DEF CopiesInv
<1>5. OverwrittenInv'
  <2>1. lapses' = 0 /\ Overwriting => Overwriting'
    BY DEF Overwriting, In, Storing
  <2>2. NoOldCopy => NoOldCopy'
    BY DEF NoOldCopy
  <2> QED
    BY <1>1, <2>1, <2>2 DEF OverwrittenInv, LapsesGrow
<1>6. MailedInv'
  <2>1. lapses' = 0 /\ RowMailed => RowMailed'
    BY DEF RowMailed, Setting, For
  <2>2. OnceWritten' => OnceWritten
    BY DEF OnceWritten, Storing
  <2> QED
    BY <1>1, <2>1, <2>2 DEF MailedInv, LapsesGrow
<1> QED
  BY <1>2, <1>3, <1>4, <1>5, <1>6

LEMMA EnterStep ==
    ASSUME Known, NEW c \in Callers,
           \/ \E lower \in BOOLEAN : Register(c, lower)
           \/ ResendVerification(c)
           \/ \E given \in 1..codes : VerifyEmail(c, given)
    PROVE  RegSafe'
<1>1. RegTypeOK /\ CallsFit /\ AccountFits /\ codes \in Nat
  BY DEF Known, RegSafe
<1>2. /\ UNCHANGED <<account, inRow, inRedis, codes, late, arrived, tangled, lapses>> /\ In(c, "idle")
      /\ \/ After(c, "register", "create", 0)
         \/ account = "open" /\ After(c, "resend", "check_limit", 0)
         \/ account = "open" /\ After(c, "verify", "compare", call'[c].code)
  <2>1. ASSUME NEW lower \in BOOLEAN, Register(c, lower) PROVE In(c, "idle") /\ After(c, "register", "create", 0)
    <3>1. "register" \in CallKinds /\ "create" \in CallStages /\ 0 \in 0..codes
      BY <1>1 DEF CallKinds, CallStages
    <3> QED
      BY <1>1, <2>1, <3>1, Enters DEF Register
  <2>2. ASSUME ResendVerification(c) PROVE In(c, "idle") /\ account = "open" /\ After(c, "resend", "check_limit", 0)
    <3>1. "resend" \in CallKinds /\ "check_limit" \in CallStages /\ 0 \in 0..codes
      BY <1>1 DEF CallKinds, CallStages
    <3> QED
      BY <1>1, <2>2, <3>1, Enters DEF ResendVerification
  <2>3. ASSUME NEW given \in 1..codes, VerifyEmail(c, given)
        PROVE  In(c, "idle") /\ account = "open" /\ After(c, "verify", "compare", given)
    <3>1. "verify" \in CallKinds /\ "compare" \in CallStages /\ given \in 0..codes
      BY <1>1 DEF CallKinds, CallStages
    <3> QED
      BY <1>1, <2>3, <3>1, Enters DEF VerifyEmail
  <2>4. UNCHANGED <<account, inRow, inRedis, codes, late, arrived, tangled, lapses>>
    BY DEF Register, ResendVerification, VerifyEmail, stores, clocks
  <2> QED
    BY <2>1, <2>2, <2>3, <2>4 DEF After
<1>3. CallsFit'
  BY <1>1, <1>2 DEF CallsFit, In, For, After, Storing
<1>4. ~ Setting(c) /\ call[c].pc \notin Storing
  <2>1. call[c] = Quiet
    BY <1>1, <1>2 DEF CallsFit
  <2>2. call[c].code = 0 /\ call[c].pc = "idle"
    BY <2>1 DEF Quiet
  <2> QED
    BY <2>2 DEF Setting, Storing
<1>5. /\ \A d \in Callers \ {c} : call'[d] = call[d]
      /\ (call'[c].code = 0 \/ call'[c].op = "verify") /\ call'[c].pc \notin Storing
      /\ account = "none" => call'[c].pc \in {"idle", "create"}
  BY <1>2 DEF After, Storing
<1>6. LapsesGrow
  BY <1>2 DEF LapsesGrow
<1> QED
  BY <1>2, <1>3, <1>4, <1>5, <1>6, AsideStep DEF RegSafe

LEMMA SetCodeStep ==
    ASSUME Known, NEW c \in Callers, SetCode(c)
    PROVE  RegSafe'
<1>1. /\ In(c, "set_code") /\ UNCHANGED <<account, inRedis, limited, late, codes, arrived, tangled>>
      /\ \/ inRow' = call[c].code /\ lapses' = lapses /\ After(c, call[c].op, "store", call[c].code)
         \/ inRow' = inRow /\ lapses' = lapses + 1 /\ (Gone(c) \/ After(c, call[c].op, "store", call[c].code))
  BY Proceeds, Leaves DEF Known, CallStages, CallKinds, SetCode, Works, Lapse, For, clocks
<1>2. Setting(c) /\ (~ tangled => call[c].code = codes /\ codes \notin arrived
             /\ \A d \in Callers \ {c} : ~ Setting(d) /\ call[d].pc \notin Storing)
  BY <1>1, StorersAlone DEF In, Storing
<1>3. /\ codes \in Nat /\ late \in Nat /\ lapses \in Nat /\ inRow \in Nat /\ inRedis \in Nat
      /\ CallsFit /\ AccountFits /\ OneSets /\ CopiesInv /\ OverwrittenInv /\ MailedInv
  BY DEF Known, RegSafe
<1>4. \/ inRow' = call[c].code /\ lapses' = lapses /\ After(c, call[c].op, "store", call[c].code)
      \/ inRow' = inRow /\ lapses' >= 1 /\ lapses' # 0 /\ (Gone(c) \/ After(c, call[c].op, "store", call[c].code))
  <2>1. lapses' = lapses + 1 => lapses' >= 1 /\ lapses' # 0
    BY <1>3
  <2> QED
    BY <1>1, <2>1
<1>11. CallsFit'
  BY <1>1, <1>3 DEF CallsFit, In, For, After, Gone, Setting, Storing
<1>12. AccountFits'
  BY <1>1, <1>3 DEF AccountFits, CallsFit, In, For, After, Gone, Setting, Storing
<1>13. OneSets'
  BY <1>1, <1>2, <1>3 DEF OneSets, CallsFit, In, For, After, Gone, Setting, Storing
<1>14. CopiesInv'
  <2>1. ASSUME ~ tangled PROVE RowWritten'
    BY <1>1, <1>2, <1>4, <2>1 DEF RowWritten, In, After, Gone, Storing, Quiet
  <2>2. ASSUME ~ tangled PROVE ~ Stored'
    BY <1>1, <1>2, <1>3, <2>2 DEF Stored, In, After, Gone, Storing, Quiet
  <2> QED
    BY <1>1, <2>1, <2>2 DEF CopiesInv
<1>15. OverwrittenInv'
  <2>1. lapses' = 0 => Overwriting'
    BY <1>4 DEF Overwriting, In, After
  <2> QED
    BY <2>1 DEF OverwrittenInv
<1>16. MailedInv'
  <2>1. lapses' = 0 => RowMailed' /\ inRow' # 0
    BY <1>2, <1>4 DEF RowMailed, In, For, After, Setting
  <2> QED
    BY <2>1 DEF MailedInv
<1> QED
  BY <1>11, <1>12, <1>13, <1>14, <1>15, <1>16 DEF RegSafe

(* The number after n is none of those up to n.                            *)
LEMMA NumbersUpTo ==
    ASSUME NEW n \in Nat, NEW S, S \subseteq 1..n
    PROVE  n + 1 \notin S /\ (n = 0 => S = {})
OBVIOUS

(* The next number is another one, and never 0.                            *)
LEMMA NextNumber ==
    ASSUME NEW n \in Nat, NEW m, m = n + 1
    PROVE  m \in Nat /\ m # 0 /\ m # n
OBVIOUS

LEMMA GenerateStep ==
    ASSUME Known, NEW c \in Callers, In(c, "create") \/ In(c, "check_limit"),
           Generate(c), account' # "none", account' # account => In(c, "create") /\ account = "none",
           UNCHANGED <<inRow, inRedis, late, arrived>>, LapsesGrow
    PROVE  RegSafe'
<1>1. RegTypeOK /\ CallsFit /\ AccountFits /\ MailedInv /\ codes \in Nat /\ arrived \subseteq 1..codes
      /\ inRow \in Nat /\ inRow <= codes /\ tangled \in BOOLEAN
  BY DEF Known, RegSafe
<1>2. /\ codes' = codes + 1 /\ tangled' \in BOOLEAN /\ (tangled' <=> tangled \/ \E d \in Callers \ {c} : Setting(d))
      /\ After(c, call[c].op, "set_code", codes')
  BY <1>1, Generates
<1>3. codes' \in Nat /\ codes' # 0 /\ codes' # codes /\ codes' \notin arrived
  <2>1. codes \in Nat /\ codes' = codes + 1
    BY <1>1, <1>2
  <2>2. codes' \in Nat /\ codes' # 0 /\ codes' # codes
    BY <2>1
  <2>3. codes + 1 \notin arrived
    BY <1>1, NumbersUpTo
  <2> QED
    BY <2>1, <2>2, <2>3
<1>4. call[c].code = 0 /\ call[c].op \in {"register", "resend"} /\ ~ Setting(c)
  BY <1>1 DEF CallsFit, In, For, Setting
<1>5. ASSUME ~ tangled', NEW d \in Callers \ {c} PROVE ~ Setting(d) /\ call[d].pc \notin Storing
  BY <1>1, <1>2, <1>5 DEF CallsFit, Setting, For
<1>6. CallsFit'
  BY <1>1, <1>2, <1>3, <1>4 DEF CallsFit, In, For, After, Storing
<1>7. AccountFits'
  BY <1>3 DEF AccountFits
<1>8. OneSets'
  BY <1>2, <1>3, <1>5 DEF OneSets, Setting, For, After
<1>9. CopiesInv'
  <2>1. ~ tangled' => RowWritten' /\ ~ Stored'
    BY <1>2, <1>3, <1>5 DEF RowWritten, Stored, In, After, Storing
  <2> QED
    BY <2>1 DEF CopiesInv
<1>10. OverwrittenInv'
  BY <1>2 DEF OverwrittenInv, Overwriting, In, After
<1>11. MailedInv'
  <2>1. CASE account = "none"
    <3>1. arrived = {} /\ inRow = 0
      <4>1. codes = 0
        BY <1>1, <2>1 DEF AccountFits
      <4>2. arrived = {}
        BY <1>1, <4>1, NumbersUpTo
      <4>3. inRow = 0
        BY <1>1, <4>1
      <4> QED
        BY <4>2, <4>3
    <3>2. \A d \in Callers \ {c} : call[d].pc \notin Storing
      BY <1>1, <2>1 DEF AccountFits, In, Storing
    <3> QED
      BY <1>2, <3>1, <3>2 DEF MailedInv, RowMailed, OnceWritten, After
  <2>2. CASE account' = account
    <3>1. RowMailed => RowMailed'
      BY <1>2, <1>4 DEF RowMailed, Setting, For, After
    <3>2. OnceWritten' => OnceWritten
      BY <1>2 DEF OnceWritten, After
    <3> QED
      BY <1>1, <2>2, <3>1, <3>2 DEF MailedInv, LapsesGrow
  <2> QED
    BY <2>1, <2>2
<1> QED
  BY <1>6, <1>7, <1>8, <1>9, <1>10, <1>11 DEF RegSafe

LEMMA CreateStep ==
    ASSUME Known, NEW c \in Callers, CreateAccount(c) \/ CheckLimit(c)
    PROVE  RegSafe'
<1>1. RegTypeOK /\ CallsFit /\ AccountFits
  BY DEF Known, RegSafe
<1>2. In(c, "create") \/ In(c, "check_limit")
  BY DEF CreateAccount, CheckLimit
<1>3. UNCHANGED <<inRow, inRedis, late, arrived>>
  BY DEF CreateAccount, CheckLimit, stores, clocks
<1>4. LapsesGrow
  BY Counted DEF CreateAccount, CheckLimit, Worked, Failed
<1>5. ASSUME Generate(c), account' # "none", account' # account => In(c, "create") /\ account = "none" PROVE RegSafe'
  BY <1>2, <1>3, <1>4, <1>5, GenerateStep
<1>6. CASE Leave(c) /\ UNCHANGED <<account, codes, tangled>>
  <2>1. Gone(c)
    BY <1>1, <1>6, Leaves
  <2>2. CallsFit'
    BY <1>1, <1>6, <2>1 DEF CallsFit, In, For, Gone, After, Storing
  <2>3. call[c].code = 0 /\ call[c].pc \notin Storing
    BY <1>1, <1>2 DEF CallsFit, In, Storing
  <2>4. /\ \A d \in Callers \ {c} : call'[d] = call[d]
        /\ call'[c].code = 0 /\ call'[c].pc = "idle"
    BY <2>1 DEF Gone, After
  <2> QED
    BY <1>3, <1>4, <1>6, <2>2, <2>3, <2>4, AsideStep DEF RegSafe, Setting, Storing
<1>7. CASE CreateAccount(c)
  BY <1>5, <1>6, <1>7 DEF CreateAccount
<1>8. CASE CheckLimit(c)
  <2>1. account # "none" /\ account' = account
    BY <1>1, <1>8 DEF CheckLimit, AccountFits, In
  <2> QED
    BY <1>5, <1>6, <1>8, <2>1 DEF CheckLimit
<1> QED
  BY <1>7, <1>8

LEMMA StoreCodeStep ==
    ASSUME Known, NEW c \in Callers, StoreCode(c)
    PROVE  RegSafe'
<1>1. /\ CallsFit /\ AccountFits /\ OneSets /\ CopiesInv /\ OverwrittenInv /\ MailedInv /\ RegTypeOK
  BY KnownParts DEF Known
<1>2. /\ In(c, "store") /\ UNCHANGED <<account, inRow, late, codes, arrived, tangled>>
      /\ \/ inRedis' = call[c].code /\ Worked
         \/ inRedis' = inRedis /\ Failed
  BY Counted DEF StoreCode, clocks
<1>3. After(c, call[c].op, "limit", call[c].code) \/ After(c, call[c].op, "mail", call[c].code)
  BY <1>1, Proceeds DEF StoreCode, CallStages
<1>4. Setting(c) /\ (~ tangled => call[c].code = codes /\ codes \notin arrived
             /\ \A d \in Callers \ {c} : ~ Setting(d) /\ call[d].pc \notin Storing)
  BY <1>2, StorersAlone DEF In, Storing
<1>5. CallsFit'
  BY <1>1, <1>2, <1>3 DEF CallsFit, In, For, After, Storing
<1>6. AccountFits'
  BY <1>1, <1>2, <1>3 DEF AccountFits, In, After
<1>7. OneSets'
  BY <1>1, <1>2, <1>3, <1>4 DEF OneSets, For, After, Setting
<1>8. ASSUME ~ tangled, account = "open" PROVE RowWritten' /\ CopyKept'
  <2>1. RowWritten
    BY <1>1, <1>8 DEF CopiesInv
  <2>2. RowWritten'
    BY <1>3, <1>4, <1>8 DEF RowWritten, In, After, Storing
  <2>3. CopyKept'
    BY <1>2, <1>4, <1>8, <2>1 DEF RowWritten, CopyKept, Failed
  <2> QED
    BY <2>2, <2>3
<1>9. CopiesInv'
  BY <1>2, <1>8 DEF CopiesInv
<1>10. OverwrittenInv'
  <2>1. ASSUME ~ tangled, account = "open", lapses' = 0 PROVE NoOldCopy'
    <3>1. lapses = 0 /\ inRedis' = codes
      BY <1>2, <1>4, <2>1 DEF Worked, Failed
    <3>2. inRow = codes
      BY <1>1, <1>2, <2>1, <3>1 DEF CopiesInv, RowWritten
    <3> QED
      BY <1>2, <3>1, <3>2 DEF NoOldCopy
  <2> QED
    BY <1>2, <2>1 DEF OverwrittenInv
<1>11. MailedInv'
  <2>1. RowMailed => RowMailed'
    BY <1>2, <1>3 DEF RowMailed, Setting, For, After
  <2>2. OnceWritten
    BY <1>2 DEF OnceWritten, Storing, In
  <2> QED
    BY <1>1, <1>2, <2>1, <2>2 DEF MailedInv, Worked, Failed, LapsesGrow
<1> QED
  BY <1>5, <1>6, <1>7, <1>9, <1>10, <1>11 DEF RegSafe

LEMMA SetLimitStep ==
    ASSUME Known, NEW c \in Callers, SetLimit(c)
    PROVE  RegSafe'
<1>1. /\ CallsFit /\ AccountFits /\ OneSets /\ CopiesInv /\ OverwrittenInv /\ MailedInv /\ RegTypeOK
  BY KnownParts DEF Known
<1>2. /\ In(c, "limit") /\ UNCHANGED <<account, inRow, inRedis, late, codes, arrived, tangled>> /\ LapsesGrow
  BY Counted DEF SetLimit, stores, Worked, Failed
<1>3. After(c, call[c].op, "mail", call[c].code)
  BY <1>1, Proceeds DEF SetLimit, CallStages
<1>5. CallsFit'
  BY <1>1, <1>2, <1>3 DEF CallsFit, In, For, After, Storing
<1>6. AccountFits'
  BY <1>1, <1>2, <1>3 DEF AccountFits, In, After
<1>7. OneSets'
  BY <1>1, <1>2, <1>3 DEF OneSets, For, After, Setting
<1>8. CopiesInv'
  <2>1. RowWritten => RowWritten'
    BY <1>2, <1>3 DEF RowWritten, In, After, LapsesGrow
  <2>2. Stored' => Stored
    BY <1>2, <1>3 DEF Stored, In, After
  <2>3. CopyKept => CopyKept'
    BY <1>2 DEF CopyKept, LapsesGrow
  <2> QED
    BY <1>1, <1>2, <2>1, <2>2, <2>3 DEF CopiesInv
<1>9. OverwrittenInv'
  <2>1. Overwriting => Overwriting'
    BY <1>2, <1>3 DEF Overwriting, In, After
  <2> QED
    BY <1>1, <1>2, <2>1 DEF OverwrittenInv, NoOldCopy, LapsesGrow
<1>10. MailedInv'
  <2>1. RowMailed => RowMailed'
    BY <1>2, <1>3 DEF RowMailed, Setting, For, After
  <2>2. OnceWritten
    BY <1>2 DEF OnceWritten, Storing, In
  <2> QED
    BY <1>1, <1>2, <2>1, <2>2 DEF MailedInv, LapsesGrow
<1> QED
  BY <1>5, <1>6, <1>7, <1>8, <1>9, <1>10 DEF RegSafe

LEMMA MailStep ==
    ASSUME Known, NEW c \in Callers, Mail(c)
    PROVE  RegSafe'
<1>1. /\ CallsFit /\ AccountFits /\ OneSets /\ CopiesInv /\ OverwrittenInv /\ MailedInv /\ RegTypeOK
  BY KnownParts DEF Known
<1>2. /\ In(c, "mail") /\ UNCHANGED <<account, inRow, inRedis, late, codes, tangled>>
      /\ \/ arrived' = arrived \cup {call[c].code} /\ Worked
         \/ arrived' = arrived /\ Failed
  BY Counted DEF Mail, stores, clocks
<1>3. Gone(c)
  BY <1>1, Leaves DEF Mail
<1>4. Setting(c) /\ (~ tangled => call[c].code = codes /\ codes \notin arrived
             /\ \A d \in Callers \ {c} : ~ Setting(d) /\ call[d].pc \notin Storing)
  BY <1>2, StorersAlone DEF In, Storing
<1>5. CallsFit'
  BY <1>1, <1>2, <1>3 DEF CallsFit, In, For, Gone, After, Storing
<1>6. AccountFits'
  BY <1>1, <1>2, <1>3 DEF AccountFits, In, Gone, After
<1>7. OneSets'
  BY <1>2, <1>3, <1>4 DEF OneSets, For, Gone, After, Setting
<1>8. CopiesInv'
  <2>1. RowWritten => RowWritten'
    BY <1>2, <1>3 DEF RowWritten, In, Gone, After, Worked, Failed, LapsesGrow
  <2>2. Stored
    BY <1>2 DEF Stored
  <2>3. CopyKept => CopyKept'
    BY <1>2 DEF CopyKept, Worked, Failed, LapsesGrow
  <2> QED
    BY <1>1, <1>2, <2>1, <2>2, <2>3 DEF CopiesInv
<1>9. OverwrittenInv'
  <2>1. Overwriting => Overwriting'
    BY <1>2, <1>3 DEF Overwriting, In, Gone, After
  <2> QED
    BY <1>1, <1>2, <2>1 DEF OverwrittenInv, NoOldCopy, Worked, Failed
<1>10. MailedInv'
  <2>1. lapses' = 0 /\ RowMailed => RowMailed'
    BY <1>2, <1>3 DEF RowMailed, Setting, For, Gone, After, Failed
  <2>2. OnceWritten
    BY <1>2 DEF OnceWritten, Storing, In
  <2> QED
    BY <1>1, <1>2, <2>1, <2>2 DEF MailedInv, Worked, Failed, LapsesGrow
<1> QED
  BY <1>5, <1>6, <1>7, <1>8, <1>9, <1>10 DEF RegSafe

LEMMA AwayStep ==
    ASSUME Known, NEW c \in Callers, Compare(c) \/ MarkVerified(c) \/ Forget(c) \/ Abandon(c)
    PROVE  RegSafe'
<1>1. /\ CallsFit /\ AccountFits /\ OneSets /\ RegTypeOK
  BY KnownParts DEF Known
<1>2. UNCHANGED <<codes, late, arrived, tangled>> /\ LapsesGrow
  BY Counted DEF Compare, MarkVerified, Forget, Abandon, clocks, Worked, Failed
<1>3. ASSUME Leave(c), UNCHANGED <<account, inRow, inRedis>>,
             lapses' # 0 \/ (~ Setting(c) /\ call[c].pc \notin Storing)
      PROVE  RegSafe'
  <2>1. Gone(c)
    BY <1>1, <1>3, Leaves
  <2>2. CallsFit'
    BY <1>1, <1>2, <1>3, <2>1 DEF CallsFit, In, For, Gone, After, Storing
  <2>3. /\ \A d \in Callers \ {c} : call'[d] = call[d]
        /\ call'[c].code = 0 /\ call'[c].pc = "idle"
    BY <2>1 DEF Gone, After
  <2> QED
    BY <1>2, <1>3, <2>2, <2>3, AsideStep DEF RegSafe, Storing
<1>4. ASSUME In(c, "compare") \/ In(c, "mark") \/ In(c, "forget")
      PROVE  call[c].op = "verify" /\ ~ Setting(c) /\ call[c].pc \notin Storing /\ account # "none"
  BY <1>1, <1>4 DEF CallsFit, AccountFits, Setting, For, In, Storing
<1>5. CASE Compare(c)
  <2>1. In(c, "compare") /\ UNCHANGED <<account, inRow, inRedis>> /\ (Leave(c) \/ Proceed(c, "mark"))
    BY <1>5 DEF Compare, stores
  <2>2. CASE Proceed(c, "mark")
    <3>1. After(c, "verify", "mark", call[c].code)
      BY <1>1, <1>4, <2>1, <2>2, Proceeds DEF CallStages
    <3>2. CallsFit'
      BY <1>1, <1>4, <2>1, <3>1 DEF CallsFit, In, For, After, Storing
    <3>3. /\ \A d \in Callers \ {c} : call'[d] = call[d]
          /\ call'[c].op = "verify" /\ call'[c].pc = "mark"
      BY <3>1 DEF After
    <3> QED
      BY <1>2, <1>4, <2>1, <3>2, <3>3, AsideStep DEF RegSafe, Storing
  <2> QED
    BY <1>3, <1>4, <2>1, <2>2
<1>6. ASSUME account' = "verified", account # "none",
             Gone(c) \/ (call[c].op = "verify" /\ After(c, "verify", "forget", call[c].code))
      PROVE  RegSafe'
  <2>1. CallsFit'
    BY <1>1, <1>6 DEF CallsFit, In, For, Gone, After, Storing
  <2>2. AccountFits'
    BY <1>1, <1>2, <1>6 DEF AccountFits
  <2>3. OneSets'
    BY <1>1, <1>2, <1>6 DEF OneSets, For, Gone, After, Setting
  <2> QED
    BY <1>6, <2>1, <2>2, <2>3 DEF RegSafe, CopiesInv, OverwrittenInv, MailedInv
<1>7. CASE MarkVerified(c)
  <2>1. In(c, "mark") /\ UNCHANGED inRedis
    BY <1>7 DEF MarkVerified
  <2>2. CASE account' = "verified" /\ Proceed(c, "forget")
    <3>1. After(c, "verify", "forget", call[c].code)
      BY <1>1, <1>4, <2>1, <2>2, Proceeds DEF CallStages
    <3> QED
      BY <1>4, <1>6, <2>1, <2>2, <3>1
  <2> QED
    BY <1>3, <1>4, <1>7, <2>1, <2>2 DEF MarkVerified
<1>8. CASE Forget(c)
  <2>1. account' = "verified" /\ account # "none" /\ Leave(c)
    BY <1>1, <1>8 DEF Forget, CallsFit
  <2> QED
    BY <1>1, <1>6, <2>1, Leaves
<1>9. CASE Abandon(c)
  <2>1. Leave(c) /\ lapses' # 0 /\ UNCHANGED <<account, inRow, inRedis>>
    BY <1>9, Counted DEF Abandon, stores, Failed
  <2> QED
    BY <1>3, <2>1
<1> QED
  BY <1>5, <1>7, <1>8, <1>9

LEMMA ClockStep ==
    ASSUME Known, LimitEnds \/ CodeExpires \/ KeyExpires \/ UNCHANGED regVars
    PROVE  RegSafe'
<1>1. /\ CallsFit /\ AccountFits /\ OneSets /\ CopiesInv /\ OverwrittenInv /\ MailedInv
      /\ codes \in Nat /\ late \in Nat
  BY KnownParts
<1>2. /\ UNCHANGED <<account, inRow, codes, call, arrived, tangled, lapses>>
      /\ inRedis' = inRedis \/ (inRedis' = 0 /\ inRedis <= late /\ late' = late)
      /\ late' = late \/ late' = late + 1
  BY DEF LimitEnds, CodeExpires, KeyExpires, regVars, stores, clocks
<1>3. CallsFit'
  BY <1>1, <1>2 DEF CallsFit, In, For
<1>4. AccountFits'
  BY <1>1, <1>2 DEF AccountFits, In
<1>5. OneSets'
  BY <1>1, <1>2 DEF OneSets, For, Setting
<1>6. CopiesInv'
  <2>1. RowWritten => RowWritten'
    BY <1>2 DEF RowWritten, In
  <2>2. Stored' => Stored
    BY <1>2 DEF Stored, In
  <2>3. codes <= late => codes <= late'
    BY <1>1, <1>2
  <2>4. CopyKept => CopyKept'
    BY <1>2, <2>3 DEF CopyKept
  <2> QED
    BY <1>1, <1>2, <2>1, <2>2, <2>4 DEF CopiesInv
<1>7. OverwrittenInv'
  BY <1>1, <1>2 DEF OverwrittenInv, NoOldCopy, Overwriting, In
<1>8. MailedInv'
  BY <1>1, <1>2 DEF MailedInv, RowMailed, OnceWritten, Setting, For
<1> QED
  BY <1>3, <1>4, <1>5, <1>6, <1>7, <1>8 DEF RegSafe

(* What is mailed verifies the address, and what was mailed before does    *)
(* not, for any number of requests, codes and failures.                    *)
THEOREM MailedCodesVerify == RegSpec => []CodesMatchMail
<1>1. RegInit => RegInv
  <2> SUFFICES ASSUME RegInit PROVE RegInv
    OBVIOUS
  <2>1. RegTypeOK
    <3>1. MaxCodes \in Nat /\ MaxLapses \in Nat /\ 0 \in 0..0
      BY RegistrationAssumption
    <3>2. Quiet \in [op : {"none", "register", "resend", "verify"}, code : 0..0, row : 0..0,
                     pc : {"idle", "create", "check_limit", "set_code", "store", "limit", "mail",
                           "compare", "mark", "forget"}]
      BY <3>1 DEF Quiet
    <3>3. codes = 0 /\ call = [c \in Callers |-> Quiet]
      BY DEF RegInit
    <3>4. call \in [Callers -> [op : {"none", "register", "resend", "verify"}, code : 0..codes, row : 0..codes,
                     pc : {"idle", "create", "check_limit", "set_code", "store", "limit", "mail",
                           "compare", "mark", "forget"}]]
      BY <3>2, <3>3
    <3>5. codes \in 0..MaxCodes /\ late \in 0..codes /\ lapses \in 0..MaxLapses
      BY <3>1 DEF RegInit
    <3>6. inRow \in 0..codes /\ inRedis \in 0..codes /\ arrived \subseteq 1..codes
      BY <3>1 DEF RegInit
    <3> QED
      BY <3>4, <3>5, <3>6, Zenon DEF RegInit, RegTypeOK
  <2>2. CallsFit /\ OneSets /\ AccountFits
    BY DEF RegInit, CallsFit, OneSets, AccountFits, In, For, Setting, Storing, Quiet
  <2> QED
    BY <2>1, <2>2 DEF RegInit, RegInv, CopiesInv, OverwrittenInv, MailedInv
<1>2. RegInv /\ [RegNext]_regVars => RegInv'
  <2> SUFFICES ASSUME RegInv, [RegNext]_regVars PROVE RegInv'
    OBVIOUS
  <2>1. RegTypeOK'
    BY RegTypeStep DEF RegInv
  <2>2. Known
    BY RegKnown
  <2>3. RegSafe'
    BY <2>2, EnterStep, CreateStep, SetCodeStep, StoreCodeStep, SetLimitStep, MailStep, AwayStep, ClockStep DEF RegNext
  <2> QED
    BY <2>1, <2>3 DEF RegInv, RegSafe
<1>3. RegInv => CodesMatchMail
  <2> SUFFICES ASSUME RegInv, AllQuiet, account = "open" PROVE MailedCodeWorks /\ OldCodesDie
    BY DEF CodesMatchMail, MailedCodeWorks, OldCodesDie, RegInv
  <2>1. /\ RegTypeOK /\ CallsFit /\ CopiesInv /\ OverwrittenInv /\ MailedInv /\ codes \in Nat /\ late \in Nat /\ lapses \in Nat
        /\ arrived \subseteq 1..codes /\ inRow \in Nat
    BY RegKnown DEF Known, RegSafe
  <2>2. \A c \in Callers : call[c].pc = "idle" /\ ~ Setting(c)
    BY <2>1 DEF AllQuiet, CallsFit, In, Setting, Quiet
  <2>3. ASSUME codes \in arrived, late < codes, ~ tangled, ~ lapses >= 2 PROVE codes \in Working
    <3>1. CopyKept
      BY <2>1, <2>3 DEF CopiesInv, Stored
    <3>2. codes \in 1..codes /\ ~ codes <= late
      BY <2>1, <2>3
    <3> QED
      BY <2>3, <3>1, <3>2 DEF CopyKept, Working, Accepts
  <2>4. ASSUME codes \in arrived, lapses = 0, late = 0 PROVE inRow \in Working \cap arrived
    <3>1. RowMailed /\ inRow # 0
      BY <2>1, <2>4 DEF MailedInv, OnceWritten
    <3>2. inRow \in arrived
      BY <2>2, <3>1 DEF RowMailed
    <3> QED
      BY <2>1, <2>4, <3>2 DEF Working, Accepts
  <2>5. OldCodesDie
    <3> SUFFICES ASSUME ~ tangled, ~ lapses > 0 PROVE Working \subseteq {codes}
      BY DEF OldCodesDie
    <3>1. lapses = 0
      BY <2>1
    <3>2. NoOldCopy
      BY <2>1, <2>2, <3>1 DEF OverwrittenInv, Overwriting, In
    <3> QED
      BY <3>2 DEF NoOldCopy, Working, Accepts
  <2> QED
    BY <2>1, <2>3, <2>4, <2>5 DEF MailedCodeWorks
<1> QED
  BY <1>1, <1>2, <1>3, PTL DEF RegSpec

-----------------------------------------------------------------------------
(* What the stage of a request says of what it is about.                   *)
IssuesFit(r) ==
    /\ Doing(r, "issue") => req[r].op \in {"login", "refresh", "switch"} /\ req[r].new = 0
    /\ Doing(r, "session") =>
         /\ req[r].op \in {"login", "refresh", "switch"}
         /\ req[r].new # 0 /\ session[req[r].new] = "none"
    /\ Doing(r, "look_up") \/ Doing(r, "revoke_old") => req[r].op = "refresh" /\ req[r].new # 0
    /\ req[r].op = "refresh" => req[r].arg \in Rows
    /\ req[r].op = "refresh" /\ req[r].new # 0 =>
         root[req[r].new] = root[req[r].arg] /\ req[r].new > req[r].arg
    /\ req[r].new # 0 => Doing(r, "session") \/ Doing(r, "look_up") \/ Doing(r, "revoke_old")
OthersFit(r) ==
    /\ Doing(r, "idle") => req[r] = Idle
    /\ Doing(r, "blacklist") => req[r].op = "logout" /\ req[r].arg \in held
    /\ Doing(r, "revoke_all") => req[r].op \in {"logout", "change", "reset"}
    /\ Doing(r, "revoke_sessions") => req[r].op = "logout"
    /\ Doing(r, "set_password") => req[r].op \in {"change", "reset"}
    /\ req[r].op = "reset" => req[r].arg \in Resets /\ reset[req[r].arg] # "none"
    /\ Doing(r, "mark_used") => req[r].op = "reset"
    /\ Doing(r, "revoke_session") \/ Doing(r, "revoke_token") =>
         req[r].arg \in Rows /\ session[req[r].arg] # "none"
    /\ Doing(r, "revoke_token") => session[req[r].arg] = "revoked"
    /\ Doing(r, "save_user") => req[r].op = "switch"
RequestsFit ==
    /\ \A r \in Requests : IssuesFit(r) /\ OthersFit(r)
    /\ \A q, r \in Requests :
         Doing(q, "session") /\ Doing(r, "session") /\ req[q].new = req[r].new => q = r
    /\ \A t \in Rows : root[t] \in Rows

(* A request that was under way when all tokens were revoked works on an   *)
(* old line; a refresh that began since, on an old line, on a tainted one. *)
StaleInv ==
    /\ \A r \in Requests : req[r].op = "refresh" =>
         /\ r \in overtaken => root[req[r].arg] \in old
         /\ r \notin overtaken /\ root[req[r].arg] \in old => req[r].arg \in tainted
    /\ StaleOnlyByRace

(* A token is revoked with all others, with its session, or for a later    *)
(* one of its line: the latest of a line is not used up.                   *)
LineInv ==
    \A u \in revoked :
        \/ root[u] \in old
        \/ session[u] = "revoked"
        \/ \E w \in Rows : root[w] = root[u] /\ w > u

(* What a change of the password has become is known to whoever undoes it. *)
BehindInv ==
    /\ \A c \in (password + 1)..changes : c \in behind
    /\ \A r \in Requests : Doing(r, "save_user") => \A c \in (req[r].row + 1)..changes : c \in behind

(* Each use of a reset token that does not mark it is paid for, and those  *)
(* that may yet use it began before it was marked.                         *)
About(i, phase) == {r \in Requests : Doing(r, phase) /\ req[r].op = "reset" /\ req[r].arg = i}
AtOnce == IF overlapped THEN Cardinality(Requests) ELSE 1
UsesInv ==
    /\ ~ overlapped => \A q, r \in Requests : ~ Doing(q, "idle") /\ ~ Doing(r, "idle") => q = r
    /\ \A i \in Resets :
         /\ reset[i] = "none" => uses[i] = 0
         /\ reset[i] = "sent" => uses[i] <= faults + Cardinality(About(i, "mark_used"))
         /\ reset[i] = "used" => uses[i] + Cardinality(About(i, "set_password")) <= AtOnce + faults

(* Tokens that nobody has, and tokens that nobody sees, but for those that *)
(* requests at work answer for.                                            *)
Lost == {t \in Live \ held : \A r \in Requests : req[r].new # t}
Unseen ==
    {t \in Live \ crossed :
       /\ session[t] # "active"
       /\ \A r \in Requests : /\ Doing(r, "session") => req[r].new # t
                              /\ Doing(r, "revoke_token") => req[r].arg # t}
PairsInv ==
    /\ Cardinality(Lost) <= faults /\ Cardinality(Unseen) <= faults
    /\ \A r \in Requests : Doing(r, "revoke_sessions") =>
         \A t \in Live : session[t] = "active" => t \in crossed

SessionsInv ==
    TypeOK /\ RequestsFit /\ StaleInv /\ LineInv /\ BehindInv /\ UsesInv /\ PairsInv

(* A record of a request, and what a step leaves of the requests.          *)
Kinds == AllOps \cup {"none"}
ReqsOf(c, i) == [op : Kinds, pc : Phases, arg : Nat, row : 0..c, new : 0..i]
Others(r) == \A q \in Requests \ {r} : req'[q] = req[q]
About1(r, what, phase, about, row, new) ==
    /\ req'[r].op = what /\ req'[r].pc = phase /\ req'[r].arg = about /\ req'[r].row = row /\ req'[r].new = new
    /\ Others(r)
Moved(r, phase) == About1(r, req[r].op, phase, req[r].arg, req[r].row, req[r].new)
Left(r) == req'[r] = Idle /\ About1(r, "none", "idle", 0, 0, 0)

(* The numbers a state keeps, and the records of its requests.             *)
LEMMA SizesKnown ==
    ASSUME TypeOK
    PROVE  /\ issued \in 0..MaxTokens /\ issued \in Nat /\ MaxTokens \in Nat
           /\ changes \in 0..MaxPasswords /\ changes \in Nat /\ MaxPasswords \in Nat
           /\ password \in 0..changes /\ password \in Nat /\ acked \in 0..changes
           /\ faults \in 0..MaxFaults /\ faults \in Nat /\ MaxFaults \in Nat
           /\ req \in [Requests -> ReqsOf(changes, issued)]
<1>1. issued \in 0..MaxTokens /\ changes \in 0..MaxPasswords /\ faults \in 0..MaxFaults
  BY DEF TypeOK
<1>2. MaxTokens \in Nat /\ MaxPasswords \in Nat /\ MaxFaults \in Nat
  BY SessionsAssumption
<1>3. issued \in Nat /\ changes \in Nat /\ faults \in Nat
  BY <1>1, <1>2
<1>4. password \in 0..changes /\ acked \in 0..changes
  BY DEF TypeOK
<1>5. password \in Nat
  BY <1>3, <1>4
<1>6. req \in [Requests -> ReqsOf(changes, issued)]
  BY Zenon DEF TypeOK, ReqsOf, Kinds
<1> QED
  BY <1>1, <1>2, <1>3, <1>4, <1>5, <1>6

(* The fields of a request's record.                                       *)
LEMMA ReqFields ==
    ASSUME TypeOK, NEW r \in Requests
    PROVE  /\ req[r] \in ReqsOf(changes, issued)
           /\ req[r].op \in Kinds /\ req[r].pc \in Phases /\ req[r].arg \in Nat
           /\ req[r].row \in 0..changes /\ req[r].row \in Nat
           /\ req[r].new \in 0..issued /\ req[r].new \in Nat
<1>1. req[r] \in ReqsOf(changes, issued) /\ changes \in Nat /\ issued \in Nat
  BY SizesKnown
<1> QED
  BY <1>1 DEF ReqsOf

(* A new record for one request leaves the others theirs.                  *)
LEMMA ReqUpdated ==
    ASSUME TypeOK, NEW r \in Requests, NEW c \in Nat, NEW i \in Nat, changes <= c, issued <= i,
           NEW v \in ReqsOf(c, i), req' = [req EXCEPT ![r] = v]
    PROVE  req' \in [Requests -> ReqsOf(c, i)] /\ req'[r] = v /\ About1(r, v.op, v.pc, v.arg, v.row, v.new)
<1>1. req \in [Requests -> ReqsOf(changes, issued)] /\ changes \in Nat /\ issued \in Nat
  BY SizesKnown
<1>2. ReqsOf(changes, issued) \subseteq ReqsOf(c, i)
  BY <1>1 DEF ReqsOf
<1>3. req' \in [Requests -> ReqsOf(c, i)] /\ req'[r] = v /\ \A q \in Requests \ {r} : req'[q] = req[q]
  BY <1>1, <1>2
<1> QED
  BY <1>3 DEF About1, Others

(* A request that goes on keeps what it is about ...                       *)
LEMMA Goes ==
    ASSUME TypeOK, NEW r \in Requests, NEW phase \in Phases, Goto(r, phase)
    PROVE  Moved(r, phase) /\ req' \in [Requests -> ReqsOf(changes, issued)]
<1> DEFINE v == [req[r] EXCEPT !.pc = phase]
<1>1. changes \in Nat /\ issued \in Nat /\ changes <= changes /\ issued <= issued
      /\ req \in [Requests -> ReqsOf(changes, issued)] /\ req[r] \in ReqsOf(changes, issued)
  BY SizesKnown, ReqFields
<1>2. /\ v \in ReqsOf(changes, issued) /\ v.op = req[r].op /\ v.pc = phase
      /\ v.arg = req[r].arg /\ v.row = req[r].row /\ v.new = req[r].new
  BY <1>1 DEF ReqsOf
<1>3. req' = [req EXCEPT ![r] = v]
  BY <1>1 DEF Goto
<1> HIDE DEF v
<1>4. req' \in [Requests -> ReqsOf(changes, issued)] /\ About1(r, v.op, v.pc, v.arg, v.row, v.new)
  BY <1>1, <1>2, <1>3, ReqUpdated
<1> QED
  BY <1>2, <1>4 DEF Moved

(* ... and one that returns, nothing.                                      *)
LEMMA Returns ==
    ASSUME TypeOK, NEW r \in Requests, Return(r)
    PROVE  Left(r) /\ req' \in [Requests -> ReqsOf(changes, issued)]
<1>1. changes \in Nat /\ issued \in Nat /\ changes <= changes /\ issued <= issued
  BY SizesKnown
<1>2. Idle \in ReqsOf(changes, issued)
  BY <1>1 DEF Idle, ReqsOf, Kinds, Phases
<1>3. Idle.op = "none" /\ Idle.pc = "idle" /\ Idle.arg = 0 /\ Idle.row = 0 /\ Idle.new = 0
  BY DEF Idle
<1>4. req' = [req EXCEPT ![r] = Idle]
  BY DEF Return
<1>5. /\ req' \in [Requests -> ReqsOf(changes, issued)] /\ req'[r] = Idle
      /\ About1(r, Idle.op, Idle.pc, Idle.arg, Idle.row, Idle.new)
  BY <1>1, <1>2, <1>4, ReqUpdated
<1> QED
  BY <1>3, <1>5 DEF Left

(* A request that begins.                                                  *)
Begun(r, what, about, phase) ==
    /\ what \in Ops /\ Doing(r, "idle")
    /\ About1(r, what, phase, about, IF what = "switch" THEN password ELSE 0, 0)
    /\ overtaken' = overtaken \ {r}
    /\ overlapped' = (overlapped \/ ~ AllIdle)
    /\ UNCHANGED <<tokens, accesses, passwords, old, faults>>
(* Begin, by what it has done.                                             *)
LEMMA Begins ==
    ASSUME TypeOK, NEW r \in Requests, NEW what \in AllOps, NEW about \in Nat, NEW phase \in Phases,
           Begin(r, what, about, phase)
    PROVE  Begun(r, what, about, phase) /\ req' \in [Requests -> ReqsOf(changes, issued)]
<1>1. changes \in Nat /\ issued \in Nat /\ changes <= changes /\ issued <= issued /\ password \in 0..changes
  BY SizesKnown
<1> DEFINE w == IF what = "switch" THEN password ELSE 0
           v == [op |-> what, pc |-> phase, arg |-> about, new |-> 0, row |-> w]
<1>2. w \in 0..changes
  BY <1>1
<1>3. req' = [req EXCEPT ![r] = v]
  BY DEF Begin, ReadUser
<1>4. v \in ReqsOf(changes, issued)
  BY <1>1, <1>2 DEF ReqsOf, Kinds
<1>5. v.op = what /\ v.pc = phase /\ v.arg = about /\ v.row = w /\ v.new = 0
  OBVIOUS
<1> HIDE DEF v
<1>6. req' \in [Requests -> ReqsOf(changes, issued)] /\ About1(r, v.op, v.pc, v.arg, v.row, v.new)
  BY <1>1, <1>3, <1>4, ReqUpdated
<1> QED
  BY <1>5, <1>6 DEF Begin, Begun

(* A request that has issued a token, and one that has set the password.   *)
Issued(r) ==
    /\ Doing(r, "issue") /\ Ok /\ issued < MaxTokens /\ issued' = issued + 1
    /\ About1(r, req[r].op, "session", req[r].arg, req[r].row, issued')
    /\ root' = [root EXCEPT ![issued'] = RootOf(r, issued')]
    /\ tainted' = IF Taints(r) THEN tainted \cup {issued'} ELSE tainted
    /\ old' = IF r \in overtaken THEN old \cup {root'[issued']} ELSE old
    /\ UNCHANGED <<revoked, expired, accesses, passwords, overtaken>>
(* Issue, by what it has done.                                             *)
LEMMA Issues ==
    ASSUME TypeOK, NEW r \in Requests, Issue(r)
    PROVE  /\ \/ Issued(r)
              \/ Doing(r, "issue") /\ Fault /\ Left(r) /\ UNCHANGED <<tokens, accesses, passwords, marks>>
           /\ req' \in [Requests -> ReqsOf(changes', issued')]
<1>1. /\ changes \in Nat /\ issued \in Nat /\ changes <= changes
      /\ req \in [Requests -> ReqsOf(changes, issued)] /\ req[r] \in ReqsOf(changes, issued)
  BY SizesKnown, ReqFields
<1>2. changes' = changes
  BY DEF Issue, passwords
<1>3. CASE Fault /\ Return(r) /\ UNCHANGED <<tokens, old>>
  BY <1>2, <1>3, Returns DEF Issue, tokens, marks
<1>4. ASSUME Ok /\ issued < MaxTokens, issued' = issued + 1,
             req' = [req EXCEPT ![r].pc = "session", ![r].new = issued'],
             /\ root' = [root EXCEPT ![issued'] = RootOf(r, issued')]
             /\ tainted' = IF Taints(r) THEN tainted \cup {issued'} ELSE tainted
             /\ old' = IF r \in overtaken THEN old \cup {root'[issued']} ELSE old
             /\ UNCHANGED <<revoked, expired>>
      PROVE  Issued(r) /\ req' \in [Requests -> ReqsOf(changes', issued')]
  <2> DEFINE v == [req[r] EXCEPT !.pc = "session", !.new = issued']
  <2>1. req' = [req EXCEPT ![r] = v]
    BY <1>1, <1>4
  <2>2. issued' \in Nat /\ issued <= issued' /\ issued' \in 0..issued' /\ issued' # issued
    BY <1>1, <1>4
  <2>3. req[r] \in ReqsOf(changes, issued')
    BY <1>1, <2>2 DEF ReqsOf
  <2>4. /\ v \in ReqsOf(changes, issued') /\ v.op = req[r].op /\ v.pc = "session"
        /\ v.arg = req[r].arg /\ v.row = req[r].row /\ v.new = issued'
    BY <2>2, <2>3 DEF ReqsOf, Phases
  <2> HIDE DEF v
  <2>5. req' \in [Requests -> ReqsOf(changes, issued')] /\ About1(r, v.op, v.pc, v.arg, v.row, v.new)
    BY <1>1, <2>1, <2>2, <2>4, ReqUpdated
  <2>6. UNCHANGED <<revoked, expired, accesses, passwords, overtaken>> /\ Doing(r, "issue")
    BY <1>4 DEF Issue
  <2>7. About1(r, req[r].op, "session", req[r].arg, req[r].row, issued')
    BY <2>4, <2>5
  <2> QED
    BY <1>2, <1>4, <2>5, <2>6, <2>7, Zenon DEF Issued
<1> QED
  BY <1>3, <1>4 DEF Issue

(* The other steps of a request, by what they have done.                   *)
Cut(r) == ~ Doing(r, "idle") /\ Fault /\ Left(r) /\ UNCHANGED <<tokens, accesses, passwords, marks>>
SessionMade(r) ==
    /\ Doing(r, "session")
    /\ \/ Ok /\ session' = [session EXCEPT ![req[r].new] = "active"]
       \/ Fault /\ UNCHANGED session
    /\ crossed' = IF \E q \in Requests : Doing(q, "revoke_sessions") THEN crossed \cup {req[r].new} ELSE crossed
    /\ \/ req[r].op = "refresh" /\ Moved(r, "look_up") /\ UNCHANGED held
       \/ req[r].op # "refresh" /\ Left(r) /\ held' = held \cup {req[r].new}
    /\ UNCHANGED <<tokens, blacklist, passwords, marks>>
NewFound(r) ==
    Doing(r, "look_up") /\ Ok /\ Moved(r, "revoke_old") /\ UNCHANGED <<tokens, accesses, passwords, marks>>
OldRevoked(r) ==
    /\ Doing(r, "revoke_old")
    /\ \/ Ok /\ revoked' = revoked \cup {req[r].arg}
       \/ Fault /\ UNCHANGED revoked
    /\ held' = held \cup {req[r].new} /\ Left(r)
    /\ UNCHANGED <<expired, issued, root, tainted, session, blacklist, crossed, passwords, marks>>
Blacklisted(r) ==
    /\ Doing(r, "blacklist")
    /\ \/ Ok /\ blacklist' = blacklist \cup {req[r].arg}
       \/ Fault /\ UNCHANGED blacklist
    /\ Moved(r, "revoke_all")
    /\ UNCHANGED <<tokens, session, held, crossed, passwords, marks>>
PasswordSet(r) ==
    /\ Doing(r, "set_password") /\ Ok
    /\ changes < MaxPasswords /\ changes' = changes + 1 /\ password' = changes'
    /\ behind' = IF \E q \in Requests : Doing(q, "save_user") THEN behind \cup {changes'} ELSE behind
    /\ \/ /\ req[r].op = "reset" /\ uses' = [uses EXCEPT ![req[r].arg] = @ + 1]
          /\ About1(r, "reset", "mark_used", req[r].arg, changes', req[r].new)
       \/ /\ req[r].op # "reset" /\ UNCHANGED uses
          /\ About1(r, req[r].op, "revoke_all", req[r].arg, changes', req[r].new)
    /\ UNCHANGED <<tokens, accesses, reset, acked, marks>>
ResetMarked(r) ==
    /\ Doing(r, "mark_used")
    /\ \/ Ok /\ reset' = [reset EXCEPT ![req[r].arg] = "used"]
       \/ Fault /\ UNCHANGED reset
    /\ Moved(r, "revoke_all")
    /\ UNCHANGED <<tokens, accesses, password, changes, acked, uses, behind, marks>>
AllRevoked(r) ==
    /\ Doing(r, "revoke_all")
    /\ \/ /\ Ok /\ revoked' = revoked \cup Rows
          /\ overtaken' = {q \in Requests : ~ Doing(q, "idle")} \ {r}
          /\ old' = Rows /\ tainted' = {}
          /\ \/ req[r].op = "logout" /\ Moved(r, "revoke_sessions")
             \/ Left(r)
       \/ Fault /\ Left(r) /\ UNCHANGED <<revoked, overtaken, old, tainted>>
    /\ acked' \in {acked, req[r].row}
    /\ UNCHANGED <<expired, issued, root, accesses, password, reset, changes, uses, behind>>
SessionsRevoked(r) ==
    /\ Doing(r, "revoke_sessions") /\ Ok
    /\ session' = [t \in Tokens |-> IF session[t] = "active" THEN "revoked" ELSE session[t]]
    /\ Left(r)
    /\ UNCHANGED <<tokens, blacklist, held, crossed, passwords, marks>>
ThisRevoked(r) ==
    /\ Doing(r, "revoke_session") /\ Ok
    /\ session' = [session EXCEPT ![req[r].arg] = "revoked"]
    /\ Moved(r, "revoke_token")
    /\ UNCHANGED <<tokens, blacklist, held, crossed, passwords, marks>>
ItsTokenRevoked(r) ==
    /\ Doing(r, "revoke_token") /\ Ok
    /\ revoked' = revoked \cup {req[r].arg}
    /\ Left(r)
    /\ UNCHANGED <<expired, issued, root, tainted, accesses, passwords, marks>>
UserSaved(r) ==
    /\ Doing(r, "save_user") /\ Ok
    /\ password' = req[r].row /\ Moved(r, "issue")
    /\ UNCHANGED <<tokens, accesses, reset, changes, acked, uses, behind, marks>>
Stepped(r) ==
    \/ Issued(r) \/ Cut(r) \/ SessionMade(r) \/ NewFound(r) \/ OldRevoked(r) \/ Blacklisted(r) \/ PasswordSet(r)
    \/ ResetMarked(r) \/ AllRevoked(r) \/ SessionsRevoked(r) \/ ThisRevoked(r) \/ ItsTokenRevoked(r) \/ UserSaved(r)
Asked(r) ==
    \/ Begun(r, "login", 0, "issue")
    \/ \E t \in Tokens : t \in held /\ CanBeUsed(t) /\ Begun(r, "refresh", t, "issue")
    \/ \E t \in Tokens : t \in held /\ Begun(r, "logout", t, "blacklist")
    \/ Begun(r, "change", 0, "set_password")
    \/ \E i \in Resets : reset[i] = "sent" /\ Begun(r, "reset", i, "set_password")
    \/ \E t \in Tokens : session[t] # "none" /\ Begun(r, "revoke", t, "revoke_session")
    \/ Begun(r, "switch", 0, "save_user")
ReqsTyped == req' \in [Requests -> ReqsOf(changes', issued')]

(* SetPassword either sets the password or ends the request.               *)
LEMMA SetPasswords ==
    ASSUME TypeOK, NEW r \in Requests, SetPassword(r)
    PROVE  (PasswordSet(r) \/ Cut(r)) /\ ReqsTyped
<1>1. /\ changes \in Nat /\ issued \in Nat /\ issued <= issued
      /\ req \in [Requests -> ReqsOf(changes, issued)] /\ req[r] \in ReqsOf(changes, issued)
  BY SizesKnown, ReqFields
<1>2. issued' = issued /\ Doing(r, "set_password") /\ UNCHANGED <<tokens, accesses, reset, acked, marks>>
  BY DEF SetPassword, tokens
<1>3. CASE Fault /\ Return(r) /\ UNCHANGED <<changes, password, uses, behind>>
  BY <1>2, <1>3, Returns DEF Cut, ReqsTyped, passwords, Doing
<1>4. ASSUME changes' = changes + 1, NEW phase \in {"mark_used", "revoke_all"},
             req' = [req EXCEPT ![r].pc = phase, ![r].row = changes']
      PROVE  About1(r, req[r].op, phase, req[r].arg, changes', req[r].new) /\ ReqsTyped
  <2> DEFINE v == [req[r] EXCEPT !.pc = phase, !.row = changes']
  <2>1. req' = [req EXCEPT ![r] = v]
    BY <1>1, <1>4
  <2>2. changes' \in Nat /\ changes <= changes' /\ changes' \in 0..changes'
    BY <1>1, <1>4
  <2>3. req[r] \in ReqsOf(changes', issued)
    BY <1>1, <2>2 DEF ReqsOf
  <2>4. /\ v \in ReqsOf(changes', issued) /\ v.op = req[r].op /\ v.pc = phase
        /\ v.arg = req[r].arg /\ v.row = changes' /\ v.new = req[r].new
    BY <2>2, <2>3 DEF ReqsOf, Phases
  <2> HIDE DEF v
  <2>5. req' \in [Requests -> ReqsOf(changes', issued)] /\ About1(r, v.op, v.pc, v.arg, v.row, v.new)
    BY <1>1, <2>1, <2>2, <2>4, ReqUpdated
  <2> QED
    BY <1>2, <2>4, <2>5 DEF ReqsTyped
<1>5. ASSUME Ok, changes < MaxPasswords, changes' = changes + 1, password' = changes',
             behind' = IF \E q \in Requests : Doing(q, "save_user") THEN behind \cup {changes'} ELSE behind,
             IF req[r].op = "reset"
             THEN /\ uses' = [uses EXCEPT ![req[r].arg] = @ + 1]
                  /\ req' = [req EXCEPT ![r].pc = "mark_used", ![r].row = changes']
             ELSE /\ UNCHANGED uses
                  /\ req' = [req EXCEPT ![r].pc = "revoke_all", ![r].row = changes']
      PROVE  PasswordSet(r) /\ ReqsTyped
  <2>1. CASE req[r].op = "reset"
    BY <1>2, <1>4, <1>5, <2>1 DEF PasswordSet
  <2>2. CASE req[r].op # "reset"
    BY <1>2, <1>4, <1>5, <2>2 DEF PasswordSet
  <2> QED
    BY <2>1, <2>2
<1> QED
  BY <1>3, <1>5 DEF SetPassword

(* Every step of a request is one of the above.                            *)
LEMMA Steps ==
    ASSUME TypeOK, NEW r \in Requests, Step(r)
    PROVE  Stepped(r) /\ ReqsTyped
<1>1. {"look_up", "revoke_old", "revoke_all", "revoke_sessions", "revoke_token", "issue"} \subseteq Phases
  BY DEF Phases
<1>2. ASSUME req' \in [Requests -> ReqsOf(changes, issued)], UNCHANGED <<changes, issued>> PROVE ReqsTyped
  BY <1>2 DEF ReqsTyped
<1>3. CASE Issue(r)
  BY <1>3, Issues DEF Stepped, Cut, ReqsTyped, Doing
<1>4. CASE CreateSession(r)
  BY <1>1, <1>2, <1>4, Goes, Returns DEF CreateSession, Stepped, SessionMade, Returned, tokens, passwords
<1>5. CASE LookUpNew(r)
  BY <1>1, <1>2, <1>5, Goes, Returns DEF LookUpNew, Stepped, NewFound, Cut, Doing, tokens, passwords
<1>6. CASE RevokeOld(r)
  BY <1>2, <1>6, Returns DEF RevokeOld, Stepped, OldRevoked, Replaced, Returned, passwords
<1>7. CASE Blacklist(r)
  BY <1>1, <1>2, <1>7, Goes DEF Blacklist, Stepped, Blacklisted, tokens, passwords
<1>8. CASE SetPassword(r)
  BY <1>8, SetPasswords DEF Stepped
<1>9. CASE MarkUsed(r)
  BY <1>1, <1>2, <1>9, Goes DEF MarkUsed, Stepped, ResetMarked, Marked, tokens
<1>10. CASE RevokeAll(r)
  <2>1. UNCHANGED <<changes, issued>> /\ acked' \in {acked, req[r].row}
    BY <1>10 DEF RevokeAll
  <2>2. ReqsTyped /\ (Goto(r, "revoke_sessions") => Moved(r, "revoke_sessions")) /\ (Return(r) => Left(r))
    BY <1>1, <1>2, <1>10, <2>1, Goes, Returns DEF RevokeAll
  <2>3. AllRevoked(r)
    BY <1>10, <2>1, <2>2 DEF RevokeAll, AllRevoked, AllRows
  <2> QED
    BY <2>2, <2>3 DEF Stepped
<1>11. CASE RevokeSessions(r)
  BY <1>2, <1>11, Returns DEF RevokeSessions, Stepped, SessionsRevoked, Cut, Doing, tokens, passwords, accesses
<1>12. CASE RevokeThis(r)
  BY <1>1, <1>2, <1>12, Goes, Returns DEF RevokeThis, Stepped, ThisRevoked, Cut, Doing, tokens, passwords, accesses
<1>13. CASE RevokeItsToken(r)
  BY <1>2, <1>13, Returns DEF RevokeItsToken, Stepped, ItsTokenRevoked, Cut, Doing, tokens, passwords
<1>14. CASE SaveUser(r)
  BY <1>1, <1>2, <1>14, Goes, Returns DEF SaveUser, Stepped, UserSaved, Cut, Doing, tokens, passwords
<1>15. CASE CutShort(r)
  BY <1>2, <1>15, Returns DEF CutShort, Stepped, Cut, tokens, passwords
<1> QED
  BY <1>3, <1>4, <1>5, <1>6, <1>7, <1>8, <1>9, <1>10, <1>11, <1>12, <1>13, <1>14, <1>15 DEF Step

(* Every beginning of a request is one of those in Asked.                  *)
LEMMA Asks ==
    ASSUME TypeOK, NEW r \in Requests, Ask(r)
    PROVE  Asked(r) /\ ReqsTyped
<1>1. {"issue", "blacklist", "set_password", "revoke_session", "save_user"} \subseteq Phases
  BY DEF Phases
<1>2. {"login", "refresh", "logout", "change", "reset", "revoke", "switch"} \subseteq AllOps
  BY DEF AllOps
<1>3. 0 \in Nat /\ Tokens \subseteq Nat /\ Resets \subseteq Nat
  BY SessionsAssumption DEF Tokens, Resets
<1>4. ASSUME NEW what \in AllOps, NEW about \in Nat, NEW phase \in Phases, Begin(r, what, about, phase)
      PROVE  Begun(r, what, about, phase) /\ ReqsTyped
  BY <1>4, Begins DEF ReqsTyped, Begin, tokens, passwords
<1>5. CASE Login(r) \/ ChangePassword(r) \/ Switch(r)
  BY <1>1, <1>2, <1>3, <1>4, <1>5 DEF Login, ChangePassword, Switch, Asked
<1>6. ASSUME NEW t \in Tokens, Refresh(r, t) \/ Logout(r, t) \/ RevokeSession(r, t) PROVE Asked(r) /\ ReqsTyped
  BY <1>1, <1>2, <1>3, <1>4, <1>6 DEF Refresh, Logout, RevokeSession, Asked
<1>7. ASSUME NEW i \in Resets, ResetPassword(r, i) PROVE Asked(r) /\ ReqsTyped
  BY <1>1, <1>2, <1>3, <1>4, <1>7 DEF ResetPassword, Asked
<1> QED
  BY <1>5, <1>6, <1>7 DEF Ask

(* What else happens, to no request.                                       *)
ResetAsked ==
    \E i \in Resets :
        /\ reset[i] = "none" /\ reset' = [reset EXCEPT ![i] = "sent"]
        /\ UNCHANGED <<tokens, accesses, password, changes, acked, uses, behind, marks, req, overlapped, faults>>
TokenExpired ==
    \E t \in Rows \ expired :
        /\ Fault /\ expired' = expired \cup {t}
        /\ UNCHANGED <<revoked, issued, root, tainted, accesses, passwords, marks, req>>
Elsewhere == ResetAsked \/ TokenExpired \/ UNCHANGED vars

(* Every step is of one request or of none.                                *)
LEMMA NextSteps ==
    ASSUME TypeOK, [Next]_vars
    PROVE  ReqsTyped /\ (Elsewhere \/ \E r \in Requests : Asked(r) \/ Stepped(r))
<1>1. ASSUME NEW r \in Requests, Ask(r) PROVE Asked(r) /\ ReqsTyped
  BY <1>1, Asks
<1>2. ASSUME NEW r \in Requests, Step(r) PROVE Stepped(r) /\ ReqsTyped
  BY <1>2, Steps
<1>3. ASSUME \/ \E i \in Resets : RequestPasswordReset(i)
             \/ \E t \in Tokens : Expire(t)
             \/ UNCHANGED vars
      PROVE  Elsewhere
  BY <1>3 DEF RequestPasswordReset, Expire, Elsewhere, ResetAsked, TokenExpired
<1>4. ASSUME Elsewhere PROVE ReqsTyped
  <2>1. UNCHANGED <<req, changes, issued>>
    BY <1>4 DEF Elsewhere, ResetAsked, TokenExpired, vars, tokens, passwords
  <2> QED
    BY <2>1, SizesKnown DEF ReqsTyped
<1> QED
  BY <1>1, <1>2, <1>3, <1>4 DEF Next

(* What is known of the sizes and sets after a step.                       *)
LEMMA SizesStep ==
    ASSUME TypeOK, Elsewhere \/ \E r \in Requests : Asked(r) \/ Stepped(r)
    PROVE  /\ issued' \in 0..MaxTokens /\ issued' \in Nat /\ issued <= issued'
           /\ changes' \in 0..MaxPasswords /\ changes' \in Nat /\ changes <= changes'
           /\ faults' \in 0..MaxFaults /\ faults' \in Nat /\ faults <= faults'
           /\ overlapped' \in BOOLEAN
           /\ overtaken' \subseteq Requests
<1>1. /\ issued \in 0..MaxTokens /\ issued \in Nat /\ MaxTokens \in Nat
      /\ changes \in 0..MaxPasswords /\ changes \in Nat /\ MaxPasswords \in Nat
      /\ faults \in 0..MaxFaults /\ faults \in Nat /\ MaxFaults \in Nat
  BY SizesKnown
<1>2. issued' = issued \/ (issued < MaxTokens /\ issued' = issued + 1)
  BY DEF Elsewhere, ResetAsked, TokenExpired, vars, tokens, Asked, Begun, Stepped, Issued, Cut, SessionMade, NewFound,
         OldRevoked, Blacklisted, PasswordSet, ResetMarked, AllRevoked, SessionsRevoked, ThisRevoked, ItsTokenRevoked,
         UserSaved
<1>3. changes' = changes \/ (changes < MaxPasswords /\ changes' = changes + 1)
  BY DEF Elsewhere, ResetAsked, TokenExpired, vars, passwords, Asked, Begun, Stepped, Issued, Cut, SessionMade, NewFound,
         OldRevoked, Blacklisted, PasswordSet, ResetMarked, AllRevoked, SessionsRevoked, ThisRevoked, ItsTokenRevoked,
         UserSaved
<1>4. faults' = faults \/ (faults < MaxFaults /\ faults' = faults + 1)
  BY DEF Elsewhere, ResetAsked, TokenExpired, vars, Asked, Begun, Stepped, Issued, Cut, SessionMade, NewFound,
         OldRevoked, Blacklisted, PasswordSet, ResetMarked, AllRevoked, SessionsRevoked, ThisRevoked, ItsTokenRevoked,
         UserSaved, Ok, Fault
<1>5. overlapped' = overlapped \/ overlapped' = (overlapped \/ ~ AllIdle)
  BY DEF Elsewhere, ResetAsked, TokenExpired, vars, Asked, Begun, Stepped, Issued, Cut, SessionMade, NewFound,
         OldRevoked, Blacklisted, PasswordSet, ResetMarked, AllRevoked, SessionsRevoked, ThisRevoked, ItsTokenRevoked,
         UserSaved, Ok, Fault
<1>6. overtaken' \subseteq overtaken \/ overtaken' \subseteq Requests
  BY DEF Elsewhere, ResetAsked, TokenExpired, vars, marks, Asked, Begun, Stepped, Issued, Cut, SessionMade, NewFound,
         OldRevoked, Blacklisted, PasswordSet, ResetMarked, AllRevoked, SessionsRevoked, ThisRevoked, ItsTokenRevoked,
         UserSaved
<1>7. issued' \in 0..MaxTokens /\ issued' \in Nat /\ issued <= issued'
  BY <1>1, <1>2
<1>8. changes' \in 0..MaxPasswords /\ changes' \in Nat /\ changes <= changes'
  BY <1>1, <1>3
<1>9. faults' \in 0..MaxFaults /\ faults' \in Nat /\ faults <= faults'
  BY <1>1, <1>4
<1>10. overlapped \in BOOLEAN /\ overtaken \subseteq Requests
  BY DEF TypeOK
<1>11. overlapped' \in BOOLEAN
  BY <1>5, <1>10, Zenon
<1> QED
  BY <1>6, <1>7, <1>8, <1>9, <1>10, <1>11

(* Where the tokens and numbers of a request come from.                    *)
LEMMA RequestFacts ==
    ASSUME TypeOK, RequestsFit, NEW r \in Requests
    PROVE  /\ IssuesFit(r) /\ OthersFit(r)
           /\ Doing(r, "issue") /\ req[r].op = "refresh" => req[r].arg \in Rows /\ root[req[r].arg] \in Rows
           /\ Doing(r, "session") \/ Doing(r, "revoke_old") => req[r].new \in Rows
           /\ Doing(r, "revoke_old") \/ Doing(r, "revoke_token") => req[r].arg \in Rows
           /\ Doing(r, "blacklist") => req[r].arg \in held
<1>1. IssuesFit(r) /\ OthersFit(r) /\ \A t \in Rows : root[t] \in Rows
  BY DEF RequestsFit
<1>2. req[r].new \in 0..issued /\ issued \in Nat
  BY ReqFields, SizesKnown
<1>3. req[r].new # 0 => req[r].new \in Rows
  BY <1>2 DEF Rows
<1> QED
  BY <1>1, <1>3 DEF IssuesFit, OthersFit

(* Who changes what.                                                       *)
SomeStep == Elsewhere \/ \E r \in Requests : Asked(r) \/ Stepped(r)
(* Each variable changes in the steps that are named for it, and in no     *)
(* other.                                                                  *)
LEMMA WhoChanges ==
    ASSUME SomeStep
    PROVE  /\ revoked' = revoked \/ \E r \in Requests : OldRevoked(r) \/ ItsTokenRevoked(r) \/ AllRevoked(r)
           /\ expired' = expired \/ TokenExpired
           /\ held' = held \/ \E r \in Requests : SessionMade(r) \/ OldRevoked(r)
           /\ blacklist' = blacklist \/ \E r \in Requests : Blacklisted(r)
           /\ UNCHANGED <<issued, root>> \/ \E r \in Requests : Issued(r)
           /\ UNCHANGED <<old, tainted>> \/ \E r \in Requests : Issued(r) \/ AllRevoked(r)
           /\ overtaken' = overtaken \/ \E r \in Requests : Asked(r) \/ AllRevoked(r)
           /\ crossed' = crossed \/ \E r \in Requests : SessionMade(r)
           /\ session' = session \/ \E r \in Requests : SessionMade(r) \/ SessionsRevoked(r) \/ ThisRevoked(r)
           /\ reset' = reset \/ ResetAsked \/ \E r \in Requests : ResetMarked(r)
           /\ UNCHANGED <<changes, uses, behind>> \/ \E r \in Requests : PasswordSet(r)
           /\ password' = password \/ \E r \in Requests : PasswordSet(r) \/ UserSaved(r)
           /\ acked' = acked \/ \E r \in Requests : AllRevoked(r)
<1> USE DEF SomeStep, Elsewhere, ResetAsked, TokenExpired, vars, tokens, accesses, passwords, marks, Asked, Begun, Stepped,
            Issued, Cut, SessionMade, NewFound, OldRevoked, Blacklisted, PasswordSet, ResetMarked, AllRevoked,
            SessionsRevoked, ThisRevoked, ItsTokenRevoked, UserSaved
<1>1. revoked' = revoked \/ \E r \in Requests : OldRevoked(r) \/ ItsTokenRevoked(r) \/ AllRevoked(r)
  OBVIOUS
<1>2. expired' = expired \/ TokenExpired
  OBVIOUS
<1>3. held' = held \/ \E r \in Requests : SessionMade(r) \/ OldRevoked(r)
  OBVIOUS
<1>4. blacklist' = blacklist \/ \E r \in Requests : Blacklisted(r)
  OBVIOUS
<1>5. UNCHANGED <<issued, root>> \/ \E r \in Requests : Issued(r)
  OBVIOUS
<1>6. UNCHANGED <<old, tainted>> \/ \E r \in Requests : Issued(r) \/ AllRevoked(r)
  OBVIOUS
<1>7. overtaken' = overtaken \/ \E r \in Requests : Asked(r) \/ AllRevoked(r)
  OBVIOUS
<1>8. crossed' = crossed \/ \E r \in Requests : SessionMade(r)
  OBVIOUS
<1>9. session' = session \/ \E r \in Requests : SessionMade(r) \/ SessionsRevoked(r) \/ ThisRevoked(r)
  OBVIOUS
<1>10. reset' = reset \/ ResetAsked \/ \E r \in Requests : ResetMarked(r)
  OBVIOUS
<1>11. UNCHANGED <<changes, uses, behind>> \/ \E r \in Requests : PasswordSet(r)
  OBVIOUS
<1>12. password' = password \/ \E r \in Requests : PasswordSet(r) \/ UserSaved(r)
  OBVIOUS
<1>13. acked' = acked \/ \E r \in Requests : AllRevoked(r)
  OBVIOUS
<1> HIDE DEF SomeStep, Elsewhere, ResetAsked, TokenExpired, Asked, Stepped,
            Issued, Cut, SessionMade, NewFound, OldRevoked, Blacklisted, PasswordSet, ResetMarked, AllRevoked,
            SessionsRevoked, ThisRevoked, ItsTokenRevoked, UserSaved
<1> QED
  BY <1>1, <1>2, <1>3, <1>4, <1>5, <1>6, <1>7, <1>8, <1>9, <1>10, <1>11, <1>12, <1>13

(* Types are kept.                                                         *)
LEMMA TypeStep ==
    ASSUME TypeOK, RequestsFit, [Next]_vars
    PROVE  TypeOK'
<1>1. ReqsTyped /\ SomeStep
  BY NextSteps DEF SomeStep
<1>2. /\ issued' \in 0..MaxTokens /\ issued' \in Nat /\ issued <= issued' /\ issued \in Nat /\ MaxTokens \in Nat
      /\ changes' \in 0..MaxPasswords /\ changes' \in Nat /\ changes <= changes' /\ changes \in Nat
      /\ faults' \in 0..MaxFaults /\ overlapped' \in BOOLEAN /\ overtaken' \subseteq Requests
  BY <1>1, SizesStep, SizesKnown DEF SomeStep
<1>3. /\ revoked \subseteq Rows /\ expired \subseteq Rows /\ held \subseteq Rows /\ blacklist \subseteq held
      /\ old \subseteq Rows /\ tainted \subseteq Rows /\ crossed \subseteq Rows
      /\ behind \subseteq 1..changes /\ password \in 0..changes /\ acked \in 0..changes
  BY DEF TypeOK
<1>4. /\ session \in [Tokens -> {"none", "active", "revoked"}]
      /\ reset \in [Resets -> {"none", "sent", "used"}]
      /\ uses \in [Resets -> Nat] /\ root \in [Tokens -> Tokens]
      /\ \A t \in Tokens : session[t] # "none" => t \in Rows
  BY DEF TypeOK
<1>5. Rows \subseteq Rows' /\ Rows' \subseteq Tokens /\ Rows \subseteq Tokens
  BY <1>2 DEF Rows, Tokens
<1>6. revoked' \subseteq Rows' /\ expired' \subseteq Rows'
  <2>1. ASSUME NEW r \in Requests, OldRevoked(r) \/ ItsTokenRevoked(r) \/ AllRevoked(r) PROVE revoked' \subseteq Rows
    BY <1>3, <2>1, RequestFacts DEF OldRevoked, ItsTokenRevoked, AllRevoked
  <2>2. TokenExpired => expired' \subseteq Rows
    BY <1>3 DEF TokenExpired
  <2> QED
    BY <1>1, <1>3, <1>5, <2>1, <2>2, WhoChanges
<1>7. held' \subseteq Rows' /\ blacklist' \subseteq held' /\ crossed' \subseteq Rows'
  <2>1. ASSUME NEW r \in Requests, SessionMade(r) \/ OldRevoked(r)
        PROVE  held' \subseteq Rows /\ held \subseteq held' /\ crossed' \subseteq Rows
    BY <1>3, <2>1, RequestFacts DEF SessionMade, OldRevoked, accesses
  <2>2. ASSUME NEW r \in Requests, Blacklisted(r) PROVE blacklist' \subseteq held
    BY <1>3, <2>2, RequestFacts DEF Blacklisted
  <2> QED
    BY <1>1, <1>3, <1>5, <2>1, <2>2, WhoChanges
<1>8. old' \subseteq Rows' /\ tainted' \subseteq Rows' /\ root' \in [Tokens -> Tokens]
  <2>1. ASSUME NEW r \in Requests, Issued(r)
        PROVE  old' \subseteq Rows' /\ tainted' \subseteq Rows' /\ root' \in [Tokens -> Tokens]
    <3>1. issued' \in Rows' /\ issued' \in Tokens
      BY <1>2, <2>1 DEF Issued, Rows, Tokens
    <3>2. RootOf(r, issued') \in Rows' /\ RootOf(r, issued') \in Tokens
      BY <1>5, <2>1, <3>1, RequestFacts DEF Issued, RootOf
    <3>3. root' \in [Tokens -> Tokens] /\ root'[issued'] \in Rows'
      BY <1>4, <2>1, <3>1, <3>2 DEF Issued
    <3> QED
      BY <1>3, <1>5, <2>1, <3>1, <3>3 DEF Issued
  <2>2. ASSUME NEW r \in Requests, AllRevoked(r) PROVE old' \subseteq Rows /\ tainted' \subseteq Rows
    BY <1>3, <2>2 DEF AllRevoked
  <2> QED
    BY <1>1, <1>3, <1>4, <1>5, <2>1, <2>2, WhoChanges
<1>9. behind' \subseteq 1..changes' /\ password' \in 0..changes' /\ acked' \in 0..changes'
  <2>1. 1..changes \subseteq 1..changes' /\ 0..changes \subseteq 0..changes'
    BY <1>2
  <2>2. ASSUME NEW r \in Requests, PasswordSet(r) PROVE behind' \subseteq 1..changes' /\ password' \in 0..changes'
    <3>1. changes' \in 1..changes' /\ changes' \in 0..changes'
      BY <1>2, <2>2 DEF PasswordSet
    <3> QED
      BY <1>3, <2>1, <2>2, <3>1 DEF PasswordSet
  <2>3. ASSUME NEW r \in Requests, UserSaved(r) PROVE password' \in 0..changes
    BY <2>3, ReqFields DEF UserSaved
  <2>4. ASSUME NEW r \in Requests, AllRevoked(r) PROVE acked' \in 0..changes
    BY <1>3, <2>4, ReqFields DEF AllRevoked
  <2> QED
    BY <1>1, <1>3, <2>1, <2>2, <2>3, <2>4, WhoChanges
<1>10. session' \in [Tokens -> {"none", "active", "revoked"}] /\ \A t \in Tokens : session'[t] # "none" => t \in Rows'
  <2>1. ASSUME NEW r \in Requests, SessionMade(r)
        PROVE  session' \in [Tokens -> {"none", "active", "revoked"}] /\ \A t \in Tokens : session'[t] # "none" => t \in Rows
    <3>1. req[r].new \in Rows
      BY <2>1, RequestFacts DEF SessionMade
    <3> QED
      BY <1>4, <2>1, <3>1 DEF SessionMade
  <2>2. ASSUME NEW r \in Requests, SessionsRevoked(r)
        PROVE  session' \in [Tokens -> {"none", "active", "revoked"}] /\ \A t \in Tokens : session'[t] # "none" => t \in Rows
    BY <1>4, <2>2 DEF SessionsRevoked
  <2>3. ASSUME NEW r \in Requests, ThisRevoked(r)
        PROVE  session' \in [Tokens -> {"none", "active", "revoked"}] /\ \A t \in Tokens : session'[t] # "none" => t \in Rows
    <3>1. req[r].arg \in Rows
      BY <2>3, RequestFacts DEF ThisRevoked, OthersFit
    <3> QED
      BY <1>4, <2>3, <3>1 DEF ThisRevoked
  <2> QED
    BY <1>1, <1>4, <1>5, <2>1, <2>2, <2>3, WhoChanges
<1>11. reset' \in [Resets -> {"none", "sent", "used"}] /\ uses' \in [Resets -> Nat]
  <2>1. ASSUME NEW r \in Requests, ResetMarked(r) PROVE reset' \in [Resets -> {"none", "sent", "used"}]
    BY <1>4, <2>1 DEF ResetMarked
  <2>2. ResetAsked => reset' \in [Resets -> {"none", "sent", "used"}]
    BY <1>4 DEF ResetAsked
  <2>3. ASSUME NEW r \in Requests, PasswordSet(r) PROVE uses' \in [Resets -> Nat]
    BY <1>4, <2>3 DEF PasswordSet
  <2> QED
    BY <1>1, <1>4, <2>1, <2>2, <2>3, WhoChanges
<1> QED
  BY <1>1, <1>2, <1>6, <1>7, <1>8, <1>9, <1>10, <1>11, Zenon DEF TypeOK, ReqsTyped, ReqsOf, Kinds

(* Tokens are added, and sessions and reset tokens go one way only.        *)
Grown ==
    /\ Rows \subseteq Rows' /\ held \subseteq held'
    /\ \A t \in Rows : root'[t] = root[t]
    /\ \A t \in Tokens : session[t] = "revoked" => session'[t] = "revoked"
    /\ \A t \in Tokens : session[t] # "none" => session'[t] # "none"
    /\ \A t \in Tokens : session[t] = "none" =>
         session'[t] = "none" \/ \E r \in Requests : SessionMade(r) /\ t = req[r].new
    /\ \A i \in Resets : reset[i] # "none" => reset'[i] # "none"
(* Tokens, changes and what is remembered of them only ever get more.      *)
LEMMA Grows ==
    ASSUME TypeOK, RequestsFit, SomeStep
    PROVE  Grown
<1>1. issued \in Nat /\ issued' \in Nat /\ issued <= issued'
  BY SizesKnown, SizesStep DEF SomeStep
<1>2. /\ session \in [Tokens -> {"none", "active", "revoked"}] /\ reset \in [Resets -> {"none", "sent", "used"}]
      /\ root \in [Tokens -> Tokens] /\ Rows \subseteq Tokens
  BY <1>1, SizesKnown DEF TypeOK, Rows, Tokens
<1>3. Rows \subseteq Rows'
  BY <1>1 DEF Rows
<1>4. held \subseteq held'
  BY WhoChanges DEF SessionMade, OldRevoked
<1>5. ASSUME NEW t \in Rows PROVE root'[t] = root[t]
  <2>1. ASSUME NEW r \in Requests, Issued(r) PROVE root'[t] = root[t]
    <3>1. t # issued'
      BY <1>1, <2>1 DEF Issued, Rows
    <3> QED
      BY <1>2, <2>1, <3>1 DEF Issued
  <2> QED
    BY <2>1, WhoChanges
<1>6. ASSUME NEW t \in Tokens
      PROVE  /\ session[t] = "revoked" => session'[t] = "revoked"
             /\ session[t] # "none" => session'[t] # "none"
             /\ session[t] = "none" => session'[t] = "none" \/ \E r \in Requests : SessionMade(r) /\ t = req[r].new
  <2>1. ASSUME NEW r \in Requests, SessionMade(r)
        PROVE  /\ session'[t] = session[t] \/ session'[t] = "active"
               /\ t # req[r].new => session'[t] = session[t]
               /\ session[req[r].new] = "none"
    BY <1>2, <2>1, RequestFacts DEF SessionMade, IssuesFit
  <2>2. ASSUME NEW r \in Requests, SessionsRevoked(r)
        PROVE  session'[t] = session[t] \/ (session'[t] = "revoked" /\ session[t] = "active")
    BY <1>2, <2>2 DEF SessionsRevoked
  <2>3. ASSUME NEW r \in Requests, ThisRevoked(r)
        PROVE  session'[t] = session[t] \/ (session'[t] = "revoked" /\ session[t] # "none")
    BY <1>2, <2>3, RequestFacts DEF ThisRevoked, OthersFit
  <2>4. CASE \E r \in Requests : SessionMade(r)
    BY <2>1, <2>4
  <2>5. CASE \E r \in Requests : SessionsRevoked(r)
    BY <2>2, <2>5
  <2>6. CASE \E r \in Requests : ThisRevoked(r)
    BY <2>3, <2>6
  <2> QED
    BY <2>4, <2>5, <2>6, WhoChanges
<1>7. ASSUME NEW i \in Resets, reset[i] # "none" PROVE reset'[i] # "none"
  BY <1>2, <1>7, WhoChanges DEF ResetAsked, ResetMarked
<1> QED
  BY <1>3, <1>4, <1>5, <1>6, <1>7 DEF Grown

(* A request that does nothing still fits.                                 *)
LEMMA UntouchedFits ==
    ASSUME TypeOK, RequestsFit, Grown, NEW q \in Requests, req'[q] = req[q],
           Doing(q, "session") => session'[req[q].new] = "none"
    PROVE  IssuesFit(q)' /\ OthersFit(q)'
<1>1. IssuesFit(q) /\ OthersFit(q) /\ \A t \in Rows : root[t] \in Rows
  BY RequestFacts DEF RequestsFit
<1>2. req[q].new \in 0..issued /\ issued \in Nat /\ MaxTokens \in Nat /\ issued \in 0..MaxTokens
  BY ReqFields, SizesKnown
<1>3. (req[q].new # 0 => req[q].new \in Rows) /\ Rows \subseteq Tokens
  BY <1>2 DEF Rows, Tokens
<1>4. IssuesFit(q)'
  BY <1>1, <1>3 DEF IssuesFit, Doing, Grown
<1>5. OthersFit(q)'
  BY <1>1, <1>3 DEF OthersFit, Doing, Grown
<1> QED
  BY <1>4, <1>5

(* A request that makes a step, or has begun, fits what it is now about.   *)
LEMMA ActorFits ==
    ASSUME TypeOK, RequestsFit, Grown, NEW r \in Requests, Asked(r) \/ Stepped(r)
    PROVE  /\ IssuesFit(r)' /\ OthersFit(r)'
           /\ Doing(r, "session")' => Issued(r)
           /\ Others(r)
<1>1. IssuesFit(r) /\ OthersFit(r) /\ \A t \in Rows : root[t] \in Rows
  BY RequestFacts DEF RequestsFit
<1>2. /\ req[r].new \in 0..issued /\ req[r].new \in Nat /\ issued \in Nat /\ MaxTokens \in Nat /\ issued \in 0..MaxTokens
      /\ req[r].arg \in Nat
  BY ReqFields, SizesKnown
<1>3. (req[r].new # 0 => req[r].new \in Rows) /\ Rows \subseteq Tokens
  BY <1>2 DEF Rows, Tokens
<1>4. ASSUME Left(r) PROVE IssuesFit(r)' /\ OthersFit(r)' /\ ~ Doing(r, "session")' /\ Others(r)
  <2>1. req'[r] = Idle /\ req'[r].pc = "idle" /\ req'[r].op = "none" /\ req'[r].new = 0 /\ Others(r)
    BY <1>4 DEF Left, About1
  <2> QED
    BY <2>1 DEF IssuesFit, OthersFit, Doing
<1>5. CASE Asked(r)
  <2>1. ASSUME NEW t \in Tokens, t \in held, Begun(r, "refresh", t, "issue") \/ Begun(r, "logout", t, "blacklist")
        PROVE  IssuesFit(r)' /\ OthersFit(r)' /\ ~ Doing(r, "session")' /\ Others(r)
    <3>1. t \in Rows /\ t \in Rows' /\ t \in held'
      BY <2>1 DEF TypeOK, Grown
    <3> QED
      BY <2>1, <3>1 DEF Begun, About1, IssuesFit, OthersFit, Doing
  <2>2. ASSUME NEW i \in Resets, reset[i] = "sent", Begun(r, "reset", i, "set_password")
        PROVE  IssuesFit(r)' /\ OthersFit(r)' /\ ~ Doing(r, "session")' /\ Others(r)
    <3>1. reset'[i] # "none"
      BY <2>2 DEF Grown
    <3> QED
      BY <2>2, <3>1 DEF Begun, About1, IssuesFit, OthersFit, Doing
  <2>3. ASSUME NEW t \in Tokens, session[t] # "none", Begun(r, "revoke", t, "revoke_session")
        PROVE  IssuesFit(r)' /\ OthersFit(r)' /\ ~ Doing(r, "session")' /\ Others(r)
    <3>1. t \in Rows' /\ session'[t] # "none"
      BY <2>3 DEF TypeOK, Grown
    <3> QED
      BY <2>3, <3>1 DEF Begun, About1, IssuesFit, OthersFit, Doing
  <2>4. ASSUME \/ Begun(r, "login", 0, "issue") \/ Begun(r, "change", 0, "set_password")
               \/ Begun(r, "switch", 0, "save_user")
        PROVE  IssuesFit(r)' /\ OthersFit(r)' /\ ~ Doing(r, "session")' /\ Others(r)
    BY <2>4 DEF Begun, About1, IssuesFit, OthersFit, Doing
  <2> QED
    BY <1>5, <2>1, <2>2, <2>3, <2>4 DEF Asked
<1>6. CASE Issued(r)
  <2>1. issued' = issued + 1 /\ issued' \in Tokens /\ issued' \notin Rows /\ issued' # 0 /\ issued' \notin 0..issued
    BY <1>2, <1>6 DEF Issued, Rows, Tokens
  <2>2. session'[issued'] = "none"
    BY <1>6, <2>1 DEF Issued, TypeOK, accesses
  <2>3. /\ req'[r].op = req[r].op /\ req'[r].pc = "session" /\ req'[r].arg = req[r].arg /\ req'[r].new = issued'
        /\ Doing(r, "issue") /\ Others(r)
    BY <1>6 DEF Issued, About1
  <2>4. req[r].op = "refresh" =>
          /\ req[r].arg \in Rows' /\ issued' > req[r].arg
          /\ root'[issued'] = root'[req[r].arg]
    <3>1. root \in [Tokens -> Tokens]
      BY DEF TypeOK
    <3>2. root'[issued'] = RootOf(r, issued')
      BY <1>6, <2>1, <3>1 DEF Issued
    <3>3. req[r].op = "refresh" => req[r].arg \in Rows /\ issued' > req[r].arg
      BY <1>1, <1>2, <2>1 DEF IssuesFit, Rows
    <3> QED
      BY <3>2, <3>3 DEF RootOf, Grown
  <2>5. IssuesFit(r)'
    BY <1>1, <2>1, <2>2, <2>3, <2>4 DEF IssuesFit, Doing
  <2>6. OthersFit(r)'
    BY <1>1, <2>3 DEF OthersFit, IssuesFit, Doing
  <2> QED
    BY <1>6, <2>3, <2>5, <2>6
<1>7. ASSUME NEW phase \in Phases \ {"session", "idle"}, Moved(r, phase),
             phase \in {"look_up", "revoke_old"} => req[r].op = "refresh" /\ req[r].new # 0,
             phase = "issue" => req[r].op = "switch" /\ req[r].new = 0,
             phase \notin {"issue", "look_up", "revoke_old"} => req[r].new = 0,
             phase \in {"issue", "look_up", "revoke_old", "revoke_all", "revoke_sessions", "revoke_token"},
             phase = "revoke_all" => req[r].op \in {"logout", "reset"},
             phase = "revoke_sessions" => req[r].op = "logout",
             phase = "revoke_token" => req[r].arg \in Rows /\ session'[req[r].arg] = "revoked"
      PROVE  IssuesFit(r)' /\ OthersFit(r)' /\ ~ Doing(r, "session")' /\ Others(r)
  <2>1. /\ req'[r].op = req[r].op /\ req'[r].pc = phase /\ req'[r].arg = req[r].arg /\ req'[r].new = req[r].new
        /\ Others(r)
    BY <1>7 DEF Moved, About1
  <2>2. IssuesFit(r)'
    BY <1>1, <1>3, <1>7, <2>1 DEF IssuesFit, Doing, Grown
  <2>3. OthersFit(r)'
    BY <1>1, <1>7, <2>1 DEF OthersFit, Doing, Grown
  <2> QED
    BY <1>7, <2>1, <2>2, <2>3 DEF Doing
<1>8. {"look_up", "revoke_old", "issue", "revoke_all", "revoke_sessions", "revoke_token"} \subseteq Phases \ {"session", "idle"}
  BY DEF Phases
<1>9. CASE SessionMade(r) \/ NewFound(r) \/ OldRevoked(r) \/ Cut(r)
  BY <1>1, <1>4, <1>7, <1>8, <1>9 DEF SessionMade, NewFound, OldRevoked, Cut, IssuesFit, Doing
<1>10. CASE Blacklisted(r) \/ ResetMarked(r) \/ UserSaved(r)
  BY <1>1, <1>7, <1>8, <1>10 DEF Blacklisted, ResetMarked, UserSaved, IssuesFit, OthersFit, Doing
<1>11. CASE AllRevoked(r) \/ SessionsRevoked(r) \/ ItsTokenRevoked(r)
  BY <1>1, <1>4, <1>7, <1>8, <1>11 DEF AllRevoked, SessionsRevoked, ItsTokenRevoked, IssuesFit, OthersFit, Doing
<1>12. CASE ThisRevoked(r)
  <2>1. req[r].arg \in Rows /\ Moved(r, "revoke_token") /\ Doing(r, "revoke_session")
    BY <1>1, <1>12 DEF ThisRevoked, OthersFit
  <2>2. session'[req[r].arg] = "revoked"
    BY <1>3, <1>12, <2>1 DEF ThisRevoked, TypeOK
  <2>3. req[r].new = 0
    BY <1>1, <2>1 DEF IssuesFit, Doing
  <2> QED
    BY <1>7, <1>8, <2>1, <2>2, <2>3
<1>13. CASE PasswordSet(r)
  <2>1. /\ Doing(r, "set_password") /\ req'[r].op = req[r].op /\ req'[r].arg = req[r].arg /\ req'[r].new = req[r].new
        /\ Others(r) /\ req'[r].pc = IF req[r].op = "reset" THEN "mark_used" ELSE "revoke_all"
    BY <1>13 DEF PasswordSet, About1
  <2>2. req[r].new = 0 /\ req[r].op \in {"change", "reset"}
    BY <1>1, <2>1 DEF IssuesFit, OthersFit, Doing
  <2>3. IssuesFit(r)'
    BY <2>1, <2>2 DEF IssuesFit, Doing
  <2>4. OthersFit(r)'
    BY <1>1, <2>1, <2>2 DEF OthersFit, Doing, Grown
  <2> QED
    BY <2>1, <2>3, <2>4 DEF Doing
<1> QED
  BY <1>5, <1>6, <1>9, <1>10, <1>11, <1>12, <1>13 DEF Stepped

(* The stage of every request keeps saying what it is about, and no two    *)
(* make the session of the same token.                                     *)
LEMMA FitsStep ==
    ASSUME TypeOK, RequestsFit, SomeStep
    PROVE  RequestsFit'
<1>1. Grown /\ (\A q, r \in Requests : Doing(q, "session") /\ Doing(r, "session") /\ req[q].new = req[r].new => q = r)
      /\ \A t \in Rows : root[t] \in Rows
  BY Grows DEF RequestsFit
<1>2. Rows \subseteq Tokens /\ issued \in Nat
  <2>1. issued \in 0..MaxTokens /\ issued \in Nat /\ MaxTokens \in Nat
    BY SizesKnown
  <2> QED
    BY <2>1 DEF Rows, Tokens
<1>3. ASSUME NEW q \in Requests, Doing(q, "session"), NEW r \in Requests, SessionMade(r), req[q].new = req[r].new
      PROVE  q = r
  BY <1>1, <1>3 DEF SessionMade
<1>4. ASSUME NEW q \in Requests, Doing(q, "session")
      PROVE  req[q].new \in Rows /\ session[req[q].new] = "none" /\ req[q].new <= issued
  BY <1>2, <1>4, RequestFacts DEF IssuesFit, Rows
<1>5. ASSUME NEW q \in Requests, req'[q] = req[q], ~ SessionMade(q)
      PROVE  IssuesFit(q)' /\ OthersFit(q)' /\ (Doing(q, "session")' => Doing(q, "session"))
  <2>1. Doing(q, "session") => session'[req[q].new] = "none"
    BY <1>1, <1>2, <1>3, <1>4, <1>5 DEF Grown
  <2> QED
    BY <1>1, <1>5, <2>1, UntouchedFits DEF Doing
<1>6. ASSUME NEW q \in Requests, SessionMade(q) PROVE Asked(q) \/ Stepped(q)
  BY <1>6 DEF Stepped
<1>7. ASSUME NEW r \in Requests, Asked(r) \/ Stepped(r)
      PROVE  /\ IssuesFit(r)' /\ OthersFit(r)' /\ (Doing(r, "session")' => Issued(r)) /\ Others(r)
  BY <1>1, <1>7, ActorFits
<1>8. ASSUME NEW q \in Requests PROVE IssuesFit(q)' /\ OthersFit(q)'
  <2>1. CASE Asked(q) \/ Stepped(q)
    BY <1>7, <2>1
  <2>2. CASE ~ (Asked(q) \/ Stepped(q))
    <3>1. req'[q] = req[q]
      BY <1>7, <2>2 DEF SomeStep, Elsewhere, ResetAsked, TokenExpired, vars, Others
    <3> QED
      BY <1>5, <1>6, <2>2, <3>1
  <2> QED
    BY <2>1, <2>2
<1>9. ASSUME NEW q \in Requests, NEW r \in Requests, Doing(q, "session")', Doing(r, "session")', req'[q].new = req'[r].new
      PROVE  q = r
  <2>1. ASSUME NEW p \in Requests, Doing(p, "session")', ~ Issued(p) PROVE req'[p] = req[p] /\ Doing(p, "session")
    <3>1. ~ (Asked(p) \/ Stepped(p))
      BY <1>7, <2>1
    <3>2. req'[p] = req[p]
      BY <1>7, <3>1 DEF SomeStep, Elsewhere, ResetAsked, TokenExpired, vars, Others
    <3> QED
      BY <2>1, <3>2 DEF Doing
  <2>2. ASSUME NEW p \in Requests, Issued(p) PROVE req'[p].new = issued + 1 /\ Others(p)
    BY <2>2 DEF Issued, About1
  <2>3. ASSUME NEW p \in Requests, NEW o \in Requests, Issued(p), ~ Issued(o), Doing(o, "session")' PROVE req'[p].new # req'[o].new
    BY <1>2, <1>4, <2>1, <2>2, <2>3
  <2>4. CASE Issued(q) /\ Issued(r)
    <3>1. q # r => req'[r] = req[r]
      BY <2>2, <2>4 DEF Others
    <3>2. Doing(r, "issue")
      BY <2>4 DEF Issued
    <3> QED
      BY <1>9, <3>1, <3>2 DEF Doing
  <2>5. CASE ~ Issued(q) /\ ~ Issued(r)
    BY <1>1, <1>9, <2>1, <2>5
  <2> QED
    BY <1>9, <2>3, <2>4, <2>5
<1>10. ASSUME NEW t \in Rows' PROVE root'[t] \in Rows'
  <2>1. CASE t \in Rows
    BY <1>1, <2>1 DEF Grown
  <2>2. CASE t \notin Rows
    <3>1. PICK r \in Requests : Issued(r)
      BY <2>2, WhoChanges DEF Rows
    <3>2. issued' = issued + 1 /\ t = issued' /\ issued' \in Rows'
      BY <1>2, <2>2, <3>1 DEF Issued, Rows
    <3>3. req[r].op = "refresh" => root[req[r].arg] \in Rows
      BY <3>1, RequestFacts DEF Issued
    <3>4. RootOf(r, issued') \in Rows'
      BY <1>1, <3>2, <3>3 DEF RootOf, Grown
    <3>5. issued' \in Tokens /\ root \in [Tokens -> Tokens]
      <4>1. issued < MaxTokens /\ MaxTokens \in Nat
        BY <3>1, SizesKnown DEF Issued
      <4> QED
        BY <1>2, <3>2, <4>1 DEF Tokens, TypeOK
    <3>6. root'[issued'] = RootOf(r, issued')
      BY <3>1, <3>5 DEF Issued
    <3> QED
      BY <3>2, <3>4, <3>6
  <2> QED
    BY <2>1, <2>2
<1> QED
  BY <1>8, <1>9, <1>10 DEF RequestsFit

(* A step that moves no mark leaves a refresh its token.                   *)
LEMMA NoMarkMoves ==
    ASSUME TypeOK, RequestsFit, SomeStep
    PROVE  \/ \E r \in Requests : Issued(r)
           \/ \E r \in Requests : Asked(r)
           \/ \E r \in Requests : AllRevoked(r) /\ Ok
           \/ /\ UNCHANGED <<issued, root, old, tainted, overtaken>>
              /\ \A q \in Requests : req'[q].op = "refresh" => req[q].op = "refresh" /\ req'[q].arg = req[q].arg
              /\ revoked \subseteq revoked' /\ expired \subseteq expired'
<1>1. ASSUME NEW r \in Requests, Stepped(r), ~ Issued(r), ~ (AllRevoked(r) /\ Ok)
      PROVE  /\ UNCHANGED <<issued, root, old, tainted, overtaken>>
             /\ revoked \subseteq revoked' /\ expired \subseteq expired'
  BY <1>1 DEF Stepped, Cut, SessionMade, NewFound, OldRevoked, Blacklisted, PasswordSet, ResetMarked, AllRevoked,
       SessionsRevoked, ThisRevoked, ItsTokenRevoked, UserSaved, tokens, marks
<1>2. ASSUME NEW r \in Requests, Stepped(r)
      PROVE  Others(r) /\ (req'[r].op = "refresh" => req[r].op = "refresh" /\ req'[r].arg = req[r].arg)
  BY <1>2 DEF Stepped, Issued, Cut, SessionMade, NewFound, OldRevoked, Blacklisted, PasswordSet, ResetMarked, AllRevoked,
       SessionsRevoked, ThisRevoked, ItsTokenRevoked, UserSaved, Left, Moved, About1
<1>3. ASSUME Elsewhere
      PROVE  /\ UNCHANGED <<issued, root, old, tainted, overtaken, req>>
             /\ revoked \subseteq revoked' /\ expired \subseteq expired'
  BY <1>3 DEF Elsewhere, ResetAsked, TokenExpired, vars, tokens, marks
<1>4. CASE \E r \in Requests : Stepped(r)
  <2>1. PICK r \in Requests : Stepped(r)
    BY <1>4
  <2>2. \A q \in Requests : req'[q].op = "refresh" => req[q].op = "refresh" /\ req'[q].arg = req[q].arg
    BY <1>2, <2>1 DEF Others
  <2> QED
    BY <1>1, <2>1, <2>2
<1> QED
  BY <1>3, <1>4 DEF SomeStep

(* Only Issue, Begin and RevokeAll touch what StaleInv speaks of: a token  *)
(* that Issue adds to an old line is tainted, since its request was        *)
(* overtaken or its token tainted; after RevokeAll nothing works and every *)
(* refresh is overtaken.                                                   *)
LEMMA StaleStep ==
    ASSUME TypeOK, RequestsFit, StaleInv, SomeStep
    PROVE  StaleInv'
<1>1. Grown /\ \A q \in Requests : IssuesFit(q) /\ OthersFit(q)
  BY Grows, RequestFacts
<1>2. /\ \A q \in Requests : req[q].op = "refresh" =>
           /\ q \in overtaken => root[req[q].arg] \in old
           /\ q \notin overtaken /\ root[req[q].arg] \in old => req[q].arg \in tainted
      /\ \A t \in Live : root[t] \in old => t \in tainted
  BY DEF StaleInv, StaleOnlyByRace
<1>3. /\ issued \in Nat /\ old \subseteq Rows /\ held \subseteq Rows /\ root \in [Tokens -> Tokens]
      /\ issued' \in Nat /\ issued <= issued'
      /\ \A t \in Rows : root[t] \in Rows
  BY SizesKnown, SizesStep DEF TypeOK, RequestsFit, SomeStep
<1>4. CASE /\ UNCHANGED <<issued, root, old, tainted, overtaken>>
           /\ \A q \in Requests : req'[q].op = "refresh" => req[q].op = "refresh" /\ req'[q].arg = req[q].arg
           /\ revoked \subseteq revoked' /\ expired \subseteq expired'
  <2>1. Live' \subseteq Live
    BY <1>4 DEF Live, CanBeUsed, Rows
  <2> QED
    BY <1>2, <1>4, <2>1 DEF StaleInv, StaleOnlyByRace
<1>5. ASSUME NEW r \in Requests, Asked(r) PROVE StaleInv'
  <2>1. /\ Others(r) /\ overtaken' = overtaken \ {r} /\ UNCHANGED <<tokens, old>>
        /\ req'[r].op = "refresh" => req'[r].arg \in held /\ CanBeUsed(req'[r].arg)
    BY <1>5 DEF Asked, Begun, About1
  <2>2. UNCHANGED <<issued, revoked, expired, root, tainted, old>>
    BY <2>1 DEF tokens
  <2>3. Live' = Live
    BY <2>2 DEF Live, CanBeUsed, Rows
  <2>4. req'[r].op = "refresh" => req'[r].arg \in Live
    BY <1>3, <2>1 DEF Live
  <2> QED
    BY <1>2, <2>1, <2>2, <2>3, <2>4 DEF StaleInv, StaleOnlyByRace, Others
<1>6. ASSUME NEW r \in Requests, AllRevoked(r), Ok PROVE StaleInv'
  <2>1. /\ revoked' = revoked \cup Rows /\ old' = Rows /\ UNCHANGED <<issued, root>>
        /\ overtaken' = {q \in Requests : ~ Doing(q, "idle")} \ {r}
        /\ Others(r) /\ req'[r].op # "refresh"
    <3>1. ~ Fault
      BY <1>6, SizesKnown DEF Ok, Fault
    <3>2. Doing(r, "revoke_all") => req[r].op # "refresh"
      BY <1>1 DEF OthersFit
    <3> QED
      BY <1>6, <3>1, <3>2 DEF AllRevoked, Left, Moved, About1
  <2>2. Live' = {}
    BY <2>1 DEF Live, CanBeUsed, Rows
  <2>3. ASSUME NEW q \in Requests, req'[q].op = "refresh"
        PROVE  q \in overtaken' /\ root'[req'[q].arg] \in old'
    <3>1. q # r /\ req'[q] = req[q]
      BY <2>1, <2>3 DEF Others
    <3>2. ~ Doing(q, "idle") /\ req[q].arg \in Rows
      BY <1>1, <2>3, <3>1 DEF OthersFit, IssuesFit, Idle
    <3> QED
      BY <1>3, <2>1, <3>1, <3>2
  <2> QED
    BY <2>2, <2>3 DEF StaleInv, StaleOnlyByRace
<1>7. ASSUME NEW r \in Requests, Issued(r) PROVE StaleInv'
  <2>1. /\ issued' = issued + 1 /\ issued < MaxTokens /\ UNCHANGED <<revoked, expired, overtaken>>
        /\ Others(r) /\ req'[r].op = req[r].op /\ req'[r].arg = req[r].arg
    BY <1>7 DEF Issued, About1
  <2>2. issued' \notin Rows /\ Rows' = Rows \cup {issued'} /\ issued' \in Tokens
    <3>1. MaxTokens \in Nat
      BY SizesKnown
    <3> QED
      BY <1>3, <2>1, <3>1 DEF Rows, Tokens
  <2>3. root'[issued'] = RootOf(r, issued') /\ \A t \in Rows : root'[t] = root[t]
    BY <1>1, <1>3, <1>7, <2>2 DEF Issued, Grown
  <2>4. \A q \in Requests : req[q].op = "refresh" => req[q].arg \in Rows
    BY <1>1 DEF IssuesFit
  <2>5. tainted \subseteq tainted' /\ (Taints(r) => issued' \in tainted')
    BY <1>7 DEF Issued
  <2>6. /\ old \subseteq old' /\ \A t \in Rows : root[t] \in old' => root[t] \in old
    <3>1. CASE req[r].op = "refresh"
      BY <1>2, <1>7, <2>3, <2>4, <3>1 DEF Issued, RootOf
    <3>2. CASE req[r].op # "refresh"
      BY <1>3, <1>7, <2>2, <2>3, <3>2 DEF Issued, RootOf
    <3> QED
      BY <3>1, <3>2
  <2>7. root'[issued'] \in old' => issued' \in tainted'
    <3>1. CASE Taints(r)
      BY <2>5, <3>1
    <3>2. CASE ~ Taints(r)
      <4>1. r \notin overtaken /\ req[r].arg \notin tainted /\ old' = old
        BY <1>7, <3>2 DEF Taints, Issued
      <4>2. CASE req[r].op = "refresh"
        BY <1>2, <2>3, <2>4, <4>1, <4>2 DEF RootOf
      <4>3. CASE req[r].op # "refresh"
        BY <1>3, <2>2, <2>3, <4>1, <4>3 DEF RootOf
      <4> QED
        BY <4>2, <4>3
    <3> QED
      BY <3>1, <3>2
  <2>8. Live' \subseteq Live \cup {issued'}
    BY <2>1, <2>2 DEF Live, CanBeUsed
  <2>9. \A q \in Requests : req'[q].op = req[q].op /\ req'[q].arg = req[q].arg
    BY <2>1 DEF Others
  <2>10. Live \subseteq Rows
    BY DEF Live
  <2>11. \A t \in Live' : root'[t] \in old' => t \in tainted'
    BY <1>2, <2>3, <2>5, <2>6, <2>7, <2>8, <2>10
  <2>12. ASSUME NEW q \in Requests, req'[q].op = "refresh"
         PROVE  /\ q \in overtaken' => root'[req'[q].arg] \in old'
                /\ q \notin overtaken' /\ root'[req'[q].arg] \in old' => req'[q].arg \in tainted'
    BY <1>2, <2>1, <2>3, <2>4, <2>5, <2>6, <2>9, <2>12
  <2> QED
    BY <2>11, <2>12 DEF StaleInv, StaleOnlyByRace
<1> QED
  BY <1>4, <1>5, <1>6, <1>7, NoMarkMoves

(* Old tokens are revoked when there is a later one of their line.         *)
LEMMA LineStep ==
    ASSUME TypeOK, RequestsFit, LineInv, SomeStep
    PROVE  LineInv'
<1>1. Grown /\ revoked \subseteq Rows /\ old \subseteq Rows /\ \A t \in Rows : root[t] \in Rows
  BY Grows DEF TypeOK, RequestsFit
<1>2. Rows \subseteq Tokens
  <2>1. issued \in 0..MaxTokens /\ MaxTokens \in Nat
    BY SizesKnown
  <2> QED
    BY <2>1 DEF Rows, Tokens
<1>3. old \subseteq old' \/ Rows \subseteq old'
  <2>1. ASSUME NEW r \in Requests, Issued(r) \/ AllRevoked(r) PROVE old \subseteq old' \/ Rows \subseteq old'
    BY <2>1 DEF Issued, AllRevoked
  <2> QED
    BY <2>1, WhoChanges
<1>4. ASSUME NEW u \in revoked
      PROVE  root'[u] \in old' \/ session'[u] = "revoked" \/ \E w \in Rows' : root'[w] = root'[u] /\ w > u
  <2>1. root'[u] = root[u] /\ u \in Tokens /\ root[u] \in Rows
    BY <1>1, <1>2 DEF Grown
  <2>2. CASE root[u] \in old
    BY <1>3, <2>1, <2>2
  <2>3. CASE session[u] = "revoked"
    BY <1>1, <2>1, <2>3 DEF Grown
  <2>4. ASSUME NEW w \in Rows, root[w] = root[u], w > u PROVE w \in Rows' /\ root'[w] = root'[u]
    BY <1>1, <2>1, <2>4 DEF Grown
  <2> QED
    BY <2>2, <2>3, <2>4 DEF LineInv
<1>5. ASSUME NEW r \in Requests, OldRevoked(r), NEW u, u = req[r].arg
      PROVE  \E w \in Rows' : root'[w] = root'[u] /\ w > u
  <2>1. req[r].new \in Rows /\ root[req[r].new] = root[u] /\ req[r].new > u /\ u \in Rows
    BY <1>5, RequestFacts DEF OldRevoked, IssuesFit
  <2> QED
    BY <1>1, <2>1 DEF Grown
<1>6. ASSUME NEW r \in Requests, ItsTokenRevoked(r), NEW u, u = req[r].arg
      PROVE  session'[u] = "revoked"
  BY <1>6, RequestFacts DEF ItsTokenRevoked, OthersFit, accesses
<1>7. ASSUME NEW r \in Requests, AllRevoked(r), NEW u \in revoked', u \notin revoked
      PROVE  root'[u] \in old'
  <2>1. u \in Rows /\ old' = Rows
    BY <1>7 DEF AllRevoked
  <2> QED
    BY <1>1, <2>1 DEF Grown
<1>8. ASSUME NEW u \in revoked'
      PROVE  root'[u] \in old' \/ session'[u] = "revoked" \/ \E w \in Rows' : root'[w] = root'[u] /\ w > u
  <2>1. ASSUME u \notin revoked, NEW r \in Requests, OldRevoked(r) \/ ItsTokenRevoked(r)
        PROVE  u = req[r].arg
    BY <1>8, <2>1 DEF OldRevoked, ItsTokenRevoked
  <2> QED
    BY <1>4, <1>5, <1>6, <1>7, <1>8, <2>1, WhoChanges
<1> QED
  BY <1>8 DEF LineInv

(* Only SetPassword adds a change, and it marks it if a switch may undo    *)
(* it; only SaveUser goes back, and not beyond what it has read.           *)
LEMMA BehindStep ==
    ASSUME TypeOK, BehindInv, SomeStep
    PROVE  BehindInv'
<1>1. changes \in Nat /\ password \in Nat /\ \A q \in Requests : req[q].row \in Nat
  BY SizesKnown, ReqFields
<1>2. /\ \A c \in (password + 1)..changes : c \in behind
      /\ \A q \in Requests : Doing(q, "save_user") => \A c \in (req[q].row + 1)..changes : c \in behind
  BY DEF BehindInv
<1>3. CASE Elsewhere
  BY <1>2, <1>3 DEF Elsewhere, ResetAsked, TokenExpired, vars, passwords, BehindInv, Doing
<1>4. ASSUME NEW r \in Requests, Asked(r) PROVE BehindInv'
  <2>1. /\ Others(r) /\ UNCHANGED <<password, changes, behind>>
        /\ Doing(r, "save_user")' => req'[r].row = password
    BY <1>4 DEF Asked, Begun, About1, passwords, Doing
  <2> QED
    BY <1>2, <2>1 DEF BehindInv, Others, Doing
<1>5. ASSUME NEW r \in Requests, PasswordSet(r) PROVE BehindInv'
  <2>1. /\ Others(r) /\ ~ Doing(r, "save_user")' /\ changes' = changes + 1 /\ password' = changes'
        /\ behind' = IF \E q \in Requests : Doing(q, "save_user") THEN behind \cup {changes'} ELSE behind
    BY <1>5 DEF PasswordSet, About1, Doing
  <2>2. ASSUME NEW q \in Requests, Doing(q, "save_user")', NEW c \in (req'[q].row + 1)..changes' PROVE c \in behind'
    <3>1. req'[q] = req[q] /\ Doing(q, "save_user")
      BY <2>1, <2>2 DEF Others, Doing
    <3>2. c \in (req[q].row + 1)..changes \/ c = changes'
      BY <1>1, <2>1, <2>2, <3>1
    <3> QED
      BY <1>2, <2>1, <3>1, <3>2
  <2>3. (password' + 1)..changes' = {}
    BY <1>1, <2>1
  <2> QED
    BY <2>2, <2>3 DEF BehindInv
<1>6. ASSUME NEW r \in Requests, Stepped(r), ~ PasswordSet(r) PROVE BehindInv'
  <2>1. /\ Others(r) /\ ~ Doing(r, "save_user")' /\ UNCHANGED <<changes, behind>>
        /\ password' = password \/ (Doing(r, "save_user") /\ password' = req[r].row)
    BY <1>6 DEF Stepped, Issued, Cut, SessionMade, NewFound, OldRevoked, Blacklisted, ResetMarked, AllRevoked,
         SessionsRevoked, ThisRevoked, ItsTokenRevoked, UserSaved, Left, Moved, About1, Doing, passwords
  <2> QED
    BY <1>2, <2>1 DEF BehindInv, Others, Doing
<1> QED
  BY <1>3, <1>4, <1>5, <1>6 DEF SomeStep

(* Sizes of sets of requests.                                              *)
LEMMA SetCounts ==
    ASSUME NEW S \in SUBSET Requests, NEW T \in SUBSET Requests, NEW x
    PROVE  /\ IsFiniteSet(S) /\ Cardinality(S) \in Nat
           /\ T \subseteq S => Cardinality(T) <= Cardinality(S)
           /\ x \in S => Cardinality(S \ {x}) = Cardinality(S) - 1
           /\ x \notin S => Cardinality(S \cup {x}) = Cardinality(S) + 1 /\ Cardinality(S \ {x}) = Cardinality(S)
           /\ S \cap T = {} => Cardinality(S) + Cardinality(T) = Cardinality(S \cup T)
           /\ (\A q, r \in S : q = r) => Cardinality(S) <= 1
<1>1. IsFiniteSet(Requests)
  BY SessionsAssumption
<1>2. IsFiniteSet(S) /\ IsFiniteSet(T)
  BY <1>1, FS_Subset
<1>3. Cardinality(S) \in Nat /\ Cardinality(T) \in Nat
  BY <1>2, FS_CardinalityType
<1>4. T \subseteq S => Cardinality(T) <= Cardinality(S)
  BY <1>2, FS_Subset
<1>5. /\ Cardinality(S \ {x}) = IF x \in S THEN Cardinality(S) - 1 ELSE Cardinality(S)
      /\ Cardinality(S \cup {x}) = IF x \in S THEN Cardinality(S) ELSE Cardinality(S) + 1
  BY <1>2, FS_AddElement, FS_RemoveElement
<1>6. S \cap T = {} => Cardinality(S) + Cardinality(T) = Cardinality(S \cup T)
  BY <1>2, <1>3, FS_Union, FS_EmptySet
<1>7. ASSUME \A q, r \in S : q = r PROVE Cardinality(S) <= 1
  <2>1. S = {} \/ \E q \in S : S = {q}
    BY <1>7
  <2>2. \A q : Cardinality({q}) = 1
    BY FS_Singleton
  <2> QED
    BY <2>1, <2>2, FS_EmptySet
<1> QED
  BY <1>2, <1>3, <1>4, <1>5, <1>6, <1>7

(* No more requests are at once about a reset token than are under way.    *)
LEMMA AtOnceBounds ==
    ASSUME TypeOK, UsesInv, NEW i \in Resets
    PROVE  /\ Cardinality(About(i, "mark_used")) \in Nat /\ Cardinality(About(i, "set_password")) \in Nat
           /\ AtOnce \in Nat
           /\ Cardinality(About(i, "mark_used")) + Cardinality(About(i, "set_password")) <= AtOnce
<1> DEFINE M == About(i, "mark_used")
           P == About(i, "set_password")
<1>1. M \in SUBSET Requests /\ P \in SUBSET Requests /\ M \cup P \in SUBSET Requests /\ M \cap P = {}
  BY DEF About, Doing
<1>2. Requests \in SUBSET Requests
  OBVIOUS
<1>3. Cardinality(Requests) \in Nat
  BY <1>2, SetCounts
<1>4. AtOnce \in Nat
  BY <1>3 DEF AtOnce
<1>5. ~ overlapped => \A q, r \in M \cup P : q = r
  BY DEF UsesInv, About, Doing
<1> HIDE DEF M, P
<1>6. Cardinality(M) \in Nat /\ Cardinality(P) \in Nat /\ Cardinality(M) + Cardinality(P) = Cardinality(M \cup P)
  BY <1>1, SetCounts
<1>7. Cardinality(M \cup P) <= Cardinality(Requests)
  BY <1>1, <1>2, SetCounts
<1>8. ~ overlapped => Cardinality(M \cup P) <= 1
  BY <1>1, <1>5, SetCounts
<1>9. Cardinality(M) + Cardinality(P) <= AtOnce
  BY <1>6, <1>7, <1>8 DEF AtOnce
<1> QED
  BY <1>4, <1>6, <1>9 DEF M, P

(* The requests that may have read a reset token unused only grow in       *)
(* number.                                                                 *)
LEMMA AtOnceGrows ==
    ASSUME TypeOK, SomeStep
    PROVE  AtOnce <= AtOnce' /\ AtOnce \in Nat /\ AtOnce' \in Nat
<1>1. Cardinality(Requests) \in Nat /\ \A r \in Requests : Cardinality(Requests) >= 1
  <2>1. IsFiniteSet(Requests) /\ Requests \in SUBSET Requests
    BY SessionsAssumption
  <2>2. Cardinality(Requests) \in Nat
    BY <2>1, FS_CardinalityType
  <2>3. Cardinality(Requests) = 0 => Requests = {}
    BY <2>1, FS_EmptySet
  <2> QED
    BY <2>2, <2>3
<1>2. overlapped \in BOOLEAN
  BY DEF TypeOK
<1>3. (overlapped' <=> overlapped) \/ (\E r \in Requests : Asked(r) /\ overlapped' = (overlapped \/ ~ AllIdle))
  BY DEF SomeStep, Elsewhere, ResetAsked, TokenExpired, vars, Asked, Begun, Stepped, Issued, Cut, SessionMade, NewFound,
         OldRevoked, Blacklisted, PasswordSet, ResetMarked, AllRevoked, SessionsRevoked, ThisRevoked, ItsTokenRevoked,
         UserSaved, Ok, Fault
<1>4. overlapped => overlapped'
  BY <1>2, <1>3, Zenon
<1>5. (\E r \in Requests : TRUE) \/ (overlapped' <=> overlapped)
  BY <1>3
<1> QED
  BY <1>1, <1>4, <1>5 DEF AtOnce

(* Requests at work one at a time stay so.                                 *)
LEMMA OneAtATime ==
    ASSUME TypeOK, UsesInv, RequestsFit, SomeStep, ~ overlapped',
           NEW q \in Requests, NEW p \in Requests, ~ Doing(q, "idle")', ~ Doing(p, "idle")'
    PROVE  q = p
<1>1. ~ overlapped => \A x, y \in Requests : ~ Doing(x, "idle") /\ ~ Doing(y, "idle") => x = y
  BY DEF UsesInv
<1>2. overlapped \in BOOLEAN
  BY DEF TypeOK
<1>3. CASE Elsewhere
  <2>1. req' = req /\ overlapped' = overlapped
    BY <1>3 DEF Elsewhere, ResetAsked, TokenExpired, vars, Fault
  <2> QED
    BY <1>1, <2>1 DEF Doing
<1>4. ASSUME NEW r \in Requests, Asked(r) PROVE q = p
  <2>1. overlapped' = (overlapped \/ ~ AllIdle) /\ Others(r)
    BY <1>4 DEF Asked, Begun, About1
  <2>2. AllIdle
    BY <1>2, <2>1, Zenon
  <2> QED
    BY <2>1, <2>2 DEF AllIdle, Others, Doing
<1>5. ASSUME NEW r \in Requests, Stepped(r) PROVE q = p
  <2>1. overlapped' = overlapped /\ Others(r) /\ ~ Doing(r, "idle")
    BY <1>5 DEF Stepped, Issued, Cut, SessionMade, NewFound, OldRevoked, Blacklisted, PasswordSet, ResetMarked, AllRevoked,
         SessionsRevoked, ThisRevoked, ItsTokenRevoked, UserSaved, Left, Moved, About1, Ok, Fault, Doing
  <2> QED
    BY <1>1, <2>1 DEF Others, Doing
<1> QED
  BY <1>3, <1>4, <1>5 DEF SomeStep

(* What a step does to the uses of a reset token and to the requests about *)
(* it.                                                                     *)
UsesKept(i) ==
    /\ uses'[i] = uses[i] /\ reset'[i] = reset[i]
    /\ About(i, "set_password")' \subseteq About(i, "set_password")
    /\ \/ About(i, "mark_used")' = About(i, "mark_used") /\ faults' \in {faults, faults + 1}
       \/ \E r \in Requests : About(i, "mark_used")' = About(i, "mark_used") \ {r} /\ faults' = faults + 1
UsesOnce(i) ==
    \E r \in Requests :
        /\ uses'[i] = uses[i] + 1 /\ reset'[i] = reset[i] /\ faults' = faults /\ reset[i] # "none"
        /\ r \in About(i, "set_password") /\ About(i, "set_password")' = About(i, "set_password") \ {r}
        /\ r \notin About(i, "mark_used") /\ About(i, "mark_used")' = About(i, "mark_used") \cup {r}
UsesFrom(i) ==
    /\ uses'[i] = uses[i] /\ reset[i] = "sent" /\ reset'[i] = "sent" /\ faults' = faults
    /\ About(i, "mark_used")' = About(i, "mark_used")
UsesMarked(i) ==
    /\ uses'[i] = uses[i] /\ reset[i] # "none" /\ reset'[i] = "used" /\ faults' = faults
    /\ About(i, "set_password")' = About(i, "set_password")
UsesSent(i) == uses'[i] = uses[i] /\ reset[i] = "none" /\ reset'[i] = "sent" /\ faults' = faults

(* Every step does one of these.                                           *)
LEMMA UsesMove ==
    ASSUME TypeOK, RequestsFit, SomeStep, NEW i \in Resets
    PROVE  UsesKept(i) \/ UsesOnce(i) \/ UsesFrom(i) \/ UsesMarked(i) \/ UsesSent(i)
<1>1. reset \in [Resets -> {"none", "sent", "used"}] /\ uses \in [Resets -> Nat] /\ faults \in Nat
  BY SizesKnown DEF TypeOK
<1>2. \A q \in Requests : OthersFit(q)
  BY RequestFacts
<1>3. CASE Elsewhere
  <2>1. req' = req /\ uses' = uses /\ faults' \in {faults, faults + 1}
    BY <1>3 DEF Elsewhere, ResetAsked, TokenExpired, vars, passwords, Ok, Fault
  <2>2. About(i, "set_password")' = About(i, "set_password") /\ About(i, "mark_used")' = About(i, "mark_used")
    BY <2>1 DEF About, Doing
  <2>3. reset'[i] = reset[i] \/ (reset[i] = "none" /\ reset'[i] = "sent" /\ faults' = faults)
    BY <1>1, <1>3 DEF Elsewhere, ResetAsked, TokenExpired, vars, passwords
  <2> QED
    BY <2>1, <2>2, <2>3 DEF UsesKept, UsesSent
<1>4. ASSUME NEW r \in Requests, Asked(r) PROVE UsesKept(i) \/ UsesFrom(i)
  <2>1. Others(r) /\ UNCHANGED <<passwords, faults>> /\ Doing(r, "idle") /\ ~ Doing(r, "mark_used")'
    BY <1>4 DEF Asked, Begun, About1, Doing
  <2>2. uses' = uses /\ reset' = reset
    BY <2>1 DEF passwords
  <2>3. About(i, "mark_used")' = About(i, "mark_used")
    BY <2>1 DEF About, Doing, Others
  <2>4. r \in About(i, "set_password")' => reset[i] = "sent"
    BY <1>4 DEF Asked, Begun, About1, About, Doing
  <2>5. r \notin About(i, "set_password")' => About(i, "set_password")' \subseteq About(i, "set_password")
    BY <2>1 DEF About, Doing, Others
  <2> QED
    BY <2>1, <2>2, <2>3, <2>4, <2>5 DEF UsesKept, UsesFrom
<1>5. ASSUME NEW r \in Requests, PasswordSet(r) PROVE UsesKept(i) \/ UsesOnce(i)
  <2>1. Others(r) /\ reset' = reset /\ faults' = faults /\ Doing(r, "set_password")
    BY <1>5 DEF PasswordSet, About1, Ok
  <2>2. CASE req[r].op = "reset"
    <3>1. /\ uses' = [uses EXCEPT ![req[r].arg] = @ + 1]
          /\ req'[r].op = "reset" /\ req'[r].pc = "mark_used" /\ req'[r].arg = req[r].arg
      BY <1>5, <2>2 DEF PasswordSet, About1
    <3>2. req[r].arg \in Resets /\ reset[req[r].arg] # "none"
      BY <1>2, <2>2 DEF OthersFit
    <3>3. CASE req[r].arg = i
      <4>1. r \in About(i, "set_password") /\ r \notin About(i, "mark_used")
        BY <2>1, <2>2, <3>3 DEF About, Doing
      <4>2. About(i, "set_password")' = About(i, "set_password") \ {r}
        BY <2>1, <3>1 DEF About, Doing, Others
      <4>3. About(i, "mark_used")' = About(i, "mark_used") \cup {r}
        BY <2>1, <3>1, <3>3 DEF About, Doing, Others
      <4> QED
        BY <1>1, <2>1, <3>1, <3>2, <3>3, <4>1, <4>2, <4>3 DEF UsesOnce
    <3>4. CASE req[r].arg # i
      <4>1. About(i, "set_password")' \subseteq About(i, "set_password") /\ About(i, "mark_used")' = About(i, "mark_used")
        BY <2>1, <3>1, <3>4 DEF About, Doing, Others
      <4> QED
        BY <1>1, <2>1, <3>1, <3>4, <4>1 DEF UsesKept
    <3> QED
      BY <3>3, <3>4
  <2>3. CASE req[r].op # "reset"
    <3>1. uses' = uses /\ req'[r].op # "reset"
      BY <1>5, <2>3 DEF PasswordSet, About1
    <3>2. About(i, "set_password")' \subseteq About(i, "set_password") /\ About(i, "mark_used")' = About(i, "mark_used")
      BY <2>1, <2>3, <3>1 DEF About, Doing, Others
    <3> QED
      BY <2>1, <3>1, <3>2 DEF UsesKept
  <2> QED
    BY <2>2, <2>3
<1>6. ASSUME NEW r \in Requests, ResetMarked(r) PROVE UsesKept(i) \/ UsesMarked(i)
  <2>1. /\ Others(r) /\ uses' = uses /\ Doing(r, "mark_used")
        /\ req'[r].pc = "revoke_all" /\ req[r].op = "reset" /\ req[r].arg \in Resets /\ reset[req[r].arg] # "none"
    BY <1>2, <1>6 DEF ResetMarked, Moved, About1, OthersFit
  <2>2. /\ About(i, "set_password")' = About(i, "set_password")
        /\ About(i, "mark_used")' = IF req[r].arg = i THEN About(i, "mark_used") \ {r} ELSE About(i, "mark_used")
    BY <2>1 DEF About, Doing, Others
  <2>3. CASE reset' = reset /\ faults' = faults + 1
    BY <2>1, <2>2, <2>3 DEF UsesKept
  <2>4. CASE reset' = [reset EXCEPT ![req[r].arg] = "used"] /\ faults' = faults
    BY <1>1, <2>1, <2>2, <2>4 DEF UsesKept, UsesMarked
  <2> QED
    BY <1>6, <2>3, <2>4 DEF ResetMarked, Ok, Fault
<1>7. ASSUME NEW r \in Requests, Stepped(r), ~ PasswordSet(r), ~ ResetMarked(r) PROVE UsesKept(i)
  <2>1. /\ Others(r) /\ uses' = uses /\ reset' = reset /\ faults' \in {faults, faults + 1}
        /\ ~ Doing(r, "mark_used")' /\ ~ Doing(r, "set_password")'
        /\ Doing(r, "mark_used") => faults' = faults + 1
    BY <1>7 DEF Stepped, Issued, Cut, SessionMade, NewFound, OldRevoked, Blacklisted, AllRevoked,
         SessionsRevoked, ThisRevoked, ItsTokenRevoked, UserSaved, Left, Moved, About1, Doing, passwords, Ok, Fault
  <2>2. About(i, "set_password")' \subseteq About(i, "set_password")
    BY <2>1 DEF About, Doing, Others
  <2>3. About(i, "mark_used")' = About(i, "mark_used") \ {r}
    BY <2>1 DEF About, Doing, Others
  <2>4. ~ Doing(r, "mark_used") => About(i, "mark_used")' = About(i, "mark_used")
    BY <2>1 DEF About, Doing, Others
  <2> QED
    BY <2>1, <2>2, <2>3, <2>4 DEF UsesKept
<1> QED
  BY <1>3, <1>4, <1>5, <1>6, <1>7 DEF SomeStep

(* The number of uses stays within what was under way and what has failed. *)
LEMMA UsesStep ==
    ASSUME TypeOK, RequestsFit, UsesInv, SomeStep
    PROVE  UsesInv'
<1>1. ~ overlapped' =>
        \A q, r \in Requests : ~ Doing(q, "idle")' /\ ~ Doing(r, "idle")' => q = r
  BY OneAtATime
<1>2. AtOnce <= AtOnce' /\ AtOnce \in Nat /\ AtOnce' \in Nat /\ faults \in Nat /\ faults' \in Nat
  BY AtOnceGrows, SizesKnown, SizesStep DEF SomeStep
<1>3. ASSUME NEW i \in Resets
      PROVE  /\ reset'[i] = "none" => uses'[i] = 0
             /\ reset'[i] = "sent" => uses'[i] <= faults' + Cardinality(About(i, "mark_used")')
             /\ reset'[i] = "used" => uses'[i] + Cardinality(About(i, "set_password")') <= AtOnce' + faults'
  <2> DEFINE M == About(i, "mark_used")
             P == About(i, "set_password")
             N == About(i, "mark_used")'
             Q == About(i, "set_password")'
  <2>1. M \in SUBSET Requests /\ P \in SUBSET Requests /\ N \in SUBSET Requests /\ Q \in SUBSET Requests
    BY DEF About
  <2>2. /\ reset[i] = "none" => uses[i] = 0
        /\ reset[i] = "sent" => uses[i] <= faults + Cardinality(M)
        /\ reset[i] = "used" => uses[i] + Cardinality(P) <= AtOnce + faults
        /\ uses[i] \in Nat
    BY DEF UsesInv, TypeOK
  <2>3. Cardinality(M) + Cardinality(P) <= AtOnce
    BY AtOnceBounds
  <2>4. UsesKept(i) \/ UsesOnce(i) \/ UsesFrom(i) \/ UsesMarked(i) \/ UsesSent(i)
    BY UsesMove
  <2> HIDE DEF M, P, N, Q
  <2>5. Cardinality(M) \in Nat /\ Cardinality(P) \in Nat /\ Cardinality(N) \in Nat /\ Cardinality(Q) \in Nat
    BY <2>1, SetCounts
  <2>6. CASE UsesKept(i)
    <3>1. uses'[i] = uses[i] /\ reset'[i] = reset[i] /\ Q \subseteq P
      BY <2>6 DEF UsesKept, P, Q
    <3>2. (N = M /\ faults' \in {faults, faults + 1}) \/ \E r \in Requests : N = M \ {r} /\ faults' = faults + 1
      BY <2>6 DEF UsesKept, M, N
    <3>3. Cardinality(Q) <= Cardinality(P)
      BY <2>1, <3>1, SetCounts
    <3>4. \A r \in Requests : Cardinality(M \ {r}) \in {Cardinality(M) - 1, Cardinality(M)}
      BY <2>1, SetCounts
    <3>5. faults <= faults' /\ faults + Cardinality(M) <= faults' + Cardinality(N)
      BY <1>2, <2>5, <3>2, <3>4
    <3> QED
      BY <1>2, <2>2, <2>5, <3>1, <3>3, <3>5 DEF N, Q
  <2>7. CASE UsesOnce(i)
    <3>1. PICK r \in Requests : /\ uses'[i] = uses[i] + 1 /\ reset'[i] = reset[i] /\ faults' = faults /\ reset[i] # "none"
                                /\ r \in P /\ Q = P \ {r} /\ r \notin M /\ N = M \cup {r}
      BY <2>7 DEF UsesOnce, M, P, N, Q
    <3>2. Cardinality(Q) = Cardinality(P) - 1 /\ Cardinality(N) = Cardinality(M) + 1
      BY <2>1, <3>1, SetCounts
    <3> QED
      BY <1>2, <2>2, <2>5, <3>1, <3>2 DEF N, Q
  <2>8. CASE UsesFrom(i)
    BY <1>2, <2>2, <2>8 DEF UsesFrom, M, N
  <2>9. CASE UsesMarked(i)
    <3>1. uses'[i] = uses[i] /\ reset[i] # "none" /\ reset'[i] = "used" /\ faults' = faults /\ Q = P
      BY <2>9 DEF UsesMarked, P, Q
    <3>2. reset[i] \in {"none", "sent", "used"}
      BY DEF TypeOK
    <3>3. uses[i] + Cardinality(P) <= AtOnce + faults
      BY <1>2, <2>2, <2>3, <2>5, <3>1, <3>2
    <3> QED
      BY <1>2, <2>2, <2>5, <3>1, <3>3 DEF Q
  <2>10. CASE UsesSent(i)
    BY <1>2, <2>2, <2>5, <2>10 DEF UsesSent, N
  <2> QED
    BY <2>4, <2>6, <2>7, <2>8, <2>9, <2>10
<1> QED
  BY <1>1, <1>3 DEF UsesInv

(* Tokens that work come from Issued only.                                 *)
LEMMA LiveMoves ==
    ASSUME TypeOK, RequestsFit, SomeStep
    PROVE  /\ Live' \subseteq Live \/ \E r \in Requests : Issued(r) /\ Live' \subseteq Live \cup {issued'}
           /\ Live \subseteq Rows /\ Rows \subseteq Tokens /\ Rows' \subseteq Tokens /\ issued + 1 \notin Rows
<1>1. /\ issued \in Nat /\ issued \in 0..MaxTokens /\ MaxTokens \in Nat
      /\ issued' \in 0..MaxTokens /\ issued' \in Nat /\ issued <= issued'
  BY SizesKnown, SizesStep DEF SomeStep
<1>2. revoked \subseteq revoked' /\ expired \subseteq expired'
  BY WhoChanges DEF OldRevoked, ItsTokenRevoked, AllRevoked, TokenExpired
<1>3. ASSUME NEW r \in Requests, Issued(r) PROVE Live' \subseteq Live \cup {issued'}
  <2>1. Rows' = Rows \cup {issued'}
    BY <1>1, <1>3 DEF Issued, Rows
  <2> QED
    BY <1>2, <2>1 DEF Live, CanBeUsed
<1>4. issued' = issued => Live' \subseteq Live
  BY <1>2 DEF Live, CanBeUsed, Rows
<1>5. Live \subseteq Rows /\ Rows \subseteq Tokens /\ Rows' \subseteq Tokens /\ issued + 1 \notin Rows
  BY <1>1 DEF Live, Rows, Tokens
<1> QED
  BY <1>3, <1>4, <1>5, WhoChanges

(* Only a request cut short loses a token that nobody has received ...     *)
LEMMA LostMoves ==
    ASSUME TypeOK, RequestsFit, SomeStep
    PROVE  Lost' \subseteq Lost \/ (faults' = faults + 1 /\ \E x : Lost' \subseteq Lost \cup {x})
<1>1. held \subseteq held' /\ Live \subseteq Rows /\ 0 \notin Rows
  BY Grows, LiveMoves DEF Grown, Rows
<1>2. ASSUME NEW q \in Requests
      PROVE  /\ req[q].new # 0 => req[q].new \in Rows /\ req[q].pc \in {"session", "look_up", "revoke_old"}
             /\ req[q].pc \in {"idle", "issue"} => req[q].new = 0
  <2>1. req[q].new \in 0..issued /\ issued \in Nat
    BY ReqFields, SizesKnown
  <2>2. req[q].new # 0 => req[q].new \in Rows
    BY <2>1 DEF Rows
  <2>3. req[q].new # 0 => req[q].pc \in {"session", "look_up", "revoke_old"}
    BY RequestFacts DEF IssuesFit, Doing
  <2> QED
    BY <2>2, <2>3
<1>3. CASE Elsewhere
  <2>1. req' = req /\ issued' = issued /\ held' = held
    BY <1>3 DEF Elsewhere, ResetAsked, TokenExpired, vars, tokens, accesses
  <2>2. Live' \subseteq Live
    BY <2>1, <1>3 DEF Live, CanBeUsed, Rows, Elsewhere, ResetAsked, TokenExpired, vars, tokens
  <2> QED
    BY <2>1, <2>2 DEF Lost
<1>4. ASSUME NEW r \in Requests, Asked(r) PROVE Lost' \subseteq Lost
  <2>1. Others(r) /\ UNCHANGED <<tokens, held>> /\ Doing(r, "idle")
    BY <1>4 DEF Asked, Begun, About1, accesses
  <2>2. Live' = Live
    BY <2>1 DEF Live, CanBeUsed, Rows, tokens
  <2>3. req[r].new = 0
    BY <1>2, <2>1 DEF Doing
  <2> QED
    BY <1>1, <2>1, <2>2, <2>3 DEF Lost, Others
<1>5. ASSUME NEW r \in Requests, Issued(r) PROVE Lost' \subseteq Lost
  <2>1. /\ Others(r) /\ req'[r].new = issued' /\ req[r].new = 0
        /\ issued' = issued + 1
    BY <1>2, <1>5 DEF Issued, About1, Doing
  <2>2. Live' \subseteq Live \cup {issued'}
    BY <1>1, <1>5, LiveMoves
  <2> QED
    BY <1>1, <2>1, <2>2 DEF Lost, Others
<1>6. ASSUME NEW r \in Requests, Stepped(r), ~ Issued(r)
      PROVE  Lost' \subseteq Lost \/ (faults' = faults + 1 /\ \E x : Lost' \subseteq Lost \cup {x})
  <2>1. /\ Others(r)
        /\ issued' = issued
        /\ \/ req'[r].new = req[r].new
           \/ req[r].new = 0 \/ req[r].new \in held' \/ faults' = faults + 1
    BY <1>2, <1>6 DEF Stepped, Cut, SessionMade, NewFound, OldRevoked, Blacklisted, PasswordSet, ResetMarked, AllRevoked,
         SessionsRevoked, ThisRevoked, ItsTokenRevoked, UserSaved, Left, Moved, About1, Doing, tokens, Ok, Fault
  <2>2. Live' \subseteq Live
    BY <2>1, LiveMoves, SizesKnown DEF Issued
  <2>3. Lost' \subseteq Lost \cup {req[r].new}
    BY <1>1, <2>1, <2>2 DEF Lost, Others
  <2>4. req'[r].new = req[r].new => Lost' \subseteq Lost
    BY <1>1, <2>1, <2>2 DEF Lost, Others
  <2>5. req[r].new = 0 \/ req[r].new \in held' => Lost' \subseteq Lost
    BY <1>1, <2>1, <2>2 DEF Lost, Others
  <2> QED
    BY <1>2, <2>1, <2>3, <2>4, <2>5
<1> QED
  BY <1>3, <1>4, <1>5, <1>6 DEF SomeStep

(* ... and only one cut short, or a session that was not made, hides one.  *)
LEMMA UnseenMoves ==
    ASSUME TypeOK, RequestsFit, PairsInv, SomeStep
    PROVE  Unseen' \subseteq Unseen \/ (faults' = faults + 1 /\ \E x : Unseen' \subseteq Unseen \cup {x})
<1>1. /\ Live \subseteq Rows /\ Rows \subseteq Tokens /\ issued + 1 \notin Rows
      /\ session \in [Tokens -> {"none", "active", "revoked"}]
  BY LiveMoves DEF TypeOK
<1>2. CASE Elsewhere
  <2>1. req' = req /\ issued' = issued /\ session' = session /\ crossed' = crossed
    BY <1>2 DEF Elsewhere, ResetAsked, TokenExpired, vars, tokens, accesses
  <2>2. Live' \subseteq Live
    BY <2>1, <1>2 DEF Live, CanBeUsed, Rows, Elsewhere, ResetAsked, TokenExpired, vars, tokens
  <2> QED
    BY <2>1, <2>2 DEF Unseen, Doing
<1>3. ASSUME NEW r \in Requests, Asked(r) PROVE Unseen' \subseteq Unseen
  <2>1. Others(r) /\ UNCHANGED <<tokens, session, crossed>> /\ Doing(r, "idle")
    BY <1>3 DEF Asked, Begun, About1, accesses
  <2>2. Live' = Live
    BY <2>1 DEF Live, CanBeUsed, Rows, tokens
  <2> QED
    BY <2>1, <2>2 DEF Unseen, Others, Doing
<1>4. ASSUME NEW r \in Requests, Issued(r) PROVE Unseen' \subseteq Unseen
  <2>1. /\ Others(r) /\ req'[r].new = issued' /\ req'[r].pc = "session" /\ Doing(r, "issue")
        /\ session' = session /\ crossed' = crossed
    BY <1>4 DEF Issued, About1, accesses
  <2>2. Live' \subseteq Live \cup {issued'}
    BY LiveMoves
  <2> QED
    BY <2>1, <2>2 DEF Unseen, Others, Doing
<1>5. ASSUME NEW r \in Requests, SessionMade(r)
      PROVE  Unseen' \subseteq Unseen \/ (faults' = faults + 1 /\ \E x : Unseen' \subseteq Unseen \cup {x})
  <2>1. /\ Others(r) /\ Doing(r, "session") /\ UNCHANGED tokens /\ crossed \subseteq crossed' /\ req[r].new \in Rows
    BY <1>5, RequestFacts DEF SessionMade, Left, Moved, About1
  <2>2. Live' = Live
    BY <2>1 DEF Live, CanBeUsed, Rows, tokens
  <2>3. CASE session' = [session EXCEPT ![req[r].new] = "active"]
    BY <1>1, <2>1, <2>2, <2>3 DEF Unseen, Others, Doing
  <2>4. CASE session' = session /\ faults' = faults + 1
    <3>1. Unseen' \subseteq Unseen \cup {req[r].new}
      BY <2>1, <2>2, <2>4 DEF Unseen, Others, Doing
    <3> QED
      BY <2>1, <2>4, <3>1
  <2> QED
    BY <1>5, <2>3, <2>4 DEF SessionMade, Fault
<1>6. ASSUME NEW r \in Requests, Cut(r)
      PROVE  faults' = faults + 1 /\ \E x : Unseen' \subseteq Unseen \cup {x}
  <2>1. Others(r) /\ UNCHANGED <<tokens, session, crossed>> /\ faults' = faults + 1
    BY <1>6 DEF Cut, Fault, Left, About1, accesses
  <2>2. Live' = Live
    BY <2>1 DEF Live, CanBeUsed, Rows, tokens
  <2>3. CASE Doing(r, "session")
    <3>1. Unseen' \subseteq Unseen \cup {req[r].new}
      BY <2>1, <2>2, <2>3 DEF Unseen, Others, Doing
    <3> QED
      BY <2>1, <2>3, <3>1, RequestFacts
  <2>4. CASE Doing(r, "revoke_token")
    <3>1. Unseen' \subseteq Unseen \cup {req[r].arg}
      BY <2>1, <2>2, <2>4 DEF Unseen, Others, Doing
    <3> QED
      BY <2>1, <2>4, <3>1, RequestFacts
  <2>5. CASE ~ Doing(r, "session") /\ ~ Doing(r, "revoke_token")
    <3>1. Unseen' \subseteq Unseen
      BY <2>1, <2>2, <2>5 DEF Unseen, Others, Doing
    <3> QED
      BY <2>1, <3>1
  <2> QED
    BY <2>3, <2>4, <2>5
<1>7. ASSUME NEW r \in Requests, SessionsRevoked(r) PROVE Unseen' \subseteq Unseen
  <2>1. /\ Others(r) /\ UNCHANGED <<tokens, crossed>> /\ Doing(r, "revoke_sessions")
        /\ session' = [t \in Tokens |-> IF session[t] = "active" THEN "revoked" ELSE session[t]]
    BY <1>7 DEF SessionsRevoked, Left, About1
  <2>2. Live' = Live
    BY <2>1 DEF Live, CanBeUsed, Rows, tokens
  <2>3. \A t \in Live : session[t] = "active" => t \in crossed
    BY <2>1 DEF PairsInv
  <2> QED
    BY <1>1, <2>1, <2>2, <2>3 DEF Unseen, Others, Doing
<1>8. ASSUME NEW r \in Requests, ThisRevoked(r) PROVE Unseen' \subseteq Unseen
  <2>1. /\ Others(r) /\ UNCHANGED <<tokens, crossed>> /\ Doing(r, "revoke_session")
        /\ req'[r].pc = "revoke_token" /\ req'[r].arg = req[r].arg
        /\ session' = [session EXCEPT ![req[r].arg] = "revoked"]
    BY <1>8 DEF ThisRevoked, Moved, About1
  <2>2. Live' = Live
    BY <2>1 DEF Live, CanBeUsed, Rows, tokens
  <2> QED
    BY <1>1, <2>1, <2>2 DEF Unseen, Others, Doing
<1>9. ASSUME NEW r \in Requests, ItsTokenRevoked(r) PROVE Unseen' \subseteq Unseen
  <2>1. /\ Others(r) /\ UNCHANGED <<session, crossed, expired, issued>> /\ Doing(r, "revoke_token")
        /\ revoked' = revoked \cup {req[r].arg}
    BY <1>9 DEF ItsTokenRevoked, Left, About1, accesses
  <2>2. Live' \subseteq Live \ {req[r].arg}
    BY <2>1 DEF Live, CanBeUsed, Rows
  <2> QED
    BY <2>1, <2>2 DEF Unseen, Others, Doing
<1>10. ASSUME NEW r \in Requests,
              \/ NewFound(r) \/ OldRevoked(r) \/ Blacklisted(r) \/ PasswordSet(r) \/ ResetMarked(r) \/ AllRevoked(r)
              \/ UserSaved(r)
       PROVE  Unseen' \subseteq Unseen
  <2>1. /\ Others(r) /\ UNCHANGED <<session, crossed, expired, issued>> /\ revoked \subseteq revoked'
        /\ ~ Doing(r, "session") /\ ~ Doing(r, "revoke_token")
    BY <1>10 DEF NewFound, OldRevoked, Blacklisted, PasswordSet, ResetMarked, AllRevoked, UserSaved, Moved, Left, About1,
         tokens, accesses, Doing
  <2>2. Live' \subseteq Live
    BY <2>1 DEF Live, CanBeUsed, Rows
  <2> QED
    BY <2>1, <2>2 DEF Unseen, Others, Doing
<1> QED
  BY <1>2, <1>3, <1>4, <1>5, <1>6, <1>7, <1>8, <1>9, <1>10 DEF SomeStep, Stepped

(* Each of the two costs a failure.                                        *)
LEMMA PairsStep ==
    ASSUME TypeOK, RequestsFit, PairsInv, SomeStep
    PROVE  PairsInv'
<1>1. faults \in Nat /\ faults' \in Nat /\ faults <= faults' /\ issued \in Nat /\ issued' \in Nat
  BY SizesKnown, SizesStep DEF SomeStep
<1>2. ASSUME NEW S, NEW T, NEW k \in Nat, NEW l \in Nat, S \subseteq 1..issued, Cardinality(S) <= k,
             (T \subseteq S /\ k <= l) \/ (l = k + 1 /\ \E x : T \subseteq S \cup {x})
      PROVE  Cardinality(T) <= l
  <2>1. IsFiniteSet(1..issued)
    BY <1>1, FS_Interval
  <2>2. IsFiniteSet(S)
    BY <1>2, <2>1, FS_Subset
  <2>3. Cardinality(S) \in Nat
    BY <2>2, FS_CardinalityType
  <2>4. CASE T \subseteq S /\ k <= l
    <3>1. IsFiniteSet(T) /\ Cardinality(T) <= Cardinality(S)
      BY <2>2, <2>4, FS_Subset
    <3>2. Cardinality(T) \in Nat
      BY <3>1, FS_CardinalityType
    <3> QED
      BY <1>2, <2>3, <2>4, <3>1, <3>2
  <2>5. ASSUME l = k + 1, NEW x, T \subseteq S \cup {x} PROVE Cardinality(T) <= l
    <3>1. IsFiniteSet(S \cup {x}) /\ Cardinality(S \cup {x}) = IF x \in S THEN Cardinality(S) ELSE Cardinality(S) + 1
      BY <2>2, FS_AddElement
    <3>2. IsFiniteSet(T) /\ Cardinality(T) <= Cardinality(S \cup {x})
      BY <2>5, <3>1, FS_Subset
    <3>3. Cardinality(T) \in Nat
      BY <3>2, FS_CardinalityType
    <3> QED
      BY <1>2, <2>3, <2>5, <3>1, <3>2, <3>3
  <2> QED
    BY <1>2, <2>4, <2>5
<1>3. Lost \subseteq 1..issued /\ Unseen \subseteq 1..issued /\ Cardinality(Lost) <= faults /\ Cardinality(Unseen) <= faults
  BY DEF Lost, Unseen, Live, Rows, PairsInv
<1>4. Cardinality(Lost') <= faults'
  <2>1. (Lost' \subseteq Lost /\ faults <= faults') \/ (faults' = faults + 1 /\ \E x : Lost' \subseteq Lost \cup {x})
    BY <1>1, LostMoves
  <2> QED
    BY <1>1, <1>2, <1>3, <2>1
<1>5. Cardinality(Unseen') <= faults'
  <2>1. (Unseen' \subseteq Unseen /\ faults <= faults') \/ (faults' = faults + 1 /\ \E x : Unseen' \subseteq Unseen \cup {x})
    BY <1>1, UnseenMoves
  <2> QED
    BY <1>1, <1>2, <1>3, <2>1
<1>6. ASSUME NEW q \in Requests, Doing(q, "revoke_sessions")', NEW t \in Live', session'[t] = "active"
      PROVE  t \in crossed'
  <2>1. Doing(q, "revoke_sessions") \/ (AllRevoked(q) /\ Ok)
    <3>1. ASSUME NEW r \in Requests, Asked(r) \/ Stepped(r), ~ (AllRevoked(r) /\ Ok)
          PROVE  Others(r) /\ ~ Doing(r, "revoke_sessions")'
      BY <3>1 DEF Asked, Begun, Stepped, Issued, Cut, SessionMade, NewFound, OldRevoked, Blacklisted, PasswordSet,
           ResetMarked, AllRevoked, SessionsRevoked, ThisRevoked, ItsTokenRevoked, UserSaved, Left, Moved, About1, Doing
    <3>2. ASSUME NEW r \in Requests, AllRevoked(r) PROVE Others(r)
      BY <3>2 DEF AllRevoked, Left, Moved, About1
    <3>3. Elsewhere => req' = req
      BY DEF Elsewhere, ResetAsked, TokenExpired, vars
    <3>4. CASE Elsewhere
      BY <1>6, <3>3, <3>4 DEF Doing
    <3>5. ASSUME NEW r \in Requests, Asked(r) \/ Stepped(r) PROVE Doing(q, "revoke_sessions") \/ (AllRevoked(q) /\ Ok)
      BY <1>6, <3>1, <3>2, <3>5 DEF Others, Doing
    <3> QED
      BY <3>4, <3>5 DEF SomeStep
  <2>2. CASE AllRevoked(q) /\ Ok
    <3>1. revoked' = revoked \cup Rows /\ issued' = issued
      BY <1>1, <2>2 DEF AllRevoked, Ok, Fault
    <3>2. Live' = {}
      BY <3>1 DEF Live, CanBeUsed, Rows
    <3> QED
      BY <1>6, <3>2
  <2>3. CASE Doing(q, "revoke_sessions")
    <3>1. \A u \in Live : session[u] = "active" => u \in crossed
      BY <2>3 DEF PairsInv
    <3>2. crossed \subseteq crossed'
      BY WhoChanges DEF SessionMade
    <3>3. session \in [Tokens -> {"none", "active", "revoked"}] /\ t \in Tokens
      BY <1>6, LiveMoves DEF TypeOK, Live
    <3>4. session'[t] = session[t] \/ \E r \in Requests : SessionMade(r) /\ t = req[r].new
      BY <1>6, <3>3, WhoChanges DEF SessionMade, SessionsRevoked, ThisRevoked
    <3>5. ASSUME NEW r \in Requests, SessionMade(r), t = req[r].new PROVE t \in crossed'
      BY <2>3, <3>5 DEF SessionMade
    <3>6. session[issued + 1] # "active" \/ issued + 1 \notin Tokens
      BY LiveMoves DEF TypeOK
    <3>7. t \in Live \/ (t = issued + 1 /\ issued + 1 \in Tokens)
      BY <1>6, <3>3, LiveMoves DEF Issued
    <3> QED
      BY <1>6, <3>1, <3>2, <3>4, <3>5, <3>6, <3>7
  <2> QED
    BY <2>1, <2>2, <2>3
<1> QED
  BY <1>4, <1>5, <1>6 DEF PairsInv

(* The whole invariant holds at the start, and every step keeps it.        *)
LEMMA SessionsStart == Init => SessionsInv
<1> SUFFICES ASSUME Init PROVE SessionsInv
  OBVIOUS
<1>1. MaxTokens \in Nat /\ MaxPasswords \in Nat /\ MaxResets \in Nat /\ MaxFaults \in Nat /\ IsFiniteSet(Requests)
  BY SessionsAssumption
<1>2. Rows = {} /\ Live = {}
  BY DEF Init, Rows, Live
<1>3. /\ issued = 0 /\ changes = 0 /\ password = 0 /\ acked = 0 /\ faults = 0
      /\ revoked = {} /\ expired = {} /\ held = {} /\ blacklist = {} /\ old = {} /\ tainted = {} /\ overtaken = {}
      /\ behind = {} /\ crossed = {} /\ overlapped = FALSE
  BY DEF Init
<1>4. /\ session = [t \in Tokens |-> "none"] /\ reset = [i \in Resets |-> "none"]
      /\ root = [t \in Tokens |-> t] /\ uses = [i \in Resets |-> 0] /\ req = [r \in Requests |-> Idle]
  BY DEF Init
<1>5. Idle \in ReqsOf(0, 0)
  BY DEF Idle, ReqsOf, Kinds, Phases
<1>6. req \in [Requests -> ReqsOf(changes, issued)]
  BY <1>3, <1>4, <1>5
<1>7. /\ issued \in 0..MaxTokens /\ changes \in 0..MaxPasswords /\ password \in 0..changes /\ acked \in 0..changes
      /\ faults \in 0..MaxFaults
  BY <1>1, <1>3
<1>8. TypeOK
  <2>1. /\ session \in [Tokens -> {"none", "active", "revoked"}] /\ \A t \in Tokens : session[t] = "none"
        /\ reset \in [Resets -> {"none", "sent", "used"}] /\ root \in [Tokens -> Tokens] /\ uses \in [Resets -> Nat]
    BY <1>4
  <2> QED
    BY <1>2, <1>3, <1>6, <1>7, <2>1 DEF TypeOK, ReqsOf, Kinds
<1>9. \A r \in Requests : req[r] = Idle /\ Idle.op = "none" /\ Idle.pc = "idle" /\ Idle.new = 0
  BY <1>4 DEF Idle
<1>10. RequestsFit
  BY <1>2, <1>9 DEF RequestsFit, IssuesFit, OthersFit, Doing
<1>11. StaleInv /\ LineInv
  BY <1>2, <1>3, <1>9 DEF StaleInv, StaleOnlyByRace, LineInv
<1>12. BehindInv
  BY <1>3, <1>9 DEF BehindInv, Doing
<1>13. UsesInv
  BY <1>4, <1>9 DEF UsesInv, Doing
<1>14. PairsInv
  <2>1. Lost = {} /\ Unseen = {}
    BY <1>2 DEF Lost, Unseen
  <2>2. Cardinality({}) = 0
    BY FS_EmptySet
  <2> QED
    BY <1>2, <1>3, <2>1, <2>2 DEF PairsInv
<1> QED
  BY <1>8, <1>10, <1>11, <1>12, <1>13, <1>14 DEF SessionsInv

(* Every step keeps the invariant of the sessions.                         *)
LEMMA SessionsStep == SessionsInv /\ [Next]_vars => SessionsInv'
<1> SUFFICES ASSUME SessionsInv, [Next]_vars PROVE SessionsInv'
  OBVIOUS
<1>1. TypeOK /\ RequestsFit /\ StaleInv /\ LineInv /\ BehindInv /\ UsesInv /\ PairsInv
  BY DEF SessionsInv
<1>2. SomeStep
  BY <1>1, NextSteps DEF SomeStep
<1> QED
  BY <1>1, <1>2, TypeStep, FitsStep, StaleStep, LineStep, BehindStep, UsesStep, PairsStep DEF SessionsInv

(* The invariant of the sessions holds in every state.                     *)
LEMMA SessionsKept == Spec => []SessionsInv
  BY SessionsStart, SessionsStep, PTL DEF Spec

(* A token that works after all were revoked, of a login before, was       *)
(* issued by a request under way at that moment, or descends from one.     *)
THEOREM StaleTokensAreRaced == Spec => []StaleOnlyByRace
<1>1. SessionsInv => StaleOnlyByRace
  BY DEF SessionsInv, StaleInv
<1> QED
  BY <1>1, SessionsKept, PTL

(* A line of tokens ends on purpose or by time only: its latest token has  *)
(* not been used up by a refresh.                                          *)
THEOREM LinesLive == Spec => []LineLives
<1>1. ASSUME TypeOK, LineInv, NEW t \in held
      PROVE  root[t] \in old \/ \E u \in LineTokens(t) : u \in Live \cup expired \/ session[u] = "revoked"
  <2>1. issued \in Nat /\ t \in Rows
    BY <1>1, SizesKnown DEF TypeOK
  <2> DEFINE D == {d \in Nat : \E u \in LineTokens(t) : u = issued - d}
             R == OpToRel(<, Nat)
  <2>2. \A u \in LineTokens(t) : issued - u \in Nat /\ issued - (issued - u) = u
    BY <2>1 DEF LineTokens, Rows
  <2>3. \A u \in LineTokens(t) : issued - u \in D
    BY <2>2
  <2>4. t \in LineTokens(t)
    BY <2>1 DEF LineTokens
  <2>5. D \subseteq Nat /\ D # {}
    BY <2>3, <2>4
  <2>6. PICK d \in D : \A e \in D : <<e, d>> \notin R
    <3>1. IsWellFoundedOn(R, Nat)
      BY NatLessThanWellFounded, Zenon
    <3> HIDE DEF D, R
    <3> QED
      BY <2>5, <3>1, WFMin
  <2>7. \A e \in D : ~ (e < d)
    BY <2>6, Zenon DEF OpToRel
  <2>8. PICK u \in LineTokens(t) : u = issued - d
    OBVIOUS
  <2>9. ASSUME NEW w \in Rows, root[w] = root[u], w > u PROVE FALSE
    <3>1. w \in LineTokens(t) /\ u \in Rows
      BY <2>8, <2>9 DEF LineTokens
    <3>2. issued - w \in D /\ issued - w < d
      BY <2>1, <2>3, <2>8, <2>9, <3>1 DEF Rows
    <3> QED
      BY <2>7, <3>2
  <2>10. u \in Rows /\ root[u] = root[t]
    BY <2>8 DEF LineTokens
  <2>11. u \in revoked => root[u] \in old \/ session[u] = "revoked"
    BY <1>1, <2>9 DEF LineInv
  <2> QED
    BY <2>8, <2>10, <2>11 DEF Live, CanBeUsed
<1>2. SessionsInv => LineLives
  BY <1>1 DEF SessionsInv, LineLives
<1> QED
  BY <1>2, SessionsKept, PTL

(* The password is changed as often as the user asked, failures paid for,  *)
(* and a change that has returned is undone by a switch only.              *)
THEOREM PasswordsStay == Spec => []PasswordsHold
<1>1. ASSUME TypeOK, UsesInv, NEW i \in Resets PROVE uses[i] <= AtOnce + faults
  <2>1. /\ reset[i] = "none" => uses[i] = 0
        /\ reset[i] = "sent" => uses[i] <= faults + Cardinality(About(i, "mark_used"))
        /\ reset[i] = "used" => uses[i] + Cardinality(About(i, "set_password")) <= AtOnce + faults
        /\ reset[i] \in {"none", "sent", "used"} /\ uses[i] \in Nat /\ faults \in Nat
    BY <1>1, SizesKnown DEF UsesInv, TypeOK
  <2>2. /\ Cardinality(About(i, "mark_used")) \in Nat /\ Cardinality(About(i, "set_password")) \in Nat
        /\ AtOnce \in Nat
        /\ Cardinality(About(i, "mark_used")) + Cardinality(About(i, "set_password")) <= AtOnce
    BY <1>1, AtOnceBounds
  <2> QED
    BY <2>1, <2>2
<1>2. ASSUME TypeOK, BehindInv PROVE UndoneOnlyBySwitch
  <2>1. acked \in 0..changes /\ changes \in Nat /\ password \in Nat
    BY <1>2, SizesKnown
  <2>2. (password + 1)..acked \subseteq (password + 1)..changes
    BY <2>1
  <2> QED
    BY <1>2, <2>2 DEF BehindInv, UndoneOnlyBySwitch
<1>3. SessionsInv => PasswordsHold
  BY <1>1, <1>2 DEF SessionsInv, PasswordsHold, ResetUsesPaidFor, AtOnce
<1> QED
  BY <1>3, SessionsKept, PTL

(* When no request is under way, the pairs that the user never received,   *)
(* and those he holds with no session to show, come from failures, or were *)
(* made in the middle of a logout.                                         *)
THEOREM PairsArePaidFor == Spec => []PairsAccountedFor
<1>1. ASSUME TypeOK, PairsInv, RequestsFit, AllIdle PROVE OrphansPaidFor /\ VisibleTokens
  <2>1. \A r \in Requests : req[r].new = 0 /\ ~ Doing(r, "session") /\ ~ Doing(r, "revoke_token")
    BY <1>1, RequestFacts DEF AllIdle, OthersFit, Idle, Doing
  <2>2. issued \in Nat /\ 0 \notin Live
    BY <1>1, SizesKnown DEF Live, Rows
  <2>3. Lost = Live \ held
    BY <2>1, <2>2 DEF Lost
  <2>4. Hidden \ crossed \subseteq Unseen
    BY <2>1 DEF Hidden, Unseen
  <2>5. Cardinality(Lost) <= faults /\ Cardinality(Unseen) <= faults /\ faults \in Nat
    BY <1>1, SizesKnown DEF PairsInv
  <2>6. IsFiniteSet(Unseen) /\ Cardinality(Unseen) \in Nat
    <3>1. IsFiniteSet(1..issued) /\ Unseen \subseteq 1..issued
      BY <2>2, FS_Interval DEF Unseen, Live, Rows
    <3>2. IsFiniteSet(Unseen)
      BY <3>1, FS_Subset
    <3> QED
      BY <3>2, FS_CardinalityType
  <2>7. Cardinality(Hidden \ crossed) <= Cardinality(Unseen) /\ IsFiniteSet(Hidden \ crossed)
    BY <2>4, <2>6, FS_Subset
  <2>8. Cardinality(Hidden \ crossed) \in Nat
    BY <2>7, FS_CardinalityType
  <2>9. Cardinality(Hidden \ crossed) <= faults
    BY <2>5, <2>6, <2>7, <2>8
  <2> QED
    BY <2>3, <2>5, <2>9 DEF OrphansPaidFor, VisibleTokens
<1>2. SessionsInv => PairsAccountedFor
  BY <1>1 DEF SessionsInv, PairsAccountedFor
<1> QED
  BY <1>2, SessionsKept, PTL
=============================================================================
