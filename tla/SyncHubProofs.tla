---------------------------- MODULE SyncHubProofs ----------------------------
(***************************************************************************)
(* Proofs about SyncHub, for any number of connections and any buffer: the *)
(* types, that the hub's goroutine never panics, that its maps and the     *)
(* connections table agree, and that presence follows unless its write     *)
(* fails.                                                                  *)
(***************************************************************************)
EXTENDS SyncHub, FiniteSetTheorems, TLAPS

LEMMA Bounds == None \notin Conns /\ Buffer \in Nat /\ Buffer > 0 /\ MaxFaults \in Nat
BY HubAssumption, SMT

-----------------------------------------------------------------------------
LEMMA StoreType ==
    ASSUME TypeOK, NEW rows \in SUBSET Conns, Store(rows)
    PROVE  active' \subseteq Conns /\ faults' \in 0..MaxFaults
<1>1. faults' \in 0..MaxFaults
  BY Bounds, SMT DEF TypeOK, Store
<1> QED
  BY <1>1 DEF TypeOK, Store

LEMMA UnregisterType ==
    ASSUME TypeOK, NEW c \in Conns, HandleUnregister(c)
    PROVE  /\ clients' \subseteq Conns /\ index' \subseteq Conns /\ closed' \subseteq Conns
           /\ socket' \in [Conns -> {"none", "open", "lost", "closed"}]
           /\ active' \subseteq Conns /\ faults' \in 0..MaxFaults
           /\ status' \in Statuses /\ late' \in BOOLEAN /\ missed' \in BOOLEAN
           /\ ended' \in {"no", "hub", "reader", "runtime"}
<1>1. CASE ~ Known(c)
  BY <1>1 DEF HandleUnregister, TypeOK, presence, table
<1>2. CASE Known(c)
  <2>1. active \ {c} \in SUBSET Conns /\ Store(active \ {c})
    BY <1>2 DEF HandleUnregister, TypeOK
  <2>2. active' \subseteq Conns /\ faults' \in 0..MaxFaults
    BY <2>1, StoreType
  <2>3. status' \in Statuses /\ late' \in BOOLEAN /\ missed' \in BOOLEAN
    BY <1>2 DEF HandleUnregister, PresenceWithout, Tell, presence, Statuses, TypeOK
  <2> QED
    BY <1>2, <2>2, <2>3 DEF HandleUnregister, TypeOK
<1> QED
  BY <1>1, <1>2

LEMMA TypeInit == Init => TypeOK
<1>1. 0 \in 0..Buffer /\ 0 \in 0..MaxFaults
  BY Bounds, SMT
<1> QED
  BY <1>1 DEF Init, TypeOK, Statuses

(* The steps that put a message into a channel or take one out.            *)
LEMMA SendType ==
    ASSUME TypeOK, NEW c \in Conns
    PROVE  /\ ~ Full(c) => send[c] + 1 \in 0..Buffer
           /\ send[c] > 0 => send[c] - 1 \in 0..Buffer
<1>1. send[c] \in 0..Buffer
  BY DEF TypeOK
<1> QED
  BY <1>1, Bounds, SMT DEF Full

LEMMA TypeStep == TypeOK /\ [Next]_vars => TypeOK'
<1> SUFFICES ASSUME TypeOK, [Next]_vars PROVE TypeOK'
  OBVIOUS
<1> USE DEF TypeOK, maps, conns, table, presence, cleanup
<1>1. ASSUME NEW c \in Conns, Accept(c) PROVE TypeOK'
  BY <1>1 DEF Accept
<1>2. ASSUME NEW c \in Conns, HandleRegister(c) PROVE TypeOK'
  <2>1. active \cup {c} \in SUBSET Conns /\ Store(active \cup {c})
    BY <1>2 DEF HandleRegister
  <2>2. active' \subseteq Conns /\ faults' \in 0..MaxFaults
    BY <2>1, StoreType
  <2>3. send' \in [Conns -> 0..Buffer]
    BY <1>2, SendType DEF HandleRegister
  <2>4. closed' \subseteq Conns /\ flooded' \subseteq Conns
    BY <1>2 DEF HandleRegister
  <2>5. status' \in Statuses /\ late' \in BOOLEAN /\ missed' \in BOOLEAN
    BY <1>2 DEF HandleRegister, Tell, Statuses
  <2> QED
    BY <1>2, <2>2, <2>3, <2>4, <2>5 DEF HandleRegister
<1>3. ASSUME NEW c \in Conns, Leave(c) PROVE TypeOK'
  <2>1. HandleUnregister(c)
    BY <1>3 DEF Leave
  <2> QED
    BY <1>3, <2>1, UnregisterType DEF Leave
<1>4. ASSUME NEW c \in Conns, Evict(c) PROVE TypeOK'
  <2>1. HandleUnregister(c)
    BY <1>4 DEF Evict
  <2> QED
    BY <1>4, <2>1, UnregisterType DEF Evict
<1>5. CASE Broadcast
  <2>1. \A c \in Conns : ~ Full(c) => send[c] + 1 \in 0..Buffer
    BY SendType
  <2>2. send' \in [Conns -> 0..Buffer]
    BY <1>5, <2>1 DEF Broadcast
  <2>3. /\ closed' \subseteq Conns /\ clients' \subseteq Conns /\ dropped' \subseteq Conns
        /\ ended' \in {"no", "hub", "reader", "runtime"}
    BY <1>5 DEF Broadcast, Gone
  <2> QED
    BY <1>5, <2>2, <2>3 DEF Broadcast
<1>6. ASSUME NEW c \in Conns, Reply(c) PROVE TypeOK'
  <2>1. send' \in [Conns -> 0..Buffer]
    BY <1>6, SendType DEF Reply
  <2> QED
    BY <1>6, <2>1 DEF Reply
<1>7. ASSUME NEW c \in Conns, ReadFails(c) PROVE TypeOK'
  BY <1>7 DEF ReadFails, AfterRead
<1>8. ASSUME NEW c \in Conns, Write(c) PROVE TypeOK'
  <2>1. send' \in [Conns -> 0..Buffer]
    BY <1>8, SendType DEF Write
  <2> QED
    BY <1>8, <2>1 DEF Write
<1>9. ASSUME NEW c \in Conns, WriterEnds(c) PROVE TypeOK'
  BY <1>9 DEF WriterEnds
<1>10. ASSUME NEW c \in Conns, Connect(c) \/ Lose(c) PROVE TypeOK'
  BY <1>10 DEF Connect, Lose
<1>11. ASSUME NEW c \in Conns, Receive(c) PROVE TypeOK'
  BY <1>11 DEF Receive, Report
<1>12. CASE UpdatePresence
  BY <1>12 DEF UpdatePresence, Report
<1>13. CASE FindStale \/ LookUp
  BY <1>13 DEF FindStale, LookUp
<1>14. CASE UNCHANGED vars
  BY <1>14 DEF vars
<1> QED
  BY <1>1, <1>2, <1>3, <1>4, <1>5, <1>6, <1>7, <1>8, <1>9, <1>10, <1>11, <1>12, <1>13, <1>14
     DEF Next, Run, ReadPump

(* Every variable keeps its type, and no channel outgrows its buffer.      *)
THEOREM TypeCorrect == Spec => []TypeOK
BY TypeInit, TypeStep, PTL DEF Spec

-----------------------------------------------------------------------------
(* The pumps of a connection start after its register is received.         *)
Pumps ==
    \A c \in Conns : /\ socket[c] = "none" => reader[c] = "none"
                     /\ busy = c => reader[c] \notin {"none", "register"}

LEMMA PumpsStep ==
    ASSUME TypeOK, Pumps, [Next]_vars
    PROVE  Pumps'
<1> USE DEF TypeOK, Pumps, maps, conns
<1>1. ASSUME NEW c \in Conns, Accept(c) PROVE Pumps'
  BY <1>1 DEF Accept
<1>2. ASSUME NEW c \in Conns, HandleRegister(c) PROVE Pumps'
  BY <1>2, Bounds DEF HandleRegister
<1>3. ASSUME NEW c \in Conns, Leave(c) \/ Evict(c) PROVE Pumps'
  <2>1. socket' = socket \/ socket' = [socket EXCEPT ![c] = "closed"]
    BY <1>3 DEF Leave, Evict, HandleUnregister
  <2>2. busy' = busy /\ (reader' = reader \/ reader' = [reader EXCEPT ![c] = "done"])
    BY <1>3 DEF Leave, Evict
  <2>3. \A d \in Conns : socket'[d] = "none" => socket[d] = "none"
    BY <2>1
  <2>4. \A d \in Conns : reader'[d] = reader[d] \/ (d = c /\ reader'[d] = "done")
    BY <2>2
  <2>5. busy = None
    BY <1>3 DEF Leave, Evict
  <2>6. \A d \in Conns : socket'[d] = "none" => reader'[d] = "none"
    <3>1. CASE Leave(c)
      <4>1. socket[c] # "none"
        BY <3>1 DEF Leave
      <4> QED
        BY <2>3, <2>4, <4>1
    <3>2. CASE Evict(c)
      <4>1. reader' = reader
        BY <3>2 DEF Evict
      <4> QED
        BY <2>3, <4>1
    <3> QED
      BY <1>3, <3>1, <3>2
  <2> QED
    BY <2>2, <2>5, <2>6, Bounds
<1>4. ASSUME NEW c \in Conns, Reply(c) \/ ReadFails(c) \/ Write(c) PROVE Pumps'
  BY <1>4 DEF Reply, ReadFails, AfterRead, Write
<1>5. ASSUME NEW c \in Conns, WriterEnds(c) \/ Lose(c) PROVE Pumps'
  <2>1. reader' = reader /\ busy' = busy
    BY <1>5 DEF WriterEnds, Lose
  <2>2. \A d \in Conns : socket'[d] = "none" => socket[d] = "none"
    BY <1>5 DEF WriterEnds, Lose
  <2> QED
    BY <2>1, <2>2
<1>6. ASSUME NEW c \in Conns, Connect(c) PROVE Pumps'
  BY <1>6 DEF Connect
<1>7. ASSUME NEW c \in Conns, Receive(c) PROVE Pumps'
  BY <1>7 DEF Receive
<1>8. CASE Broadcast \/ UpdatePresence \/ FindStale \/ LookUp \/ UNCHANGED vars
  BY <1>8 DEF Broadcast, UpdatePresence, FindStale, LookUp, vars
<1> QED
  BY <1>1, <1>2, <1>3, <1>4, <1>5, <1>6, <1>7, <1>8 DEF Next, Run, ReadPump

(* A connection that Run has not handled yet is in none of the hub's       *)
(* books, and the channel of a client in the map is open.                  *)
Unhandled(c) == reader[c] \in {"none", "register"} \/ busy = c
NewIsNew == \A c \in Conns : Unhandled(c) => c \notin clients \cup closed \cup dropped
OpenWhileRegistered == clients \cap closed \subseteq flooded
HubInv == TypeOK /\ Pumps /\ NewIsNew /\ OpenWhileRegistered /\ HubNeverPanics

LEMMA HubInit == Init => HubInv
<1>1. Init => Pumps /\ NewIsNew /\ OpenWhileRegistered /\ HubNeverPanics
  BY Bounds DEF Init, Pumps, NewIsNew, OpenWhileRegistered, HubNeverPanics
<1> QED
  BY <1>1, TypeInit DEF HubInv

(* Every step but these four leaves the books alone.                       *)
LEMMA QuietSteps ==
    ASSUME TypeOK, Pumps, [Next]_vars
    PROVE  \/ /\ UNCHANGED <<clients, closed, dropped, flooded, index, active, faults>>
              /\ ended' \in {ended, "reader"}
              /\ \A c \in Conns : Unhandled(c)' => Unhandled(c)
           \/ \E c \in Conns : HandleRegister(c)
           \/ /\ \E c \in Conns : HandleUnregister(c) /\ (reader[c] = "leave" \/ evict = c)
              /\ busy = None /\ Alive
              /\ UNCHANGED <<busy, dropped, flooded>>
              /\ \A c \in Conns : Unhandled(c)' => Unhandled(c)
           \/ Broadcast
<1> USE DEF TypeOK, maps, conns, table, presence, cleanup, Unhandled
<1>1. ASSUME NEW c \in Conns, Accept(c)
      PROVE  /\ UNCHANGED <<clients, closed, dropped, flooded, index, active, faults, ended>>
             /\ \A d \in Conns : Unhandled(d)' => Unhandled(d)
  BY <1>1 DEF Accept
<1>2. ASSUME NEW c \in Conns, Leave(c) \/ Evict(c)
      PROVE  /\ HandleUnregister(c) /\ (reader[c] = "leave" \/ evict = c)
             /\ busy = None /\ Alive /\ UNCHANGED <<busy, dropped, flooded>>
             /\ \A d \in Conns : Unhandled(d)' => Unhandled(d)
  BY <1>2 DEF Leave, Evict
<1>3. ASSUME NEW c \in Conns,
             Reply(c) \/ ReadFails(c) \/ Write(c) \/ WriterEnds(c) \/ Lose(c) \/ Receive(c)
      PROVE  /\ UNCHANGED <<clients, closed, dropped, flooded, index, active, faults>>
             /\ ended' \in {ended, "reader"}
             /\ \A d \in Conns : Unhandled(d)' => Unhandled(d)
  BY <1>3 DEF Reply, ReadFails, AfterRead, Write, WriterEnds, Lose, Receive
<1>4. ASSUME UpdatePresence \/ FindStale \/ LookUp \/ UNCHANGED vars
      PROVE  /\ UNCHANGED <<clients, closed, dropped, flooded, index, active, faults, ended>>
             /\ \A d \in Conns : Unhandled(d)' => Unhandled(d)
  BY <1>4 DEF UpdatePresence, FindStale, LookUp, vars
<1>5. ASSUME NEW c \in Conns, Connect(c)
      PROVE  /\ UNCHANGED <<clients, closed, dropped, flooded, index, active, faults, ended>>
             /\ \A d \in Conns : Unhandled(d)' => Unhandled(d)
  <2>1. reader[c] = "none"
    BY <1>5 DEF Connect, Pumps
  <2> QED
    BY <1>5, <2>1 DEF Connect
<1> QED
  BY <1>1, <1>2, <1>3, <1>4, <1>5 DEF Next, Run, ReadPump

LEMMA HubStep == HubInv /\ [Next]_vars => HubInv'
<1> SUFFICES ASSUME TypeOK, Pumps, NewIsNew, OpenWhileRegistered, HubNeverPanics, [Next]_vars
             PROVE  NewIsNew' /\ OpenWhileRegistered' /\ HubNeverPanics'
  BY TypeStep, PumpsStep DEF HubInv
<1> USE DEF NewIsNew, OpenWhileRegistered, HubNeverPanics
<1>1. CASE /\ UNCHANGED <<clients, closed, dropped, flooded, index, active, faults>>
           /\ ended' \in {ended, "reader"}
           /\ \A c \in Conns : Unhandled(c)' => Unhandled(c)
  BY <1>1
<1>2. ASSUME NEW c \in Conns, HandleRegister(c)
      PROVE  NewIsNew' /\ OpenWhileRegistered' /\ HubNeverPanics'
  <2>1. /\ clients' = clients \cup {c} /\ dropped' = dropped /\ ended' = ended
        /\ \/ UNCHANGED <<closed, flooded>>
           \/ closed' = closed \cup {c} /\ flooded' = flooded \cup {c}
    BY <1>2 DEF HandleRegister
  <2>2. c \notin closed
    BY <1>2 DEF HandleRegister, Unhandled
  <2>3. \A d \in Conns : Unhandled(d)' => Unhandled(d) /\ d # c
    <3>1. reader' = reader /\ busy' = None /\ busy = c
      BY <1>2 DEF HandleRegister
    <3>2. reader[c] \notin {"none", "register"}
      BY <3>1 DEF Pumps
    <3> QED
      BY <3>1, <3>2, Bounds DEF Unhandled
  <2> QED
    BY <2>1, <2>2, <2>3
<1>3. ASSUME NEW c \in Conns, HandleUnregister(c), Alive, UNCHANGED <<dropped, flooded>>,
             \A d \in Conns : Unhandled(d)' => Unhandled(d)
      PROVE  NewIsNew' /\ OpenWhileRegistered' /\ HubNeverPanics'
  <2>1. CASE ~ Known(c)
    BY <1>3, <2>1 DEF HandleUnregister
  <2>2. CASE Known(c)
    <3>1. /\ c \in clients /\ clients' = clients \ {c} /\ closed' = closed \cup {c}
          /\ ended' = IF c \in closed THEN "hub" ELSE ended
      BY <1>3, <2>2 DEF HandleUnregister, Known
    <3> QED
      BY <1>3, <3>1
  <2> QED
    BY <2>1, <2>2
<1>4. CASE Broadcast
  <2> DEFINE full == {c \in clients : Full(c)}
  <2>1. /\ closed' = closed \cup full /\ clients' = clients \ full /\ dropped' = dropped \cup full
        /\ full \subseteq clients /\ UNCHANGED <<flooded, busy, reader>>
        /\ ended' = "hub" => clients \cap closed # {}
    BY <1>4 DEF Broadcast, Gone, conns
  <2> HIDE DEF full
  <2>2. \A d \in Conns : Unhandled(d)' = Unhandled(d)
    BY <2>1 DEF Unhandled
  <2> QED
    BY <2>1, <2>2
<1> QED
  BY <1>1, <1>2, <1>3, <1>4, QuietSteps

(* Whatever readPump, cleanup, broadcasts and welcomes do, the hub's own   *)
(* goroutine closes no channel twice and sends on no closed one, but for a *)
(* client that had filled its channel before its welcome.                  *)
THEOREM HubSurvives == Spec => []HubNeverPanics
BY HubInit, HubStep, PTL DEF Spec, HubInv

-----------------------------------------------------------------------------
(* A row that is stored or cleared as the index is brings the table closer *)
(* to it; a statement that fails leaves at most one row more behind.       *)
WrongRows == IsFiniteSet(Wrong) /\ Cardinality(Wrong) <= faults
BooksInv == HubInv /\ clients \cap dropped = {} /\ index = clients \cup dropped /\ WrongRows

LEMMA WrongStep ==
    ASSUME TypeOK, WrongRows, NEW c \in Conns, NEW rows,
           Store(rows),
           \/ rows = active \cup {c} /\ index' = index \cup {c}
           \/ rows = active \ {c} /\ index' = index \ {c}
    PROVE  WrongRows'
<1>0. IsFiniteSet(Wrong) /\ Cardinality(Wrong) \in Nat /\ Cardinality(Wrong) <= faults /\ faults \in Nat
  BY FS_CardinalityType, Bounds, SMT DEF WrongRows, TypeOK
<1>1. CASE active' = rows /\ UNCHANGED faults
  <2>1. Wrong' \subseteq Wrong
    BY <1>1 DEF Wrong
  <2>2. IsFiniteSet(Wrong') /\ Cardinality(Wrong') <= Cardinality(Wrong)
    BY <1>0, <2>1, FS_Subset
  <2>3. Cardinality(Wrong') \in Nat
    BY <2>2, FS_CardinalityType
  <2>4. Cardinality(Wrong') <= faults'
    BY <1>0, <1>1, <2>2, <2>3, SMT
  <2> QED
    BY <2>2, <2>4 DEF WrongRows
<1>2. CASE faults' = faults + 1 /\ UNCHANGED active
  <2>1. Wrong' \subseteq Wrong \cup {c}
    BY <1>2 DEF Wrong
  <2>2. IsFiniteSet(Wrong \cup {c}) /\ Cardinality(Wrong \cup {c}) <= Cardinality(Wrong) + 1
    <3>1. /\ IsFiniteSet(Wrong \cup {c})
          /\ \/ Cardinality(Wrong \cup {c}) = Cardinality(Wrong)
             \/ Cardinality(Wrong \cup {c}) = Cardinality(Wrong) + 1
      BY <1>0, FS_AddElement
    <3> QED
      BY <1>0, <3>1, SMT
  <2>3. IsFiniteSet(Wrong') /\ Cardinality(Wrong') <= Cardinality(Wrong \cup {c})
    BY <2>1, <2>2, FS_Subset
  <2>4. Cardinality(Wrong') \in Nat /\ Cardinality(Wrong \cup {c}) \in Nat
    BY <2>2, <2>3, FS_CardinalityType
  <2>5. Cardinality(Wrong') <= faults'
    BY <1>0, <1>2, <2>2, <2>3, <2>4, SMT
  <2> QED
    BY <2>3, <2>5 DEF WrongRows
<1> QED
  BY <1>1, <1>2 DEF Store

LEMMA BooksStep == BooksInv /\ [Next]_vars => BooksInv'
<1> SUFFICES ASSUME BooksInv, [Next]_vars
             PROVE  /\ (clients \cap dropped)' = {} /\ index' = (clients \cup dropped)'
                    /\ WrongRows'
  BY HubStep DEF BooksInv
<1> USE DEF BooksInv
<1>t. TypeOK /\ Pumps /\ NewIsNew
  BY DEF HubInv
<1>1. CASE /\ UNCHANGED <<clients, closed, dropped, flooded, index, active, faults>>
           /\ ended' \in {ended, "reader"}
           /\ \A c \in Conns : Unhandled(c)' => Unhandled(c)
  BY <1>1 DEF WrongRows, Wrong
<1>2. ASSUME NEW c \in Conns, HandleRegister(c)
      PROVE  /\ (clients \cap dropped)' = {} /\ index' = (clients \cup dropped)'
             /\ WrongRows'
  <2>1. /\ clients' = clients \cup {c} /\ index' = index \cup {c} /\ dropped' = dropped
        /\ Store(active \cup {c})
    BY <1>2 DEF HandleRegister
  <2>2. c \notin dropped
    BY <1>2, <1>t DEF HandleRegister, NewIsNew, Unhandled
  <2>3. WrongRows'
    BY <1>t, <2>1, WrongStep
  <2> QED
    BY <2>1, <2>2, <2>3
<1>3. ASSUME NEW c \in Conns, HandleUnregister(c), UNCHANGED <<dropped, flooded>>
      PROVE  /\ (clients \cap dropped)' = {} /\ index' = (clients \cup dropped)'
             /\ WrongRows'
  <2>1. CASE ~ Known(c)
    BY <1>3, <2>1 DEF HandleUnregister, WrongRows, Wrong, table
  <2>2. CASE Known(c)
    <3>1. /\ c \in clients /\ clients' = clients \ {c} /\ index' = index \ {c}
          /\ Store(active \ {c})
      BY <1>3, <2>2 DEF HandleUnregister, Known
    <3>2. WrongRows'
      BY <1>t, <3>1, WrongStep
    <3> QED
      BY <1>3, <3>1, <3>2
  <2> QED
    BY <2>1, <2>2
<1>4. CASE Broadcast
  <2> DEFINE full == {c \in clients : Full(c)}
  <2>1. /\ clients' = clients \ full /\ dropped' = dropped \cup full /\ full \subseteq clients
        /\ UNCHANGED <<index, active, faults>>
    BY <1>4 DEF Broadcast, Gone, table
  <2> HIDE DEF full
  <2>2. WrongRows'
    BY <2>1 DEF WrongRows, Wrong
  <2> QED
    BY <2>1, <2>2
<1> QED
  BY <1>1, <1>2, <1>3, <1>4, <1>t, QuietSteps

LEMMA BooksInit == Init => BooksInv
<1>1. Init => Wrong = {} /\ faults = 0
  BY DEF Init, Wrong
<1>2. IsFiniteSet({}) /\ Cardinality({}) = 0
  BY FS_EmptySet
<1>3. Init => WrongRows
  BY <1>1, <1>2, SMT DEF WrongRows
<1>4. Init => clients \cap dropped = {} /\ index = clients \cup dropped
  BY DEF Init
<1> QED
  BY <1>3, <1>4, HubInit DEF BooksInv

(* However connections come, go, are dropped and swept, the index has the  *)
(* clients of the map and those dropped, and as many rows of the table     *)
(* tell otherwise as statements have failed.                               *)
THEOREM BooksAgree == Spec => []Bookkeeping
<1>1. BooksInv => Bookkeeping
  BY DEF BooksInv, WrongRows, Bookkeeping
<1> QED
  BY <1>1, BooksInit, BooksStep, PTL DEF Spec

-----------------------------------------------------------------------------
(* The last connection of a user takes the status with it: a client in the *)
(* map is in the index, so the index gets empty in an unregister only.     *)
LEMMA OfflineStep == BooksInv /\ OfflineWhenGone /\ [Next]_vars => OfflineWhenGone'
<1> SUFFICES ASSUME BooksInv, OfflineWhenGone, [Next]_vars
             PROVE  OfflineWhenGone'
  OBVIOUS
<1> USE DEF OfflineWhenGone, maps, conns, table, presence, cleanup
<1>1. clients \subseteq index
  BY DEF BooksInv
<1>2. ASSUME NEW c \in Conns, HandleRegister(c) PROVE OfflineWhenGone'
  BY <1>2 DEF HandleRegister
<1>3. ASSUME NEW c \in Conns, HandleUnregister(c) PROVE OfflineWhenGone'
  <2>1. CASE ~ Known(c)
    BY <1>3, <2>1 DEF HandleUnregister
  <2>2. CASE Known(c)
    <3>1. c \in index /\ index' = index \ {c} /\ PresenceWithout(c)
      BY <1>1, <1>3, <2>2 DEF HandleUnregister, Known
    <3>2. CASE index \ {c} = {}
      <4>1. Tell("offline")
        BY <3>1, <3>2 DEF PresenceWithout
      <4> QED
        BY <4>1 DEF Tell
    <3>3. CASE index \ {c} # {}
      BY <3>1, <3>3
    <3> QED
      BY <3>2, <3>3
  <2> QED
    BY <2>1, <2>2
<1>4. ASSUME NEW s \in Statuses, Report(s), index' = index PROVE OfflineWhenGone'
  <2>1. index = {} => late'
    BY <1>4, Zenon DEF Report
  <2> QED
    BY <1>4, <2>1
<1>5. CASE UNCHANGED <<index, status, late, missed>>
  BY <1>5
<1>6. ASSUME NEW c \in Conns, Leave(c) \/ Evict(c) PROVE OfflineWhenGone'
  BY <1>3, <1>6 DEF Leave, Evict
<1>7. ASSUME NEW c \in Conns, Receive(c) PROVE OfflineWhenGone'
  BY <1>4, <1>5, <1>7 DEF Receive
<1>8. CASE UpdatePresence
  BY <1>4, <1>8 DEF UpdatePresence
<1>9. ASSUME NEW c \in Conns,
             Accept(c) \/ Reply(c) \/ ReadFails(c) \/ Write(c) \/ WriterEnds(c) \/ Connect(c) \/ Lose(c)
      PROVE  OfflineWhenGone'
  BY <1>5, <1>9 DEF Accept, Reply, ReadFails, Write, WriterEnds, Connect, Lose
<1>10. CASE Broadcast \/ FindStale \/ LookUp \/ UNCHANGED vars
  BY <1>5, <1>10 DEF Broadcast, FindStale, LookUp, vars
<1> QED
  BY <1>2, <1>6, <1>7, <1>8, <1>9, <1>10 DEF Next, Run, ReadPump

(* However connections come and go, a user without any is offline, unless  *)
(* the write that was to say so failed or a status was reported while      *)
(* there was none.                                                         *)
THEOREM GoneIsOffline == Spec => []OfflineWhenGone
<1>1. Init => BooksInv /\ OfflineWhenGone
  BY BooksInit DEF Init, OfflineWhenGone
<1>2. BooksInv /\ OfflineWhenGone /\ [Next]_vars => (BooksInv /\ OfflineWhenGone)'
  BY BooksStep, OfflineStep
<1> QED
  BY <1>1, <1>2, PTL DEF Spec
=============================================================================
