------------------------------- MODULE SyncHub -------------------------------
(***************************************************************************)
(* The WebSocket hub of the sync service, websocket/hub.go, and the        *)
(* connections of one user: the Run goroutine, a readPump and a writePump  *)
(* per connection and the cleanup goroutine, which share the hub's maps,   *)
(* the connections' Send channels and the connections table.               *)
(*                                                                         *)
(* Run handles one message of its channels at a time, under h.mu, so a     *)
(* handler is one step; register and unregister are unbuffered, so a       *)
(* sender waits until Run takes its message.  What a message says is left  *)
(* out, and so is presence.active_connections.                             *)
(***************************************************************************)
EXTENDS Naturals, FiniteSets

CONSTANTS
    Conns,     \* connections; each ID is fresh and used once
    None,      \* no connection
    Buffer,    \* capacity of a Send channel
    MaxFaults  \* bound on failed statements on the connections table

ASSUME HubAssumption ==
    /\ None \notin Conns
    /\ Buffer \in Nat \ {0} /\ MaxFaults \in Nat

VARIABLES
    clients,  \* h.clients
    index,    \* h.userIndex of the user
    busy,     \* the client Run has received from register and not yet handled
    send,     \* number of messages in the Send channel of each connection
    closed,   \* connections whose Send channel is closed
    socket,   \* "none", "open", "lost" (the peer is gone) or "closed"
    reader,   \* "none", "register", "read", "reply", "leave" or "done"
    writer,   \* "none", "run" or "done"
    active,   \* rows of connections with is_active
    status,   \* presence.status
    sweep,    \* the row cleanupStaleConnections is about to look up
    evict,    \* the client it is sending to unregister
    ended,    \* what ended the process: a panic in "hub" or "reader", the "runtime"; or "no"
    dropped,  \* history: connections a broadcast has dropped
    flooded,  \* history: connections whose channel was full before the welcome
    late,     \* history: since Run last wrote presence, a status was reported
              \*   from outside the index
    missed,   \* history: that write of Run failed, and status tells otherwise
    faults    \* history: failed statements on the connections table

maps == <<clients, index, busy>>
conns == <<send, closed, socket, reader, writer>>
table == <<active, faults>>
presence == <<status, late, missed>>
cleanup == <<sweep, evict>>
vars == <<maps, conns, table, presence, cleanup, ended, dropped, flooded>>

Statuses == {"online", "offline"}   \* online: any but offline

Init ==
    /\ clients = {} /\ index = {} /\ busy = None
    /\ send = [c \in Conns |-> 0] /\ closed = {}
    /\ socket = [c \in Conns |-> "none"]
    /\ reader = [c \in Conns |-> "none"]
    /\ writer = [c \in Conns |-> "none"]
    /\ active = {} /\ status = "offline" /\ late = FALSE /\ missed = FALSE
    /\ sweep = None /\ evict = None /\ ended = "no"
    /\ dropped = {} /\ flooded = {} /\ faults = 0

-----------------------------------------------------------------------------
Alive == ended = "no"

(* A statement on the connections table; its error is only logged.         *)
Store(rows) ==
    \/ active' = rows /\ UNCHANGED faults
    \/ faults < MaxFaults /\ faults' = faults + 1 /\ UNCHANGED active

(* Run writes presence.status; an error is only logged here as well.       *)
Tell(s) == status' \in {s, status} /\ missed' = (status' # s) /\ late' = FALSE

Full(c) == send[c] = Buffer

(* HandleWebSocket up to h.register <- client.                             *)
Connect(c) ==
    /\ Alive /\ socket[c] = "none"
    /\ socket' = [socket EXCEPT ![c] = "open"]
    /\ reader' = [reader EXCEPT ![c] = "register"]
    /\ UNCHANGED <<maps, send, closed, writer, table, presence, cleanup, ended, dropped, flooded>>

(* Run receives the client; the pumps may start before it is handled.      *)
Accept(c) ==
    /\ Alive /\ busy = None /\ reader[c] = "register"
    /\ busy' = c
    /\ reader' = [reader EXCEPT ![c] = "read"]
    /\ writer' = [writer EXCEPT ![c] = "run"]
    /\ UNCHANGED <<clients, index, send, closed, socket, table, presence, cleanup,
                   ended, dropped, flooded>>

(* handleRegister.  If replies have filled the channel meanwhile, it is    *)
(* closed instead of getting the welcome message, and the client stays.    *)
HandleRegister(c) ==
    /\ Alive /\ busy = c /\ c \in Conns
    /\ busy' = None
    /\ clients' = clients \cup {c} /\ index' = index \cup {c}
    /\ Store(active \cup {c})
    /\ Tell("online")
    /\ IF ~ Full(c)
       THEN send' = [send EXCEPT ![c] = @ + 1] /\ UNCHANGED <<closed, flooded>>
       ELSE closed' = closed \cup {c} /\ flooded' = flooded \cup {c} /\ UNCHANGED send
    /\ UNCHANGED <<socket, reader, writer, cleanup, ended, dropped>>

(* Mutant: a client that is gone already is handled again.                 *)
KnownAlways(c) == c \in Conns

Known(c) == c \in clients

(* Mutant: the status is left alone.                                       *)
PresenceKept(c) == UNCHANGED presence

PresenceWithout(c) == IF c \in index /\ index \ {c} = {} THEN Tell("offline") ELSE UNCHANGED presence

(* handleUnregister, whose close of a closed channel would panic.          *)
HandleUnregister(c) ==
    \/ ~ Known(c) /\ UNCHANGED <<clients, index, presence, closed, socket, table, ended>>
    \/ /\ Known(c)
       /\ clients' = clients \ {c} /\ index' = index \ {c}
       /\ PresenceWithout(c)
       /\ ended' = IF c \in closed THEN "hub" ELSE ended
       /\ closed' = closed \cup {c}
       /\ socket' = [socket EXCEPT ![c] = "closed"]
       /\ Store(active \ {c})

(* Run receives what readPump sends when it ends.                          *)
Leave(c) ==
    /\ Alive /\ busy = None /\ reader[c] = "leave"
    /\ HandleUnregister(c)
    /\ reader' = [reader EXCEPT ![c] = "done"]
    /\ UNCHANGED <<busy, send, writer, cleanup, dropped, flooded>>

(* Mutant: a client whose channel is closed is left in the map.            *)
GoneNone(full) == {}

Gone(full) == full

(* handleBroadcast: to the user or to all, which is the same for one user. *)
(* A client with a full channel is closed and deleted under the read lock, *)
(* which the cleanup goroutine may hold for its lookup: the runtime may    *)
(* notice and end the process.                                             *)
Broadcast ==
    /\ Alive /\ busy = None /\ clients # {}
    /\ LET full == {c \in clients : Full(c)}
       IN /\ send' = [c \in Conns |-> IF c \in clients \ (full \cup closed) THEN send[c] + 1 ELSE send[c]]
          /\ closed' = closed \cup full
          /\ clients' = clients \ Gone(full)
          /\ dropped' = dropped \cup full
          /\ \/ ended' = IF clients \cap closed # {} THEN "hub" ELSE "no"
             \/ ended' = "runtime" /\ full # {} /\ sweep # None
    /\ UNCHANGED <<index, busy, socket, reader, writer, table, presence, cleanup, flooded>>

-----------------------------------------------------------------------------
(* A status from a presence message or from PUT /presence.  It is late     *)
(* when none of the user's connections is in the index.  One that fails    *)
(* changes nothing.                                                        *)
Report(s) == status' = s /\ late' = (late \/ index = {}) /\ UNCHANGED missed

(* readPump handles a message: a ping or a sync wants a reply ...          *)
Receive(c) ==
    /\ Alive /\ reader[c] = "read" /\ socket[c] = "open"
    /\ \/ /\ reader' = [reader EXCEPT ![c] = "reply"]
          /\ UNCHANGED presence
       \/ \E s \in Statuses : Report(s) /\ UNCHANGED reader
    /\ UNCHANGED <<maps, send, closed, socket, writer, table, cleanup, ended, dropped, flooded>>

(* ... which blocks on a full channel and panics on a closed one.          *)
Reply(c) ==
    /\ Alive /\ reader[c] = "reply"
    /\ \/ /\ c \in closed
          /\ ended' = "reader"
          /\ UNCHANGED <<send, reader>>
       \/ /\ c \notin closed /\ ~ Full(c)
          /\ send' = [send EXCEPT ![c] = @ + 1]
          /\ reader' = [reader EXCEPT ![c] = "read"]
          /\ UNCHANGED ended
    /\ UNCHANGED <<maps, closed, socket, writer, table, presence, cleanup, dropped, flooded>>

(* The peer goes away, or stays silent beyond the read deadline.           *)
Lose(c) ==
    /\ Alive /\ socket[c] = "open"
    /\ socket' = [socket EXCEPT ![c] = "lost"]
    /\ UNCHANGED <<maps, send, closed, reader, writer, table, presence, cleanup, ended, dropped, flooded>>

AfterRead == "leave"   \* the deferred c.Hub.unregister <- c

(* readPump gets an error and ends.                                        *)
ReadFails(c) ==
    /\ Alive /\ reader[c] = "read" /\ socket[c] \in {"lost", "closed"}
    /\ reader' = [reader EXCEPT ![c] = AfterRead]
    /\ UNCHANGED <<maps, send, closed, socket, writer, table, presence, cleanup,
                   ended, dropped, flooded>>

(* writePump writes a message, ignoring the error; finds the channel       *)
(* closed; or gets an error for a ping.                                    *)
Write(c) ==
    /\ Alive /\ writer[c] = "run" /\ send[c] > 0
    /\ send' = [send EXCEPT ![c] = @ - 1]
    /\ UNCHANGED <<maps, closed, socket, reader, writer, table, presence, cleanup,
                   ended, dropped, flooded>>

(* Mutant: writePump ignores that the channel is closed.                   *)
NoticesNever(c) == FALSE

Notices(c) == c \in closed /\ send[c] = 0

WriterEnds(c) ==
    /\ Alive /\ writer[c] = "run"
    /\ Notices(c) \/ socket[c] \in {"lost", "closed"}
    /\ socket' = [socket EXCEPT ![c] = "closed"]
    /\ writer' = [writer EXCEPT ![c] = "done"]
    /\ UNCHANGED <<maps, send, closed, reader, table, presence, cleanup, ended, dropped, flooded>>

-----------------------------------------------------------------------------
(* UpdatePresence of handlers.go, whose broadcast is a step of its own.    *)
UpdatePresence ==
    /\ Alive
    /\ \E s \in Statuses : Report(s)
    /\ UNCHANGED <<maps, conns, table, cleanup, ended, dropped, flooded>>

(* cleanupStaleConnections goes on to a row of those whose last_ping_at is *)
(* more than 5 minutes ago.  Nothing ever sets it but the INSERT: after    *)
(* that time any active row is one, however often its connection pings.    *)
(* What has happened to a row since the query, the lookup tells.           *)
FindStale ==
    /\ Alive /\ sweep = None /\ evict = None
    /\ sweep' \in active
    /\ UNCHANGED <<maps, conns, table, presence, evict, ended, dropped, flooded>>

(* The lookup, from where it waits for Run if the client is found ...      *)
LookUp ==
    /\ Alive /\ sweep # None
    /\ evict' = IF sweep \in clients THEN sweep ELSE None
    /\ sweep' = None
    /\ UNCHANGED <<maps, conns, table, presence, ended, dropped, flooded>>

(* ... and Run receives it.                                                *)
Evict(c) ==
    /\ Alive /\ busy = None /\ evict = c /\ c \in Conns
    /\ HandleUnregister(c)
    /\ evict' = None
    /\ UNCHANGED <<busy, send, reader, writer, sweep, dropped, flooded>>

Run == \E c \in Conns : Accept(c) \/ HandleRegister(c) \/ Leave(c) \/ Evict(c)
ReadPump(c) == Reply(c) \/ ReadFails(c)

Next ==
    \/ Run \/ Broadcast
    \/ \E c \in Conns : ReadPump(c) \/ Write(c) \/ WriterEnds(c)
                        \/ Connect(c) \/ Receive(c) \/ Lose(c)
    \/ UpdatePresence \/ FindStale \/ LookUp

Spec == Init /\ [][Next]_vars

(* The goroutines are scheduled.  select picks at random among the cases   *)
(* that are ready, so broadcasts keep no sender of register or unregister  *)
(* waiting and messages do not keep writePump from its ping; a sender that *)
(* waits on a full channel gets the place the next receive frees (SF).     *)
(* Deadlines of 10 s for a write and 60 s for a read end what the network  *)
(* does not.                                                               *)
FairSpec ==
    /\ Spec
    /\ WF_vars(Run)
    /\ \A c \in Conns : SF_vars(ReadPump(c)) /\ WF_vars(Write(c)) /\ WF_vars(WriterEnds(c))

-----------------------------------------------------------------------------
(* Every variable has its type, and no channel outgrows its buffer.        *)
TypeOK ==
    /\ clients \subseteq Conns /\ index \subseteq Conns /\ busy \in Conns \cup {None}
    /\ send \in [Conns -> 0..Buffer]
    /\ closed \subseteq Conns
    /\ socket \in [Conns -> {"none", "open", "lost", "closed"}]
    /\ reader \in [Conns -> {"none", "register", "read", "reply", "leave", "done"}]
    /\ writer \in [Conns -> {"none", "run", "done"}]
    /\ active \subseteq Conns
    /\ status \in Statuses
    /\ sweep \in Conns \cup {None} /\ evict \in Conns \cup {None}
    /\ ended \in {"no", "hub", "reader", "runtime"} /\ late \in BOOLEAN /\ missed \in BOOLEAN
    /\ dropped \subseteq Conns /\ flooded \subseteq Conns
    /\ faults \in 0..MaxFaults

(* The hub's own goroutine never sends on a closed channel and never       *)
(* closes one twice, although readPump, cleanup, a broadcast and the       *)
(* welcome all have clients removed or channels closed.  The one exception *)
(* is a client whose replies had filled its channel before its welcome.    *)
HubNeverPanics == ended = "hub" => flooded # {}

(* The two maps and the table tell the same connections, but for those a   *)
(* broadcast has dropped - they stay in the index and in the table - and   *)
(* for the statements that have failed.                                    *)
Wrong == (active \ index) \cup (index \ active)   \* rows that tell otherwise
Bookkeeping ==
    /\ clients \cap dropped = {}
    /\ index = clients \cup dropped
    /\ Cardinality(Wrong) <= faults

(* A user with no connection left is offline, unless the write that was to *)
(* say so failed (handleUnregister), or a status was reported after the    *)
(* last one went; a user with a dropped one never gets there.              *)
OfflineWhenGone == index = {} => status = "offline" \/ late \/ missed

(* hub.go:188, "Client buffer full, close connection": when the hub closes *)
(* a Send channel the connection is closed in the end.                     *)
ClosedEndsSocket == \A c \in Conns : c \in closed ~> socket[c] = "closed" \/ ~ Alive

(* A reader waits for ever on a full channel that nobody empties.          *)
Stuck(c) == reader[c] = "reply" /\ writer[c] = "done" /\ send[c] = Buffer /\ c \notin closed

(* A connection whose peer is gone is forgotten by the hub, unless its     *)
(* reader is stuck, a broadcast has dropped it, or the process has ended.  *)
LostIsForgotten ==
    \A c \in Conns :
        socket[c] = "lost" ~> \/ c \notin clients /\ reader[c] = "done"
                              \/ c \in dropped \/ ~ Alive
                              \/ []Stuck(c)

(* Both: what the hub has given up, or the network, leaves nothing behind. *)
ConnectionsEnd == ClosedEndsSocket /\ LostIsForgotten
=============================================================================
