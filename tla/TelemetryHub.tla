---------------------------- MODULE TelemetryHub ----------------------------
(***************************************************************************)
(* The controller's telemetry stream (cmd/controller/hub.go and the three  *)
(* places of cmd/controller/main.go that use it): the ticker goroutine and *)
(* the reset handler publish snapshots of the registry, the hub goroutine  *)
(* writes each to every dashboard connection, and the handler of a new     *)
(* connection writes the initial state to it from its own goroutine.       *)
(*                                                                         *)
(* A snapshot is the number of changes the registry had seen when it was   *)
(* read.  A connection is used once: a dashboard that reconnects is a new  *)
(* one.  Sockets and browsers are environment; a write blocks while the    *)
(* socket's buffer is full.                                                *)
(***************************************************************************)
EXTENDS Naturals, Sequences, FiniteSets

CONSTANTS
    Conn,        \* WebSocket connections of dashboards
    Stallable,   \* those whose browser may stop reading without hanging up
    QueueCap,    \* capacity of Hub.broadcast
    SocketCap,   \* frames a connection buffers
    Changes      \* model bound: changes of the registry, resets included

Nowhere == "nowhere"

ASSUME HubAssumption ==
    /\ Nowhere \notin Conn
    /\ Stallable \subseteq Conn
    /\ QueueCap \in Nat \ {0}
    /\ SocketCap \in Nat \ {0}
    /\ Changes \in Nat

Publisher == {"ticker", "reset"}

Frame == [from: Publisher \cup {"handler"}, version: 0..Changes]

NoFrame == [from |-> "nobody", version |-> 0]

VARIABLES
    alive,      \* is the controller process running?
    version,    \* changes the registry has seen
    publisher,  \* per publisher: "idle", "reading" or "sending"
    snapshot,   \* per publisher: the version it read
    broadcast,  \* Hub.broadcast
    clients,    \* Hub.clients
    delivering, \* the frame the hub is delivering, or NoFrame
    left,       \* connections the hub has still to write it to
    writingTo,  \* the one it is writing to now, or Nowhere
    handler,    \* per connection: "none", "registering", "reading", "writing", "done"
    initial,    \* per connection: the version its handler read
    conn,       \* per connection: "new", "open", "gone" (browser left), "closed"
    socket,     \* per connection: frames not yet read by the browser
    shown       \* per connection: the last frame the browser rendered

hub     == <<broadcast, clients, delivering, left, writingTo>>
senders == <<publisher, snapshot>>
handlers == <<handler, initial>>
browser == <<conn, socket, shown>>
vars    == <<alive, version, senders, hub, handlers, browser>>

Init ==
    /\ alive = TRUE
    /\ version = 0
    /\ publisher = [p \in Publisher |-> "idle"]
    /\ snapshot = [p \in Publisher |-> 0]
    /\ broadcast = <<>>
    /\ clients = {}
    /\ delivering = NoFrame
    /\ left = {}
    /\ writingTo = Nowhere
    /\ handler = [c \in Conn |-> "none"]
    /\ initial = [c \in Conn |-> 0]
    /\ conn = [c \in Conn |-> "new"]
    /\ socket = [c \in Conn |-> <<>>]
    /\ shown = [c \in Conn |-> NoFrame]

-----------------------------------------------------------------------------
(* The registry and those who publish it.                                   *)

\* Any other request or reaping that changes what a snapshot holds.
RegistryChanges ==
    /\ alive
    /\ version < Changes
    /\ version' = version + 1
    /\ UNCHANGED <<alive, senders, hub, handlers, browser>>

TickerFires ==
    /\ alive
    /\ publisher["ticker"] = "idle"
    /\ publisher' = [publisher EXCEPT !["ticker"] = "reading"]
    /\ UNCHANGED <<alive, version, snapshot, hub, handlers, browser>>

\* handleClusterReset up to its broadcast.
ResetRequested ==
    /\ alive
    /\ version < Changes
    /\ publisher["reset"] = "idle"
    /\ version' = version + 1
    /\ publisher' = [publisher EXCEPT !["reset"] = "reading"]
    /\ UNCHANGED <<alive, snapshot, hub, handlers, browser>>

\* Mutant: the snapshot is not read again.
ReadSnapshotOnce(p) ==
    /\ alive
    /\ publisher[p] = "reading"
    /\ publisher' = [publisher EXCEPT ![p] = "sending"]
    /\ UNCHANGED <<alive, version, snapshot, hub, handlers, browser>>

\* GetClusterSummary, then ListNodes, each under the registry's lock but not
\* both: a snapshot goes by the version of the first of the two reads, and
\* the second, some time before the send, is never older.
ReadSnapshot(p) ==
    /\ alive
    /\ publisher[p] = "reading"
    /\ publisher' = [publisher EXCEPT ![p] = "sending"]
    /\ snapshot' = [snapshot EXCEPT ![p] = version]
    /\ UNCHANGED <<alive, version, hub, handlers, browser>>

\* Mutants of BroadcastJSON: it waits for room; it puts the frame in front.
BroadcastJSONBlocking(p) ==
    /\ alive
    /\ publisher[p] = "sending"
    /\ Len(broadcast) < QueueCap
    /\ broadcast' = Append(broadcast, [from |-> p, version |-> snapshot[p]])
    /\ publisher' = [publisher EXCEPT ![p] = "idle"]
    /\ UNCHANGED <<alive, version, snapshot, clients, delivering, left,
                   writingTo, handlers, browser>>

BroadcastJSONInFront(p) ==
    /\ alive
    /\ publisher[p] = "sending"
    /\ broadcast' = IF Len(broadcast) < QueueCap
                    THEN <<[from |-> p, version |-> snapshot[p]]>> \o broadcast
                    ELSE broadcast
    /\ publisher' = [publisher EXCEPT ![p] = "idle"]
    /\ UNCHANGED <<alive, version, snapshot, clients, delivering, left,
                   writingTo, handlers, browser>>

\* A saturated channel drops the frame.
BroadcastJSON(p) ==
    /\ alive
    /\ publisher[p] = "sending"
    /\ broadcast' = IF Len(broadcast) < QueueCap
                    THEN Append(broadcast, [from |-> p, version |-> snapshot[p]])
                    ELSE broadcast
    /\ publisher' = [publisher EXCEPT ![p] = "idle"]
    /\ UNCHANGED <<alive, version, snapshot, clients, delivering, left,
                   writingTo, handlers, browser>>

Publish(p) == ReadSnapshot(p) \/ BroadcastJSON(p)

-----------------------------------------------------------------------------
(* Run, the hub's loop.  Nothing is ever sent to Hub.unregister.            *)

Selecting == alive /\ delivering = NoFrame

HubRegisters(c) ==
    /\ Selecting
    /\ handler[c] = "registering"
    /\ clients' = clients \cup {c}
    /\ handler' = [handler EXCEPT ![c] = "reading"]
    /\ UNCHANGED <<alive, version, senders, broadcast, delivering, left,
                   writingTo, initial, browser>>

HubTakes ==
    /\ Selecting
    /\ broadcast # <<>>
    /\ clients # {}
    /\ delivering' = Head(broadcast)
    /\ broadcast' = Tail(broadcast)
    /\ left' = clients
    /\ UNCHANGED <<alive, version, senders, clients, writingTo, handlers, browser>>

\* With no client the frame is taken and that is all.
HubDiscards ==
    /\ Selecting
    /\ broadcast # <<>>
    /\ clients = {}
    /\ broadcast' = Tail(broadcast)
    /\ UNCHANGED <<alive, version, senders, clients, delivering, left,
                   writingTo, handlers, browser>>

\* Two goroutines writing frames to one connection: a gorilla/websocket data
\* race, which its writer state may or may not notice with a panic.
Colliding(c) == handler[c] = "writing" /\ writingTo = c

HubWrites(c) ==
    /\ alive
    /\ writingTo = Nowhere
    /\ c \in left
    /\ writingTo' = c
    /\ left' = left \ {c}
    /\ UNCHANGED <<alive, version, senders, broadcast, clients, delivering,
                   handlers, browser>>

\* The loop over the clients ends with the last of them.
Written ==
    /\ writingTo' = Nowhere
    /\ delivering' = IF left = {} THEN NoFrame ELSE delivering

HubWritten(c) ==
    /\ alive
    /\ writingTo = c
    /\ conn[c] = "gone" \/ (conn[c] = "open" /\ Len(socket[c]) < SocketCap)
    /\ socket' = IF conn[c] = "open"
                 THEN [socket EXCEPT ![c] = Append(@, delivering)]
                 ELSE socket
    /\ Written
    /\ UNCHANGED <<alive, version, senders, broadcast, clients, left, handlers,
                   conn, shown>>

\* Mutant: a failed write is ignored.
HubFailsQuietly(c) ==
    /\ alive
    /\ writingTo = c
    /\ conn[c] \in {"gone", "closed"}
    /\ Written
    /\ UNCHANGED <<alive, version, senders, broadcast, clients, left, handlers,
                   browser>>

\* Mutant: the connection is closed and the client stays in the map.
HubFailsStillListed(c) ==
    /\ alive
    /\ writingTo = c
    /\ conn[c] \in {"gone", "closed"}
    /\ conn' = [conn EXCEPT ![c] = "closed"]
    /\ socket' = [socket EXCEPT ![c] = <<>>]
    /\ Written
    /\ UNCHANGED <<alive, version, senders, broadcast, clients, left, handlers, shown>>

HubFails(c) ==
    /\ alive
    /\ writingTo = c
    /\ conn[c] \in {"gone", "closed"}
    /\ conn' = [conn EXCEPT ![c] = "closed"]
    /\ socket' = [socket EXCEPT ![c] = <<>>]
    /\ clients' = clients \ {c}
    /\ Written
    /\ UNCHANGED <<alive, version, senders, broadcast, left, handlers, shown>>

\* A panic in the hub's goroutine ends the process.
HubPanics ==
    /\ alive
    /\ writingTo # Nowhere
    /\ Colliding(writingTo)
    /\ alive' = FALSE
    /\ conn' = [c \in Conn |-> IF conn[c] = "new" THEN "new" ELSE "closed"]
    /\ UNCHANGED <<version, senders, hub, handlers, socket, shown>>

Deliver == \E c \in Conn : HubWrites(c) \/ HubWritten(c) \/ HubFails(c)

-----------------------------------------------------------------------------
(* handleWebSocketTelemetry.                                                *)

Connect(c) ==
    /\ alive
    /\ conn[c] = "new"
    /\ conn' = [conn EXCEPT ![c] = "open"]
    /\ handler' = [handler EXCEPT ![c] = "registering"]
    /\ UNCHANGED <<alive, version, senders, hub, initial, socket, shown>>

ReadInitial(c) ==
    /\ alive
    /\ handler[c] = "reading"
    /\ handler' = [handler EXCEPT ![c] = "writing"]
    /\ initial' = [initial EXCEPT ![c] = version]
    /\ UNCHANGED <<alive, version, senders, hub, browser>>

InitialWritten(c) ==
    /\ alive
    /\ handler[c] = "writing"
    /\ conn[c] = "open"
    /\ Len(socket[c]) < SocketCap
    /\ socket' = [socket EXCEPT ![c] =
                     Append(@, [from |-> "handler", version |-> initial[c]])]
    /\ handler' = [handler EXCEPT ![c] = "done"]
    /\ UNCHANGED <<alive, version, senders, hub, initial, conn, shown>>

\* The browser has left, or the handler's goroutine is the one that panics:
\* net/http recovers it and leaves the hijacked connection open.
InitialFails(c) ==
    /\ alive
    /\ handler[c] = "writing"
    /\ conn[c] # "open" \/ Colliding(c)
    /\ handler' = [handler EXCEPT ![c] = "done"]
    /\ UNCHANGED <<alive, version, senders, hub, initial, browser>>

HandlerSteps(c) == ReadInitial(c) \/ InitialWritten(c) \/ InitialFails(c)

-----------------------------------------------------------------------------
(* Environment: the browser.                                                *)

BrowserReads(c) ==
    /\ conn[c] = "open"
    /\ socket[c] # <<>>
    /\ shown' = [shown EXCEPT ![c] = Head(socket[c])]
    /\ socket' = [socket EXCEPT ![c] = Tail(@)]
    /\ UNCHANGED <<alive, version, senders, hub, handlers, conn>>

BrowserLeaves(c) ==
    /\ conn[c] = "open"
    /\ conn' = [conn EXCEPT ![c] = "gone"]
    /\ socket' = [socket EXCEPT ![c] = <<>>]
    /\ UNCHANGED <<alive, version, senders, hub, handlers, shown>>

-----------------------------------------------------------------------------
Next ==
    \/ RegistryChanges
    \/ TickerFires
    \/ ResetRequested
    \/ \E p \in Publisher : Publish(p)
    \/ \E c \in Conn : HubRegisters(c)
    \/ HubTakes
    \/ HubDiscards
    \/ Deliver
    \/ HubPanics
    \/ \E c \in Conn : Connect(c) \/ HandlerSteps(c)
    \/ \E c \in Conn : BrowserReads(c) \/ BrowserLeaves(c)

Spec == Init /\ [][Next]_vars

(* Goroutines are scheduled and the ticker fires for ever; select chooses   *)
(* at random among what is ready, whence the strong fairness of a waiting   *)
(* registration.  A write to a browser that has left fails sooner or later. *)
(* A browser that is not stallable reads what it is sent.                   *)
Fairness ==
    /\ WF_vars(TickerFires)
    /\ \A p \in Publisher : WF_vars(Publish(p))
    /\ WF_vars(HubTakes)
    /\ WF_vars(HubDiscards)
    /\ WF_vars(Deliver)
    /\ \A c \in Conn : /\ SF_vars(HubRegisters(c))
                       /\ SF_vars(HubFails(c))
                       /\ WF_vars(HandlerSteps(c))
    /\ \A c \in Conn \ Stallable : WF_vars(BrowserReads(c))

FairSpec == Spec /\ Fairness

-----------------------------------------------------------------------------
(* The types of the hub's state.                                            *)
TypeOK ==
    /\ alive \in BOOLEAN
    /\ version \in 0..Changes
    /\ publisher \in [Publisher -> {"idle", "reading", "sending"}]
    /\ snapshot \in [Publisher -> 0..Changes]
    /\ broadcast \in Seq(Frame)
    /\ Len(broadcast) <= QueueCap
    /\ clients \subseteq Conn
    /\ delivering \in Frame \cup {NoFrame}
    /\ left \subseteq Conn
    /\ writingTo \in Conn \cup {Nowhere}
    /\ handler \in [Conn -> {"none", "registering", "reading", "writing", "done"}]
    /\ initial \in [Conn -> 0..Changes]
    /\ conn \in [Conn -> {"new", "open", "gone", "closed"}]
    /\ socket \in [Conn -> Seq(Frame)]
    /\ \A c \in Conn : Len(socket[c]) <= SocketCap
    /\ shown \in [Conn -> Frame \cup {NoFrame}]

(* A connection the hub has closed is written to no more: it is neither a   *)
(* client nor one of those the delivery under way has still to reach        *)
(* (hub.go:55-61).                                                          *)
NoWriteAfterClose ==
    alive => \A c \in clients \cup left : conn[c] # "closed"

(* Once a dashboard has shown a tick of the ticker goroutine, no later tick *)
(* takes it back to an older state, whatever the hub dropped in between     *)
(* (main.go:89-103, hub.go:53-61, 71-75).                                   *)
TicksInOrder ==
    [][\A c \in Conn :
          /\ shown[c].from = "ticker"
          /\ shown'[c].from = "ticker"
          => shown[c].version <= shown'[c].version]_vars

\* Some browser has stopped reading and its socket is full.
Stalled == \E c \in Stallable : conn[c] = "open" /\ Len(socket[c]) = SocketCap

(* A dashboard that stays connected ends up showing the registry as it is,  *)
(* even though frames are dropped, the initial state may overtake a newer   *)
(* tick, a reset may be followed by an older snapshot, and hub and handler  *)
(* may meet on its connection.  The exceptions are a controller that died   *)
(* and what the hub does to everybody when one dashboard stops reading for  *)
(* good (hub.go:53-62, main.go:86-104, 877-891).                            *)
EventuallyCurrent ==
    \A c \in Conn :
        \/ <>[](alive /\ conn[c] = "open" =>
                   shown[c] # NoFrame /\ shown[c].version = version)
        \/ <>[]Stalled

(* The hub lets go of the connection of a browser that has left, although   *)
(* nothing reads from it (hub.go:45-51, 56-60).                             *)
LeaversForgotten ==
    \A c \in Conn :
        conn[c] = "gone" /\ c \in clients ~> c \notin clients \/ ~alive \/ Stalled

(* Whoever publishes is never held up by the dashboards: the telemetry loop *)
(* goes on to sample the history and the reset request is answered          *)
(* (hub.go:67-76, "Non-blocking drop if channel is saturated").             *)
PublishersNeverWait ==
    \A p \in Publisher : publisher[p] = "sending" ~> publisher[p] = "idle" \/ ~alive

(* A dashboard that connects is taken by the hub, whose handler then sends  *)
(* it the state (main.go:885, "Send initial cluster state immediately").    *)
ConnectionAccepted ==
    \A c \in Conn :
        handler[c] = "registering" ~>
            c \in clients \/ conn[c] = "gone" \/ ~alive
=============================================================================
