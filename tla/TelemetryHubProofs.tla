------------------------- MODULE TelemetryHubProofs -------------------------
(***************************************************************************)
(* Proofs about TelemetryHub: its types, that a connection the hub closed  *)
(* is written to no more, and that a dashboard's ticks do not go back in   *)
(* time, whatever the number of dashboards, the capacities of queue and    *)
(* sockets and the order of joining, leaving, stalling and dying.          *)
(***************************************************************************)
EXTENDS TelemetryHub, TLAPS

-----------------------------------------------------------------------------
(* Types.                                                                   *)

LEMMA FrameFacts ==
    /\ \A p \in Publisher \cup {"handler"}, v \in 0..Changes :
          [from |-> p, version |-> v] \in Frame
    /\ \A f \in Frame : /\ f.from \in Publisher \cup {"handler"}
                        /\ f.version \in 0..Changes
    /\ NoFrame \notin Frame
BY DEF Frame, NoFrame, Publisher

LEMMA TypeInit == Init => TypeOK
BY HubAssumption DEF Init, TypeOK, Publisher, Frame

\* The publishers' steps.
LEMMA TypePublishers ==
    TypeOK /\ (RegistryChanges \/ TickerFires \/ ResetRequested
               \/ \E p \in Publisher : Publish(p)) => TypeOK'
<1> SUFFICES ASSUME TypeOK PROVE
      (RegistryChanges \/ TickerFires \/ ResetRequested
       \/ \E p \in Publisher : Publish(p)) => TypeOK'
  OBVIOUS
<1> USE HubAssumption
<1>1. CASE RegistryChanges
  BY <1>1 DEF RegistryChanges, TypeOK, senders, hub, handlers, browser
<1>2. CASE TickerFires
  BY <1>2 DEF TickerFires, TypeOK, hub, handlers, browser
<1>3. CASE ResetRequested
  <2>1. version' \in 0..Changes
    BY <1>3 DEF ResetRequested, TypeOK
  <2>2. publisher' \in [Publisher -> {"idle", "reading", "sending"}]
    BY <1>3 DEF ResetRequested, TypeOK, Publisher
  <2>3. QED
    BY <1>3, <2>1, <2>2 DEF ResetRequested, TypeOK, hub, handlers, browser
<1>4. ASSUME NEW p \in Publisher, ReadSnapshot(p) PROVE TypeOK'
  BY <1>4 DEF ReadSnapshot, TypeOK, hub, handlers, browser
<1>5. ASSUME NEW p \in Publisher, BroadcastJSON(p) PROVE TypeOK'
  <2>1. [from |-> p, version |-> snapshot[p]] \in Frame
    BY FrameFacts DEF TypeOK
  <2>2. broadcast' \in Seq(Frame) /\ Len(broadcast') <= QueueCap
    BY <1>5, <2>1 DEF BroadcastJSON, TypeOK
  <2>3. publisher' \in [Publisher -> {"idle", "reading", "sending"}]
    BY <1>5 DEF BroadcastJSON, TypeOK
  <2>4. QED
    BY <1>5, <2>2, <2>3 DEF BroadcastJSON, TypeOK, handlers, browser
<1>6. QED
  BY <1>1, <1>2, <1>3, <1>4, <1>5 DEF Publish

\* The hub is at work on a frame or on none.
Working == left # {} \/ writingTo # Nowhere => delivering # NoFrame

LEMMA WorkingInit == Init => Working
BY DEF Init, Working

LEMMA WorkingStep == TypeOK /\ Working /\ [Next]_vars => Working'
<1> SUFFICES ASSUME TypeOK, Working, [Next]_vars PROVE Working'
  OBVIOUS
<1> USE DEF Working
<1>1. CASE RegistryChanges \/ TickerFires \/ ResetRequested
  BY <1>1 DEF RegistryChanges, TickerFires, ResetRequested, hub
<1>2. ASSUME NEW p \in Publisher, Publish(p) PROVE Working'
  BY <1>2 DEF Publish, ReadSnapshot, BroadcastJSON, hub
<1>3. ASSUME NEW c \in Conn, HubRegisters(c) PROVE Working'
  BY <1>3 DEF HubRegisters
<1>4. CASE HubTakes
  <2>1. delivering' \in Frame
    BY <1>4 DEF HubTakes, TypeOK
  <2>2. QED
    BY <2>1, FrameFacts
<1>5. CASE HubDiscards
  BY <1>5 DEF HubDiscards
<1>6. ASSUME NEW c \in Conn, HubWrites(c) PROVE Working'
  BY <1>6 DEF HubWrites
<1>7. ASSUME NEW c \in Conn, HubWritten(c) \/ HubFails(c) PROVE Working'
  BY <1>7, HubAssumption DEF HubWritten, HubFails, Written
<1>8. CASE HubPanics
  BY <1>8 DEF HubPanics, hub
<1>9. ASSUME NEW c \in Conn,
             Connect(c) \/ HandlerSteps(c) \/ BrowserReads(c) \/ BrowserLeaves(c)
      PROVE  Working'
  BY <1>9 DEF Connect, HandlerSteps, ReadInitial, InitialWritten, InitialFails,
              BrowserReads, BrowserLeaves, hub
<1>10. CASE UNCHANGED vars
  BY <1>10 DEF vars, hub
<1>11. QED
  BY <1>1, <1>2, <1>3, <1>4, <1>5, <1>6, <1>7, <1>8, <1>9, <1>10 DEF Next, Deliver

\* The hub's steps.
LEMMA TypeHub ==
    TypeOK /\ Working /\ ((\E c \in Conn : HubRegisters(c)) \/ HubTakes \/ HubDiscards
               \/ Deliver \/ HubPanics) => TypeOK'
<1> SUFFICES ASSUME TypeOK, Working PROVE
      ((\E c \in Conn : HubRegisters(c)) \/ HubTakes \/ HubDiscards
       \/ Deliver \/ HubPanics) => TypeOK'
  OBVIOUS
<1> USE HubAssumption
<1>1. ASSUME NEW c \in Conn, HubRegisters(c) PROVE TypeOK'
  BY <1>1 DEF HubRegisters, TypeOK, senders, browser
<1>2. ASSUME broadcast # <<>> PROVE
        /\ Head(broadcast) \in Frame /\ Tail(broadcast) \in Seq(Frame)
        /\ Len(Tail(broadcast)) <= QueueCap
  BY <1>2 DEF TypeOK
<1>3. CASE HubTakes
  BY <1>2, <1>3 DEF HubTakes, TypeOK, senders, handlers, browser
<1>4. CASE HubDiscards
  BY <1>2, <1>4 DEF HubDiscards, TypeOK, senders, handlers, browser
<1>5. ASSUME NEW c \in Conn, HubWrites(c) PROVE TypeOK'
  BY <1>5 DEF HubWrites, TypeOK, senders, handlers, browser
<1>6. ASSUME NEW c \in Conn, HubWritten(c) PROVE TypeOK'
  <2>1. socket' \in [Conn -> Seq(Frame)]
        /\ \A d \in Conn : Len(socket'[d]) <= SocketCap
    <3>1. CASE conn[c] # "open"
      BY <1>6, <3>1 DEF HubWritten, TypeOK
    <3>2. CASE conn[c] = "open"
      <4>1. delivering \in Frame
        BY <1>6 DEF HubWritten, TypeOK, Working
      <4>2. /\ Append(socket[c], delivering) \in Seq(Frame)
            /\ Len(Append(socket[c], delivering)) <= SocketCap
        BY <1>6, <3>2, <4>1 DEF HubWritten, TypeOK
      <4>3. QED
        BY <1>6, <3>2, <4>2 DEF HubWritten, TypeOK
    <3>3. QED
      BY <3>1, <3>2
  <2>2. QED
    BY <1>6, <2>1 DEF HubWritten, Written, TypeOK, senders, handlers
<1>7. ASSUME NEW c \in Conn, HubFails(c) PROVE TypeOK'
  BY <1>7 DEF HubFails, Written, TypeOK, senders, handlers
<1>8. CASE HubPanics
  BY <1>8 DEF HubPanics, TypeOK, senders, hub, handlers
<1>9. QED
  BY <1>1, <1>3, <1>4, <1>5, <1>6, <1>7, <1>8 DEF Deliver

\* The handlers' and the browsers' steps.
LEMMA TypeConnections ==
    TypeOK /\ (\E c \in Conn : Connect(c) \/ HandlerSteps(c)
                               \/ BrowserReads(c) \/ BrowserLeaves(c)) => TypeOK'
<1> SUFFICES ASSUME TypeOK, NEW c \in Conn PROVE
      Connect(c) \/ HandlerSteps(c) \/ BrowserReads(c) \/ BrowserLeaves(c) => TypeOK'
  OBVIOUS
<1> USE HubAssumption
<1>1. CASE Connect(c)
  BY <1>1 DEF Connect, TypeOK, senders, hub
<1>2. CASE ReadInitial(c)
  BY <1>2 DEF ReadInitial, TypeOK, senders, hub, browser
<1>3. CASE InitialWritten(c)
  <2> DEFINE f == [from |-> "handler", version |-> initial[c]]
  <2>1. f \in Frame
    BY FrameFacts DEF TypeOK
  <2>2. /\ Append(socket[c], f) \in Seq(Frame)
        /\ Len(Append(socket[c], f)) <= SocketCap
    BY <1>3, <2>1 DEF InitialWritten, TypeOK
  <2>3. socket' \in [Conn -> Seq(Frame)]
        /\ \A d \in Conn : Len(socket'[d]) <= SocketCap
    BY <1>3, <2>2 DEF InitialWritten, TypeOK
  <2>4. QED
    BY <1>3, <2>3 DEF InitialWritten, TypeOK, senders, hub
<1>4. CASE InitialFails(c)
  BY <1>4 DEF InitialFails, TypeOK, senders, hub, browser
<1>5. CASE BrowserReads(c)
  <2>1. /\ Head(socket[c]) \in Frame /\ Tail(socket[c]) \in Seq(Frame)
        /\ Len(Tail(socket[c])) <= SocketCap
    BY <1>5 DEF BrowserReads, TypeOK
  <2>2. QED
    BY <1>5, <2>1 DEF BrowserReads, TypeOK, senders, hub, handlers
<1>6. CASE BrowserLeaves(c)
  BY <1>6 DEF BrowserLeaves, TypeOK, senders, hub, handlers
<1>7. QED
  BY <1>1, <1>2, <1>3, <1>4, <1>5, <1>6 DEF HandlerSteps

(* Every variable of the hub keeps its type: frames are frames and no queue *)
(* and no socket holds more than it has room for.                           *)
THEOREM TypeCorrect == Spec => [](TypeOK /\ Working)
<1>1. TypeOK /\ Working /\ [Next]_vars => TypeOK'
  <2>1. TypeOK /\ UNCHANGED vars => TypeOK'
    BY DEF TypeOK, vars, senders, hub, handlers, browser
  <2>2. QED
    BY <2>1, TypePublishers, TypeHub, TypeConnections DEF Next
<1>2. QED
  BY <1>1, TypeInit, WorkingInit, WorkingStep, PTL DEF Spec

-----------------------------------------------------------------------------
(* Closed connections.                                                      *)

\* Those the hub has taken are past registering, none that is still to come
\* in a delivery is the one written to, and each is written to before its end.
Taken ==
    /\ \A c \in Conn :
          /\ conn[c] = "new" => handler[c] = "none"
          /\ handler[c] \in {"none", "registering"} =>
                c \notin clients \cup left /\ writingTo # c /\ conn[c] # "closed"
    /\ writingTo \notin left

Safe == alive => Taken /\ NoWriteAfterClose

LEMMA SafeStep == TypeOK /\ Working /\ Safe /\ [Next]_vars => Safe'
<1> SUFFICES ASSUME TypeOK, Working, Taken, NoWriteAfterClose, alive, alive', [Next]_vars
             PROVE  Taken' /\ NoWriteAfterClose'
  <2>1. ~alive /\ [Next]_vars => ~alive'
    BY DEF Next, RegistryChanges, TickerFires, ResetRequested, Publish, ReadSnapshot,
           BroadcastJSON, HubRegisters, HubTakes, HubDiscards, Selecting, Deliver,
           HubWrites, HubWritten, HubFails, HubPanics, Connect, HandlerSteps,
           ReadInitial, InitialWritten, InitialFails, BrowserReads, BrowserLeaves, vars
  <2>2. QED
    BY <2>1 DEF Safe
<1> USE HubAssumption DEF TypeOK, Taken, NoWriteAfterClose
<1>1. CASE RegistryChanges \/ TickerFires \/ ResetRequested
  BY <1>1 DEF RegistryChanges, TickerFires, ResetRequested, hub, handlers, browser
<1>2. ASSUME NEW p \in Publisher, Publish(p) PROVE Taken' /\ NoWriteAfterClose'
  BY <1>2 DEF Publish, ReadSnapshot, BroadcastJSON, hub, handlers, browser
<1>3. ASSUME NEW c \in Conn, HubRegisters(c) PROVE Taken' /\ NoWriteAfterClose'
  BY <1>3 DEF HubRegisters, browser
<1>4. CASE HubTakes
  <2>1. writingTo = Nowhere
    BY <1>4 DEF HubTakes, Selecting, Working
  <2>2. QED
    BY <1>4, <2>1 DEF HubTakes, handlers, browser
<1>5. CASE HubDiscards
  BY <1>5 DEF HubDiscards, handlers, browser
<1>6. ASSUME NEW c \in Conn, HubWrites(c) PROVE Taken' /\ NoWriteAfterClose'
  BY <1>6 DEF HubWrites, handlers, browser
<1>7. ASSUME NEW c \in Conn, HubWritten(c) PROVE Taken' /\ NoWriteAfterClose'
  BY <1>7 DEF HubWritten, Written, handlers
<1>8. ASSUME NEW c \in Conn, HubFails(c) PROVE Taken' /\ NoWriteAfterClose'
  BY <1>8 DEF HubFails, Written, handlers
<1>9. ASSUME NEW c \in Conn, Connect(c) PROVE Taken' /\ NoWriteAfterClose'
  BY <1>9 DEF Connect, hub
<1>10. ASSUME NEW c \in Conn, HandlerSteps(c) PROVE Taken' /\ NoWriteAfterClose'
  BY <1>10 DEF HandlerSteps, ReadInitial, InitialWritten, InitialFails, hub, browser
<1>11. ASSUME NEW c \in Conn, BrowserReads(c) \/ BrowserLeaves(c)
       PROVE  Taken' /\ NoWriteAfterClose'
  BY <1>11 DEF BrowserReads, BrowserLeaves, hub, handlers
<1>12. CASE UNCHANGED vars
  BY <1>12 DEF vars, hub, handlers, browser
<1>13. ~HubPanics
  BY DEF HubPanics
<1>14. QED
  BY <1>1, <1>2, <1>3, <1>4, <1>5, <1>6, <1>7, <1>8, <1>9, <1>10, <1>11, <1>12,
     <1>13 DEF Next, Deliver

(* The hub never writes to a connection it has closed.                      *)
THEOREM ClosedLeftAlone == Spec => []NoWriteAfterClose
<1>1. Init => Safe
  BY HubAssumption DEF Init, Safe, Taken, NoWriteAfterClose
<1>2. Safe => NoWriteAfterClose
  BY DEF Safe, NoWriteAfterClose
<1>3. QED
  BY <1>1, <1>2, SafeStep, TypeCorrect, PTL DEF Spec

-----------------------------------------------------------------------------
(* The order of ticks.                                                      *)

LEMMA AppendFacts ==
    ASSUME NEW S, NEW q \in Seq(S), NEW e \in S
    PROVE  /\ Append(q, e) \in Seq(S)
           /\ Len(Append(q, e)) = Len(q) + 1
           /\ \A i \in 1..Len(q) : Append(q, e)[i] = q[i]
           /\ Append(q, e)[Len(q) + 1] = e
OBVIOUS

LEMMA TailFacts ==
    ASSUME NEW S, NEW q \in Seq(S), q # <<>>
    PROVE  /\ Head(q) = q[1] /\ 1 \in 1..Len(q)
           /\ Tail(q) \in Seq(S)
           /\ Len(Tail(q)) = Len(q) - 1
           /\ \A i \in 1..Len(Tail(q)) : Tail(q)[i] = q[i + 1] /\ i + 1 \in 1..Len(q)
OBVIOUS

Before(f, g) ==
    f.from = "ticker" /\ g.from = "ticker" => f.version <= g.version

\* The tick the ticker goroutine would send now.
Latest == [from |-> "ticker", version |-> snapshot["ticker"]]

\* A frame may be followed by all that is behind it on its way.
Leads(f) ==
    /\ Before(f, delivering)
    /\ \A i \in 1..Len(broadcast) : Before(f, broadcast[i])
    /\ Before(f, Latest)

Sorted(q) == \A i \in 1..Len(q) : \A j \in i..Len(q) : Before(q[i], q[j])

\* On the way from the ticker to the browser later ticks are behind.
InOrder ==
    /\ Latest.version <= version
    /\ Before(delivering, Latest)
    /\ \A i \in 1..Len(broadcast) :
          Before(delivering, broadcast[i]) /\ Before(broadcast[i], Latest)
    /\ Sorted(broadcast)
    /\ \A c \in Conn :
          /\ Leads(shown[c])
          /\ \A k \in 1..Len(socket[c]) : Before(shown[c], socket[c][k]) /\ Leads(socket[c][k])
          /\ Sorted(socket[c])

LEMMA OrderInit == Init => InOrder
BY HubAssumption DEF Init, InOrder, Leads, Sorted, Before, Latest, NoFrame, Publisher

\* What is on its way stays as it is.
LEMMA OrderKept ==
    ASSUME TypeOK, InOrder, version' \in Nat, version <= version',
           UNCHANGED <<snapshot, broadcast, delivering, socket, shown>>
    PROVE  InOrder'
BY DEF TypeOK, InOrder, Leads, Sorted, Before, Latest, Publisher

\* A newer snapshot.
LEMMA OrderSnapshot ==
    ASSUME TypeOK, InOrder, NEW p \in Publisher, ReadSnapshot(p)
    PROVE  InOrder'
<1>1. snapshot["ticker"] \in Nat /\ snapshot'["ticker"] \in {snapshot["ticker"], version}
  BY DEF ReadSnapshot, TypeOK, Publisher
<1>2. snapshot["ticker"] <= snapshot'["ticker"] /\ snapshot'["ticker"] <= version
  BY <1>1 DEF InOrder, Latest, TypeOK
<1>3. \A f \in Frame \cup {NoFrame} : Before(f, Latest) => Before(f, Latest')
  <2>1. ASSUME NEW f \in Frame \cup {NoFrame}, f.from = "ticker",
               f.version <= snapshot["ticker"]
        PROVE  f.version <= snapshot'["ticker"]
    <3>1. f.version \in Nat
      BY <2>1, FrameFacts, HubAssumption DEF NoFrame
    <3>2. snapshot'["ticker"] \in Nat
      BY <1>1 DEF TypeOK
    <3>3. QED
      BY <1>1, <1>2, <2>1, <3>1, <3>2
  <2>2. QED
    BY <2>1 DEF Before, Latest
<1>4. UNCHANGED <<version, broadcast, delivering, socket, shown>>
  BY DEF ReadSnapshot, hub, browser
<1>5. \A f \in Frame \cup {NoFrame} : Leads(f) => Leads(f)'
  BY <1>3, <1>4 DEF Leads
<1>6. \A i \in 1..Len(broadcast) : broadcast[i] \in Frame
  BY DEF TypeOK
<1>7. \A c \in Conn : /\ shown[c] \in Frame \cup {NoFrame}
                      /\ \A k \in 1..Len(socket[c]) : socket[c][k] \in Frame
  BY DEF TypeOK
<1>8. Latest'.version <= version' /\ Before(delivering', Latest')
  BY <1>2, <1>3, <1>4 DEF InOrder, Latest, TypeOK
<1>9. \A i \in 1..Len(broadcast') :
         Before(delivering', broadcast'[i]) /\ Before(broadcast'[i], Latest')
  BY <1>3, <1>4, <1>6 DEF InOrder
<1>10. Sorted(broadcast)'
  BY <1>4 DEF InOrder, Sorted
<1>11. ASSUME NEW c \in Conn
       PROVE  /\ Leads(shown[c])'
              /\ \A k \in 1..Len(socket'[c]) :
                    Before(shown'[c], socket'[c][k]) /\ Leads(socket[c][k])'
              /\ Sorted(socket[c])'
  BY <1>4, <1>5, <1>7 DEF InOrder, Sorted
<1>12. QED
  BY <1>8, <1>9, <1>10, <1>11 DEF InOrder

\* A frame that can be sent now goes behind all others.
LEMMA OrderSent ==
    ASSUME TypeOK, InOrder, NEW p \in Publisher, BroadcastJSON(p)
    PROVE  InOrder'
<1> DEFINE f == [from |-> p, version |-> snapshot[p]]
<1>1. CASE Len(broadcast) >= QueueCap
  <2>1. UNCHANGED <<version, snapshot, broadcast, delivering, socket, shown>>
    BY <1>1, HubAssumption DEF BroadcastJSON, browser, TypeOK
  <2>2. QED
    BY <2>1, OrderKept DEF TypeOK
<1>2. CASE Len(broadcast) < QueueCap
  <2>1. broadcast' = Append(broadcast, f)
    BY <1>2 DEF BroadcastJSON
  <2>2. UNCHANGED <<version, snapshot, delivering, socket, shown>> /\ Latest' = Latest
    BY DEF BroadcastJSON, browser, Latest
  <2>3. f \in Frame
    BY FrameFacts DEF TypeOK
  <2>4. /\ Len(broadcast') = Len(broadcast) + 1
        /\ \A i \in 1..Len(broadcast) : broadcast'[i] = broadcast[i]
        /\ broadcast'[Len(broadcast) + 1] = f
    BY <2>1, <2>3, AppendFacts DEF TypeOK
  <2>5. \A g : Before(g, Latest) => Before(g, f)
    BY DEF Before, Latest
  <2>6. Before(f, f) /\ Before(f, Latest)
    BY <2>3, FrameFacts DEF Before, Latest
  <2>7. \A i \in 1..Len(broadcast') : i \in 1..Len(broadcast) \/ i = Len(broadcast) + 1
    BY <2>4 DEF TypeOK
  <2>8. \A g : Leads(g) => Leads(g)'
    BY <2>2, <2>4, <2>5, <2>7 DEF Leads
  <2>9. Sorted(broadcast')
    <3>1. ASSUME NEW i \in 1..Len(broadcast'), NEW j \in i..Len(broadcast')
          PROVE  Before(broadcast'[i], broadcast'[j])
      <4>1. CASE j = Len(broadcast) + 1
        BY <2>4, <2>5, <2>6, <2>7, <4>1 DEF InOrder
      <4>2. CASE j \in 1..Len(broadcast)
        <5>1. i \in 1..Len(broadcast) /\ j \in i..Len(broadcast)
          BY <2>4, <4>2 DEF TypeOK
        <5>2. Before(broadcast[i], broadcast[j])
          BY <5>1 DEF InOrder, Sorted
        <5>3. QED
          BY <2>4, <4>2, <5>1, <5>2
      <4>3. QED
        BY <2>4, <2>7, <4>1, <4>2 DEF TypeOK
    <3>2. QED
      BY <3>1 DEF Sorted
  <2> HIDE DEF f
  <2>10. \A i \in 1..Len(broadcast') :
            Before(delivering', broadcast'[i]) /\ Before(broadcast'[i], Latest')
    BY <2>2, <2>4, <2>5, <2>6, <2>7 DEF InOrder
  <2>11. QED
    BY <2>2, <2>8, <2>9, <2>10 DEF InOrder
<1>3. QED
  BY <1>1, <1>2, HubAssumption DEF TypeOK

\* The oldest frame is taken and perhaps delivered.
LEMMA OrderTaken ==
    ASSUME TypeOK, InOrder, HubTakes \/ HubDiscards
    PROVE  InOrder'
<1>1. /\ UNCHANGED <<version, snapshot, socket, shown>> /\ Latest' = Latest
      /\ broadcast # <<>> /\ broadcast' = Tail(broadcast)
      /\ delivering' \in {Head(broadcast), NoFrame}
  BY DEF HubTakes, HubDiscards, Selecting, senders, browser, Latest
<1>2. /\ Head(broadcast) = broadcast[1] /\ 1 \in 1..Len(broadcast)
      /\ Len(broadcast') = Len(broadcast) - 1
      /\ \A i \in 1..Len(broadcast') :
            broadcast'[i] = broadcast[i + 1] /\ i + 1 \in 1..Len(broadcast)
  BY <1>1, TailFacts DEF TypeOK
<1>3. \A g : Before(NoFrame, g) /\ Before(g, NoFrame)
  BY DEF Before, NoFrame
<1>4. \A g : Leads(g) => Leads(g)'
  BY <1>1, <1>2, <1>3 DEF Leads
<1>5. Sorted(broadcast')
  <2>1. ASSUME NEW i \in 1..Len(broadcast'), NEW j \in i..Len(broadcast')
        PROVE  Before(broadcast'[i], broadcast'[j])
    <3>1. j \in 1..Len(broadcast') /\ j + 1 \in (i + 1)..Len(broadcast)
      BY <1>2, <2>1 DEF TypeOK
    <3>2. QED
      BY <1>2, <3>1 DEF InOrder, Sorted
  <2>2. QED
    BY <2>1 DEF Sorted
<1>6. \A i \in 1..Len(broadcast') : /\ Before(delivering', broadcast'[i])
                                    /\ Before(broadcast'[i], Latest')
  <2>1. ASSUME NEW i \in 1..Len(broadcast')
        PROVE  Before(broadcast[1], broadcast[i + 1])
    <3>1. i + 1 \in 1..Len(broadcast)
      BY <1>2
    <3>2. QED
      BY <1>2, <3>1 DEF InOrder, Sorted, TypeOK
  <2>2. QED
    BY <1>1, <1>2, <1>3, <2>1 DEF InOrder
<1>7. Before(delivering', Latest')
  BY <1>1, <1>2, <1>3 DEF InOrder
<1>8. QED
  BY <1>1, <1>4, <1>5, <1>6, <1>7 DEF InOrder

\* The frame being delivered goes behind those in the socket; so does the
\* initial state, which is no tick.
LEMMA OrderWritten ==
    ASSUME TypeOK, InOrder, NEW c \in Conn, NEW f \in Frame,
           f = delivering \/ f.from # "ticker",
           socket' = [socket EXCEPT ![c] = Append(@, f)],
           delivering' \in {delivering, NoFrame},
           UNCHANGED <<version, snapshot, broadcast, shown>>
    PROVE  InOrder'
<1>1. Latest' = Latest
  BY DEF Latest
<1>2. \A g : Before(NoFrame, g) /\ Before(g, NoFrame)
  BY DEF Before, NoFrame
<1>3. \A g : Leads(g) => Before(g, f) /\ Leads(g)'
  BY <1>1, <1>2 DEF Leads, Before
<1>4. Before(f, f) /\ Leads(f)
  BY FrameFacts DEF Leads, InOrder, Before
<1>5. /\ Latest'.version <= version' /\ Before(delivering', Latest')
      /\ \A i \in 1..Len(broadcast') :
            Before(delivering', broadcast'[i]) /\ Before(broadcast'[i], Latest')
      /\ Sorted(broadcast')
  BY <1>1, <1>2 DEF InOrder
<1>6. ASSUME NEW d \in Conn
      PROVE  /\ Leads(shown[d])'
             /\ \A k \in 1..Len(socket'[d]) :
                   Before(shown'[d], socket'[d][k]) /\ Leads(socket[d][k])'
             /\ Sorted(socket'[d])
  <2>0. socket[d] \in Seq(Frame)
    BY DEF TypeOK
  <2>1. Leads(shown[d])'
    BY <1>3 DEF InOrder
  <2>2. CASE d # c
    <3>1. socket'[d] = socket[d]
      BY <2>2 DEF TypeOK
    <3>2. QED
      BY <1>3, <2>1, <3>1 DEF InOrder
  <2>3. CASE d = c
    <3>1. /\ Len(socket'[d]) = Len(socket[d]) + 1
          /\ \A i \in 1..Len(socket[d]) : socket'[d][i] = socket[d][i]
          /\ socket'[d][Len(socket[d]) + 1] = f
      BY <2>0, <2>3, AppendFacts DEF TypeOK
    <3>2. \A i \in 1..Len(socket'[d]) :
             i \in 1..Len(socket[d]) \/ i = Len(socket[d]) + 1
      BY <2>0, <3>1
    <3>3. ASSUME NEW k \in 1..Len(socket'[d])
          PROVE  /\ Before(shown'[d], socket'[d][k]) /\ Leads(socket[d][k])'
                 /\ Before(socket'[d][k], f)
      BY <1>3, <1>4, <3>1, <3>2 DEF InOrder
    <3>4. ASSUME NEW i \in 1..Len(socket'[d]), NEW j \in i..Len(socket'[d])
          PROVE  Before(socket'[d][i], socket'[d][j])
      <4>1. CASE j = Len(socket[d]) + 1
        BY <3>1, <3>3, <4>1
      <4>2. CASE j # Len(socket[d]) + 1
        <5>1. i \in 1..Len(socket[d]) /\ j \in i..Len(socket[d])
          BY <2>0, <3>1, <3>4, <4>2
        <5>2. Before(socket[d][i], socket[d][j])
          BY <5>1 DEF InOrder, Sorted
        <5>3. j \in 1..Len(socket[d])
          BY <2>0, <5>1
        <5>4. QED
          BY <3>1, <5>1, <5>2, <5>3
      <4>3. QED
        BY <4>1, <4>2
    <3>5. Sorted(socket'[d])
      BY <3>4 DEF Sorted
    <3>6. QED
      BY <2>1, <3>3, <3>5
  <2>4. QED
    BY <2>2, <2>3
<1>7. QED
  BY <1>5, <1>6 DEF InOrder

\* A socket that is emptied, and a delivery that ends.
LEMMA OrderDropped ==
    ASSUME TypeOK, InOrder, NEW c \in Conn,
           socket' \in {socket, [socket EXCEPT ![c] = <<>>]},
           delivering' \in {delivering, NoFrame},
           UNCHANGED <<version, snapshot, broadcast, shown>>
    PROVE  InOrder'
<1>1. Latest' = Latest
  BY DEF Latest
<1>2. \A g : Before(NoFrame, g) /\ Before(g, NoFrame)
  BY DEF Before, NoFrame
<1>3. \A g : Leads(g) => Leads(g)'
  BY <1>1, <1>2 DEF Leads
<1>4. /\ Latest'.version <= version' /\ Before(delivering', Latest')
      /\ \A i \in 1..Len(broadcast') :
            Before(delivering', broadcast'[i]) /\ Before(broadcast'[i], Latest')
      /\ Sorted(broadcast')
  BY <1>1, <1>2 DEF InOrder
<1>5. \A d \in Conn : socket'[d] \in {socket[d], <<>>}
  BY DEF TypeOK
<1>6. \A k : k \notin 1..Len(<<>>)
  OBVIOUS
<1>7. ASSUME NEW d \in Conn
      PROVE  /\ Leads(shown[d])'
             /\ \A k \in 1..Len(socket'[d]) :
                   Before(shown'[d], socket'[d][k]) /\ Leads(socket[d][k])'
             /\ Sorted(socket'[d])
  <2>1. CASE socket'[d] = socket[d]
    BY <1>3, <2>1 DEF InOrder
  <2>2. CASE socket'[d] = <<>>
    BY <1>3, <1>6, <2>2 DEF InOrder, Sorted
  <2>3. QED
    BY <1>5, <2>1, <2>2
<1>8. QED
  BY <1>4, <1>7 DEF InOrder

\* The browser renders the oldest frame of its socket.
LEMMA OrderRead ==
    ASSUME TypeOK, InOrder, NEW c \in Conn, BrowserReads(c)
    PROVE  InOrder' /\ Before(shown[c], shown'[c])
<1>1. /\ UNCHANGED <<version, snapshot, broadcast, delivering>> /\ Latest' = Latest
      /\ socket[c] # <<>> /\ socket[c] \in Seq(Frame)
      /\ shown'[c] = Head(socket[c]) /\ socket'[c] = Tail(socket[c])
      /\ \A d \in Conn \ {c} : shown'[d] = shown[d] /\ socket'[d] = socket[d]
  BY DEF BrowserReads, senders, hub, Latest, TypeOK
<1>2. /\ Head(socket[c]) = socket[c][1] /\ 1 \in 1..Len(socket[c])
      /\ Len(socket'[c]) = Len(socket[c]) - 1
      /\ \A i \in 1..Len(socket'[c]) :
            socket'[c][i] = socket[c][i + 1] /\ i + 1 \in 1..Len(socket[c])
  BY <1>1, TailFacts
<1>3. \A g : Leads(g) => Leads(g)'
  BY <1>1 DEF Leads
<1>4. ASSUME NEW d \in Conn \ {c}
      PROVE  /\ Leads(shown[d])'
             /\ \A k \in 1..Len(socket'[d]) :
                   Before(shown'[d], socket'[d][k]) /\ Leads(socket[d][k])'
             /\ Sorted(socket'[d])
  BY <1>1, <1>3 DEF InOrder
<1>5. Leads(shown[c])'
  BY <1>1, <1>2, <1>3 DEF InOrder
<1>6. ASSUME NEW i \in 1..Len(socket'[c]), NEW j \in i..Len(socket'[c])
      PROVE  /\ Before(shown'[c], socket'[c][i])
             /\ Leads(socket[c][i])'
             /\ Before(socket'[c][i], socket'[c][j])
  <2>1. /\ j \in 1..Len(socket'[c])
        /\ j + 1 \in (i + 1)..Len(socket[c]) /\ i + 1 \in 1..Len(socket[c])
    BY <1>1, <1>2, <1>6
  <2>2. Before(socket[c][1], socket[c][i + 1]) /\ Before(socket[c][i + 1], socket[c][j + 1])
    BY <1>2, <2>1 DEF InOrder, Sorted
  <2>3. ASSUME NEW g, g = socket[c][i + 1] PROVE Leads(g)'
    BY <1>3, <2>1, <2>3 DEF InOrder
  <2>4. QED
    BY <1>1, <1>2, <2>1, <2>2, <2>3
<1>7. \A i \in 1..Len(socket'[c]) : i \in i..Len(socket'[c])
  OBVIOUS
<1>8. /\ Leads(shown[c])' /\ Sorted(socket'[c])
      /\ \A k \in 1..Len(socket'[c]) :
            Before(shown'[c], socket'[c][k]) /\ Leads(socket[c][k])'
  BY <1>5, <1>6, <1>7 DEF Sorted
<1>9. /\ Latest'.version <= version' /\ Before(delivering', Latest')
      /\ \A i \in 1..Len(broadcast') :
            Before(delivering', broadcast'[i]) /\ Before(broadcast'[i], Latest')
      /\ Sorted(broadcast')
  BY <1>1 DEF InOrder
<1>10. Before(shown[c], shown'[c])
  BY <1>1, <1>2 DEF InOrder
<1>11. QED
  BY <1>4, <1>8, <1>9, <1>10 DEF InOrder

\* No step shows an older tick, and none breaks the order.
TickStep == \A c \in Conn : Before(shown[c], shown'[c])

LEMMA OrderStep ==
    TypeOK /\ Working /\ InOrder /\ [Next]_vars => InOrder' /\ TickStep
<1> SUFFICES ASSUME TypeOK, Working, InOrder, [Next]_vars PROVE InOrder' /\ TickStep
  OBVIOUS
<1>0. shown' = shown => TickStep
  BY FrameFacts, HubAssumption DEF TickStep, Before, TypeOK, NoFrame
<1>1. CASE RegistryChanges \/ TickerFires \/ ResetRequested
  <2>1. /\ version' \in Nat /\ version <= version'
        /\ UNCHANGED <<snapshot, broadcast, delivering, socket, shown>>
    BY <1>1 DEF RegistryChanges, TickerFires, ResetRequested, senders, hub, browser, TypeOK
  <2>2. QED
    BY <1>0, <2>1, OrderKept
<1>2. ASSUME NEW p \in Publisher, ReadSnapshot(p) PROVE InOrder' /\ TickStep
  BY <1>0, <1>2, OrderSnapshot DEF ReadSnapshot, browser
<1>3. ASSUME NEW p \in Publisher, BroadcastJSON(p) PROVE InOrder' /\ TickStep
  BY <1>0, <1>3, OrderSent DEF BroadcastJSON, browser
<1>4. CASE HubTakes \/ HubDiscards
  BY <1>0, <1>4, OrderTaken DEF HubTakes, HubDiscards, browser
<1>5. ASSUME NEW c \in Conn, HubWritten(c), conn[c] = "open"
      PROVE  InOrder' /\ TickStep
  <2>1. delivering \in Frame
    BY <1>5, HubAssumption DEF HubWritten, TypeOK, Working
  <2>2. /\ socket' = [socket EXCEPT ![c] = Append(@, delivering)]
        /\ delivering' \in {delivering, NoFrame}
        /\ UNCHANGED <<version, snapshot, broadcast, shown>>
    BY <1>5 DEF HubWritten, Written, senders
  <2>3. QED
    BY <1>0, <2>1, <2>2, OrderWritten
<1>6. ASSUME NEW c \in Conn,
             (HubWritten(c) /\ conn[c] # "open") \/ HubFails(c) \/ BrowserLeaves(c)
      PROVE  InOrder' /\ TickStep
  <2>1. /\ socket' \in {socket, [socket EXCEPT ![c] = <<>>]}
        /\ delivering' \in {delivering, NoFrame}
        /\ UNCHANGED <<version, snapshot, broadcast, shown>>
    BY <1>6 DEF HubWritten, HubFails, BrowserLeaves, Written, senders, hub
  <2>2. QED
    BY <1>0, <2>1, OrderDropped
<1>7. ASSUME NEW c \in Conn, InitialWritten(c) PROVE InOrder' /\ TickStep
  <2> DEFINE f == [from |-> "handler", version |-> initial[c]]
  <2>1. f \in Frame /\ f.from # "ticker"
    BY FrameFacts DEF TypeOK
  <2>2. /\ socket' = [socket EXCEPT ![c] = Append(@, f)]
        /\ delivering' \in {delivering, NoFrame}
        /\ UNCHANGED <<version, snapshot, broadcast, shown>>
    BY <1>7 DEF InitialWritten, senders, hub
  <2> HIDE DEF f
  <2>3. QED
    BY <1>0, <2>1, <2>2, OrderWritten
<1>8. ASSUME NEW c \in Conn, BrowserReads(c) PROVE InOrder' /\ TickStep
  <2>1. \A d \in Conn \ {c} : shown'[d] = shown[d]
    BY <1>8 DEF BrowserReads, TypeOK
  <2>2. ASSUME NEW d \in Conn PROVE Before(shown[d], shown[d])
    <3>1. shown[d] \in Frame \/ shown[d].from # "ticker"
      BY DEF TypeOK, NoFrame
    <3>2. shown[d] \in Frame => shown[d].version \in Nat
      BY HubAssumption DEF Frame
    <3>3. QED
      BY <3>1, <3>2 DEF Before
  <2>3. \A d \in Conn \ {c} : Before(shown[d], shown'[d])
    BY <2>1, <2>2
  <2>4. QED
    BY <1>8, <2>3, OrderRead DEF TickStep
<1>9. ASSUME UNCHANGED <<version, snapshot, broadcast, delivering, socket, shown>>
      PROVE  InOrder' /\ TickStep
  BY <1>0, <1>9, OrderKept, HubAssumption DEF TypeOK
<1>10. ASSUME NEW c \in Conn,
              HubRegisters(c) \/ HubWrites(c) \/ Connect(c) \/ ReadInitial(c) \/ InitialFails(c)
       PROVE  InOrder' /\ TickStep
  BY <1>9, <1>10 DEF HubRegisters, HubWrites, Connect, ReadInitial, InitialFails,
                     senders, hub, browser
<1>11. CASE HubPanics \/ UNCHANGED vars
  BY <1>9, <1>11 DEF HubPanics, vars, senders, hub, browser
<1>12. QED
  BY <1>1, <1>2, <1>3, <1>4, <1>5, <1>6, <1>7, <1>8, <1>10, <1>11
     DEF Next, Publish, Deliver, HandlerSteps

(* A dashboard never goes from a later tick of the telemetry loop back to   *)
(* an earlier one, whatever frames are dropped on the way.                  *)
THEOREM TicksStayInOrder == Spec => TicksInOrder
<1>1. TickStep => \A c \in Conn : /\ shown[c].from = "ticker"
                                  /\ shown'[c].from = "ticker"
                                  => shown[c].version <= shown'[c].version
  BY DEF TickStep, Before
<1>2. QED
  BY <1>1, OrderInit, OrderStep, TypeCorrect, PTL DEF Spec, TicksInOrder
=============================================================================
