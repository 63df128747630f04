------------------------ MODULE TerminalSessionProofs ------------------------
(***************************************************************************)
(* Proofs about TerminalSession: the types of its state, that whoever      *)
(* writes holds the lock, and what a session that is over has left behind. *)
(***************************************************************************)
EXTENDS TerminalSession, TLAPS

\* How far the session's end has come.
Ending ==
    /\ handler # "waiting" => input = "done" /\ \A s \in Stream : streamer[s] = "done"
    /\ handler \in {"closing", "done"} => shell = "reaped"
    /\ handler = "done" => ~connOpen

\* The frames the peer sends are bounded in all; a shell about to write has
\* something to write.
Bounded ==
    /\ inbound + toSend <= Input
    /\ \A s \in Stream : shell = s => toWrite[s] > 0

TerminalInv == TypeOK /\ Bounded /\ WritersHoldLock /\ Ending

LEMMA Capacities ==
    /\ PipeCap \in Nat /\ SocketCap \in Nat /\ Input \in Nat /\ Output \in Nat
    /\ 0 \in 0..PipeCap /\ 0 \in 0..SocketCap /\ 0 \in 0..Input /\ 0 \in 0..Output
    /\ Input \in 0..Input /\ Output \in 0..Output
BY TerminalAssumption

LEMMA TerminalInitInv == Init => TerminalInv
<1> SUFFICES ASSUME Init PROVE TerminalInv
  OBVIOUS
<1>1. TypeOK
  BY Capacities DEF Init, TypeOK
<1>2. Bounded
  BY Capacities DEF Init, Bounded, Stream
<1>3. WritersHoldLock /\ Ending
  BY DEF Init, WritersHoldLock, Ending, Stream
<1>4. QED
  BY <1>1, <1>2, <1>3 DEF TerminalInv

LEMMA StreamerKeeps ==
    ASSUME TerminalInv, NEW s \in Stream, Streamer(s)
    PROVE  TerminalInv'
<1>1. CASE GotChunk(s)
  <2>1. pipe[s] - 1 \in 0..PipeCap
    BY <1>1, Capacities DEF GotChunk, TerminalInv, Bounded, TypeOK
  <2>2. TypeOK'
    BY <1>1, <2>1 DEF GotChunk, TerminalInv, Bounded, TypeOK, conn
  <2>3. (Bounded /\ WritersHoldLock /\ Ending)'
    BY <1>1 DEF GotChunk, TerminalInv, Bounded, TypeOK, WritersHoldLock, Ending, Stream, conn
  <2>4. QED
    BY <2>2, <2>3 DEF TerminalInv
<1>2. CASE GotEOF(s)
  BY <1>2 DEF GotEOF, TerminalInv, Bounded, TypeOK, WritersHoldLock, Ending, Stream, conn, process
<1>3. CASE LockForFrame(s)
  BY <1>3 DEF LockForFrame, TerminalInv, Bounded, TypeOK, WritersHoldLock, Ending, Stream, conn, process
<1>4. CASE FrameWritten(s)
  <2>1. outbound' \in 0..SocketCap
    BY <1>4, Capacities DEF FrameWritten, TerminalInv, Bounded, TypeOK
  <2>2. TypeOK'
    BY <1>4, <2>1 DEF FrameWritten, TerminalInv, Bounded, TypeOK, process
  <2>3. (Bounded /\ WritersHoldLock /\ Ending)'
    BY <1>4 DEF FrameWritten, TerminalInv, Bounded, TypeOK, WritersHoldLock, Ending, Stream, process
  <2>4. QED
    BY <2>2, <2>3 DEF TerminalInv
<1>5. CASE FrameFailed(s)
  BY <1>5 DEF FrameFailed, TerminalInv, Bounded, TypeOK, WritersHoldLock, Ending, Stream, conn, process
<1>6. QED
  BY <1>1, <1>2, <1>3, <1>4, <1>5 DEF Streamer

LEMMA InputKeeps ==
    ASSUME TerminalInv, InputLoop
    PROVE  TerminalInv'
<1>1. CASE GotInput
  <2>1. inbound' \in 0..Input /\ inbound' + toSend' <= Input
    BY <1>1, Capacities DEF GotInput, TerminalInv, Bounded, TypeOK
  <2>2. QED
    BY <1>1, <2>1 DEF GotInput, TerminalInv, Bounded, TypeOK, WritersHoldLock, Ending, process
<1>2. CASE IgnoredFrame
  <2>1. inbound' \in 0..Input /\ inbound' + toSend' <= Input
    BY <1>2, Capacities DEF IgnoredFrame, TerminalInv, Bounded, TypeOK
  <2>2. QED
    BY <1>2, <2>1 DEF IgnoredFrame, TerminalInv, Bounded, TypeOK, WritersHoldLock, Ending, process, session
<1>3. CASE InputEnds
  BY <1>3 DEF InputEnds, TerminalInv, Bounded, TypeOK, WritersHoldLock, Ending, process, conn
<1>4. CASE LockForInput
  BY <1>4 DEF LockForInput, TerminalInv, Bounded, TypeOK, WritersHoldLock, Ending, Stream, process, conn
<1>5. CASE InputWritten
  <2>1. stdin' \in 0..PipeCap
    BY <1>5, Capacities DEF InputWritten, TerminalInv, Bounded, TypeOK
  <2>2. QED
    BY <1>5, <2>1 DEF InputWritten, TerminalInv, Bounded, TypeOK, WritersHoldLock, Ending, Stream, conn
<1>6. CASE CloseByInput
  BY <1>6 DEF CloseByInput, Close, Alive, Stream, TerminalInv, Bounded, TypeOK, WritersHoldLock, Ending
<1>7. QED
  BY <1>1, <1>2, <1>3, <1>4, <1>5, <1>6 DEF InputLoop

LEMMA HandlerKeeps ==
    ASSUME TerminalInv, Handler
    PROVE  TerminalInv'
<1>1. CASE AllJoined
  BY <1>1 DEF AllJoined, TerminalInv, Bounded, TypeOK, WritersHoldLock, Ending, process, conn
<1>2. CASE Reap
  BY <1>2 DEF Reap, Stream, TerminalInv, Bounded, TypeOK, WritersHoldLock, Ending, conn
<1>3. CASE CloseByHandler
  BY <1>3 DEF CloseByHandler, Close, Alive, Stream, TerminalInv, Bounded, TypeOK, WritersHoldLock, Ending
<1>4. QED
  BY <1>1, <1>2, <1>3 DEF Handler

LEMMA ShellKeeps ==
    ASSUME TerminalInv, Shell
    PROVE  TerminalInv'
<1>1. UNCHANGED <<session, conn>>
  BY DEF Shell, ShellReads, ShellWants, ShellWrites, ShellExits, ChildStarts, ChildEnds
<1>2. /\ stdin' \in 0..PipeCap
      /\ pipe' \in [Stream -> 0..PipeCap]
      /\ child' \in BOOLEAN
      /\ toWrite' \in [Stream -> 0..Output]
      /\ shell' \in {"running", "dead", "reaped"} \cup Stream
      /\ shell = "reaped" => shell' = "reaped"
      /\ \A s \in Stream : shell' = s => toWrite'[s] > 0
  <2>1. CASE ShellReads \/ ShellExits \/ ChildStarts \/ ChildEnds
    <3>1. stdin' \in 0..PipeCap
      BY <2>1, Capacities DEF ShellReads, ShellExits, ChildStarts, ChildEnds, TerminalInv, Bounded, TypeOK
    <3>2. QED
      BY <2>1, <3>1 DEF ShellReads, ShellExits, ChildStarts, ChildEnds, Stream,
                        TerminalInv, Bounded, TypeOK
  <2>2. CASE \E s \in Stream : ShellWants(s)
    BY <2>2 DEF ShellWants, TerminalInv, Bounded, TypeOK, Stream
  <2>3. CASE \E s \in Stream : ShellWrites(s)
    <3>1. PICK s \in Stream : ShellWrites(s)
      BY <2>3
    <3>2. pipe[s] \in 0..PipeCap /\ pipe[s] < PipeCap /\ toWrite[s] \in 0..Output
      BY <3>1 DEF ShellWrites, TerminalInv, Bounded, TypeOK
    <3>3. toWrite[s] > 0
      BY <3>1 DEF ShellWrites, TerminalInv, Bounded
    <3>4. pipe[s] + 1 \in 0..PipeCap /\ toWrite[s] - 1 \in 0..Output
      BY <3>2, <3>3, Capacities
    <3>5. QED
      BY <3>1, <3>4 DEF ShellWrites, TerminalInv, Bounded, TypeOK, Stream
  <2>4. QED
    BY <2>1, <2>2, <2>3 DEF Shell
<1>3. QED
  BY <1>1, <1>2 DEF TerminalInv, Bounded, TypeOK, WritersHoldLock, Ending, session, conn

LEMMA PeerKeeps ==
    ASSUME TerminalInv, Peer
    PROVE  TerminalInv'
<1>1. UNCHANGED <<session, process, connOpen>>
  BY DEF Peer, PeerSends, PeerReads, PeerCloses
<1>2. /\ peerOpen' \in BOOLEAN /\ inbound' \in 0..Input /\ toSend' \in 0..Input
      /\ outbound' \in 0..SocketCap /\ inbound' + toSend' <= Input
  <2>1. /\ inbound \in 0..Input /\ toSend \in 0..Input /\ outbound \in 0..SocketCap
        /\ inbound + toSend <= Input /\ peerOpen \in BOOLEAN
    BY DEF TerminalInv, Bounded, TypeOK
  <2>2. CASE PeerSends
    BY <2>1, <2>2, Capacities DEF PeerSends
  <2>3. CASE PeerReads
    BY <2>1, <2>3, Capacities DEF PeerReads
  <2>4. CASE PeerCloses
    BY <2>1, <2>4, Capacities DEF PeerCloses
  <2>5. QED
    BY <2>2, <2>3, <2>4 DEF Peer
<1>3. QED
  BY <1>1, <1>2 DEF TerminalInv, Bounded, TypeOK, WritersHoldLock, Ending, session, process

LEMMA TerminalStep == TerminalInv /\ [Next]_vars => TerminalInv'
<1>1. TerminalInv /\ UNCHANGED vars => TerminalInv'
  BY DEF TerminalInv, Bounded, TypeOK, WritersHoldLock, Ending, vars, session, process, conn
<1>2. QED
  BY <1>1, StreamerKeeps, InputKeeps, HandlerKeeps, ShellKeeps, PeerKeeps DEF Next

(* The state keeps its types.                                               *)
THEOREM SessionTypes == Spec => []TypeOK
<1>1. TerminalInv => TypeOK
  BY DEF TerminalInv
<1>2. QED
  BY TerminalInitInv, TerminalStep, <1>1, PTL DEF Spec

(* Whoever is inside a write holds the lock and no one else does, for any   *)
(* capacities and any amount of input and output (session.go:101-103,       *)
(* 124-126).                                                                *)
THEOREM NoInterleavedWrites == Spec => []WritersHoldLock
<1>1. TerminalInv => WritersHoldLock
  BY DEF TerminalInv
<1>2. QED
  BY TerminalInitInv, TerminalStep, <1>1, PTL DEF Spec

(* A session that is over left no process, goroutine, socket or lock behind *)
(* (session.go:110-111, 137-157).                                           *)
THEOREM NothingLeftBehind == Spec => []CleanEnd
<1>1. TerminalInv => CleanEnd
  BY DEF TerminalInv, Bounded, TypeOK, WritersHoldLock, Ending, CleanEnd, Stream
<1>2. QED
  BY TerminalInitInv, TerminalStep, <1>1, PTL DEF Spec
=============================================================================
