--------------------------- MODULE TerminalSession ---------------------------
(***************************************************************************)
(* An agent's terminal session (pkg/terminal/session.go): a shell process  *)
(* behind three pipes, a WebSocket, and the goroutines of HandleIO that    *)
(* carry chunks between them.  Session.mu is held across every write to    *)
(* the WebSocket, every write to the shell's stdin and all of Close.       *)
(*                                                                         *)
(* Chunks are counted, not named.  The shell, the pipes of the operating   *)
(* system and the peer at the other end of the WebSocket are environment,  *)
(* modelled from how the session uses them: a write to a full pipe or      *)
(* socket blocks, a read from an empty one blocks until its other end is   *)
(* closed.                                                                 *)
(***************************************************************************)
EXTENDS Naturals, FiniteSets

CONSTANTS
    PipeCap,      \* chunks a pipe holds
    SocketCap,    \* frames on their way to the peer
    Input,        \* model bound: input frames the peer sends in all
    Output,       \* model bound: chunks the shell writes to each stream
    Background    \* may the shell leave a background process behind?

ASSUME TerminalAssumption ==
    /\ PipeCap \in Nat \ {0}
    /\ SocketCap \in Nat \ {0}
    /\ Input \in Nat
    /\ Output \in Nat
    /\ Background \in BOOLEAN

Stream == {"stdout", "stderr"}

VARIABLES
    mu,         \* the goroutine that holds Session.mu, or "free"
    streamer,   \* per stream: "reading", "locking", "writing" or "done"
    input,      \* the input loop: "reading", "locking", "writing", "closing", "done"
    handler,    \* HandleIO's caller: "waiting", "reaping", "closing" or "done"
    done,       \* is Session.done closed?
    stdin,      \* chunks in the shell's stdin pipe
    pipe,       \* per stream: chunks in the pipe from the shell
    shell,      \* "running", a stream it is about to write to, "dead" or "reaped"
    child,      \* does a background process hold the pipes' other ends?
    toWrite,    \* per stream: chunks the shell may still write
    connOpen,   \* the session's end of the WebSocket
    peerOpen,   \* the peer's end
    inbound,    \* input frames sent by the peer and not yet read
    toSend,     \* input frames the peer may still send
    outbound    \* output frames written and not yet read by the peer

session == <<mu, streamer, input, handler, done>>
process == <<stdin, pipe, shell, child, toWrite>>
conn    == <<connOpen, peerOpen, inbound, toSend, outbound>>
vars    == <<session, process, conn>>

Alive == shell \in {"running"} \cup Stream

\* No process is left at the shell's end of the pipes.
HungUp == ~Alive /\ ~child

Init ==
    /\ mu = "free"
    /\ streamer = [s \in Stream |-> "reading"]
    /\ input = "reading"
    /\ handler = "waiting"
    /\ done = FALSE
    /\ stdin = 0
    /\ pipe = [s \in Stream |-> 0]
    /\ shell = "running"
    /\ child = FALSE
    /\ toWrite = [s \in Stream |-> Output]
    /\ connOpen = TRUE
    /\ peerOpen = TRUE
    /\ inbound = 0
    /\ toSend = Input
    /\ outbound = 0

-----------------------------------------------------------------------------
(* streamPipeToWS, one goroutine per stream.                                *)

GotChunk(s) ==
    /\ streamer[s] = "reading"
    /\ pipe[s] > 0
    /\ pipe' = [pipe EXCEPT ![s] = @ - 1]
    /\ streamer' = [streamer EXCEPT ![s] = "locking"]
    /\ UNCHANGED <<mu, input, handler, done, stdin, shell, child, toWrite, conn>>

GotEOF(s) ==
    /\ streamer[s] = "reading"
    /\ pipe[s] = 0
    /\ HungUp
    /\ streamer' = [streamer EXCEPT ![s] = "done"]
    /\ UNCHANGED <<mu, input, handler, done, process, conn>>

\* Mutant: the frame is written without the lock.
LockForFrameSkipped(s) ==
    /\ streamer[s] = "locking"
    /\ streamer' = [streamer EXCEPT ![s] = "writing"]
    /\ UNCHANGED <<mu, input, handler, done, process, conn>>

LockForFrame(s) ==
    /\ streamer[s] = "locking"
    /\ mu = "free"
    /\ mu' = s
    /\ streamer' = [streamer EXCEPT ![s] = "writing"]
    /\ UNCHANGED <<input, handler, done, process, conn>>

\* Mutant: the lock is not released.
FrameWrittenLocked(s) ==
    /\ streamer[s] = "writing"
    /\ connOpen
    /\ outbound < SocketCap
    /\ outbound' = IF peerOpen THEN outbound + 1 ELSE outbound
    /\ streamer' = [streamer EXCEPT ![s] = "reading"]
    /\ UNCHANGED <<mu, input, handler, done, process,
                   connOpen, peerOpen, inbound, toSend>>

\* A frame written after the peer has gone may still be accepted by the socket.
FrameWritten(s) ==
    /\ streamer[s] = "writing"
    /\ connOpen
    /\ outbound < SocketCap
    /\ outbound' = IF peerOpen THEN outbound + 1 ELSE outbound
    /\ mu' = "free"
    /\ streamer' = [streamer EXCEPT ![s] = "reading"]
    /\ UNCHANGED <<input, handler, done, process,
                   connOpen, peerOpen, inbound, toSend>>

FrameFailed(s) ==
    /\ streamer[s] = "writing"
    /\ ~connOpen \/ ~peerOpen
    /\ mu' = "free"
    /\ streamer' = [streamer EXCEPT ![s] = "done"]
    /\ UNCHANGED <<input, handler, done, process, conn>>

Streamer(s) ==
    GotChunk(s) \/ GotEOF(s) \/ LockForFrame(s) \/ FrameWritten(s) \/ FrameFailed(s)

-----------------------------------------------------------------------------
(* The input loop of HandleIO.                                              *)

GotInput ==
    /\ input = "reading"
    /\ connOpen
    /\ inbound > 0
    /\ inbound' = inbound - 1
    /\ input' = "locking"
    /\ UNCHANGED <<mu, streamer, handler, done, process,
                   connOpen, peerOpen, toSend, outbound>>

\* A resize, an unknown type or no JSON at all: nothing is written.
IgnoredFrame ==
    /\ input = "reading"
    /\ connOpen
    /\ inbound > 0
    /\ inbound' = inbound - 1
    /\ UNCHANGED <<session, process, connOpen, peerOpen, toSend, outbound>>

InputEnds ==
    /\ input = "reading"
    /\ ~connOpen \/ (~peerOpen /\ inbound = 0)
    /\ input' = "closing"
    /\ UNCHANGED <<mu, streamer, handler, done, process, conn>>

LockForInput ==
    /\ input = "locking"
    /\ mu = "free"
    /\ mu' = "input"
    /\ input' = "writing"
    /\ UNCHANGED <<streamer, handler, done, process, conn>>

\* stdin.Write returns: the pipe took the chunk, or nobody reads it any more.
InputWritten ==
    /\ input = "writing"
    /\ \/ ~done /\ ~HungUp /\ stdin < PipeCap /\ stdin' = stdin + 1
       \/ (done \/ HungUp) /\ stdin' = stdin
    /\ mu' = "free"
    /\ input' = "reading"
    /\ UNCHANGED <<streamer, handler, done, pipe, shell, child, toWrite, conn>>

\* Mutant: Close leaves the shell alone.
CloseWithoutKill ==
    /\ mu = "free"
    /\ done' = TRUE
    /\ connOpen' = FALSE
    /\ UNCHANGED <<mu, stdin, pipe, shell, child, toWrite,
                   peerOpen, inbound, toSend, outbound>>

(* Close: once for the session, whoever comes first closes stdin, kills the *)
(* shell and closes the WebSocket; nothing in it blocks.                    *)
Close ==
    /\ mu = "free"
    /\ done' = TRUE
    /\ shell' = IF ~done /\ Alive THEN "dead" ELSE shell
    /\ connOpen' = FALSE
    /\ UNCHANGED <<mu, stdin, pipe, child, toWrite,
                   peerOpen, inbound, toSend, outbound>>

CloseByInput ==
    /\ input = "closing"
    /\ Close
    /\ input' = "done"
    /\ UNCHANGED <<streamer, handler>>

InputLoop ==
    GotInput \/ IgnoredFrame \/ InputEnds \/ LockForInput \/ InputWritten \/ CloseByInput

-----------------------------------------------------------------------------
(* The goroutine that called HandleIO, up to the deferred Close of its      *)
(* caller (cmd/agent/main.go:329-330).                                      *)

\* Mutant: wg.Add(2).
TwoJoined ==
    /\ handler = "waiting"
    /\ \A s \in Stream : streamer[s] = "done"
    /\ handler' = "reaping"
    /\ UNCHANGED <<mu, streamer, input, done, process, conn>>

AllJoined ==
    /\ handler = "waiting"
    /\ \A s \in Stream : streamer[s] = "done"
    /\ input = "done"
    /\ handler' = "reaping"
    /\ UNCHANGED <<mu, streamer, input, done, process, conn>>

Reap ==
    /\ handler = "reaping"
    /\ shell = "dead"
    /\ shell' = "reaped"
    /\ handler' = "closing"
    /\ UNCHANGED <<mu, streamer, input, done, stdin, pipe, child, toWrite, conn>>

CloseByHandler ==
    /\ handler = "closing"
    /\ Close
    /\ handler' = "done"
    /\ UNCHANGED <<streamer, input>>

Handler == AllJoined \/ Reap \/ CloseByHandler

-----------------------------------------------------------------------------
(* Environment: the shell and what it leaves running.                       *)

ShellReads ==
    /\ shell = "running"
    /\ stdin > 0
    /\ stdin' = stdin - 1
    /\ UNCHANGED <<session, pipe, shell, child, toWrite, conn>>

\* The shell decides to write; until the pipe has room it does nothing else.
ShellWants(s) ==
    /\ shell = "running"
    /\ toWrite[s] > 0
    /\ shell' = s
    /\ UNCHANGED <<session, stdin, pipe, child, toWrite, conn>>

ShellWrites(s) ==
    /\ shell = s
    /\ pipe[s] < PipeCap
    /\ pipe' = [pipe EXCEPT ![s] = @ + 1]
    /\ toWrite' = [toWrite EXCEPT ![s] = @ - 1]
    /\ shell' = "running"
    /\ UNCHANGED <<session, stdin, child, conn>>

ShellExits ==
    /\ shell = "running"
    /\ shell' = "dead"
    /\ UNCHANGED <<session, stdin, pipe, child, toWrite, conn>>

ChildStarts ==
    /\ Background
    /\ shell = "running"
    /\ ~child
    /\ child' = TRUE
    /\ UNCHANGED <<session, stdin, pipe, shell, toWrite, conn>>

ChildEnds ==
    /\ child
    /\ child' = FALSE
    /\ UNCHANGED <<session, stdin, pipe, shell, toWrite, conn>>

Shell ==
    \/ ShellReads
    \/ \E s \in Stream : ShellWants(s) \/ ShellWrites(s)
    \/ ShellExits \/ ChildStarts \/ ChildEnds

(* Environment: the peer, that is the controller's proxy.                   *)

PeerSends ==
    /\ peerOpen
    /\ toSend > 0
    /\ toSend' = toSend - 1
    /\ inbound' = inbound + 1
    /\ UNCHANGED <<session, process, connOpen, peerOpen, outbound>>

PeerReads ==
    /\ peerOpen
    /\ outbound > 0
    /\ outbound' = outbound - 1
    /\ UNCHANGED <<session, process, connOpen, peerOpen, inbound, toSend>>

\* It hangs up of its own accord, or because the session has.
PeerCloses ==
    /\ peerOpen
    /\ peerOpen' = FALSE
    /\ outbound' = 0
    /\ UNCHANGED <<session, process, connOpen, inbound, toSend>>

Peer == PeerSends \/ PeerReads \/ PeerCloses

-----------------------------------------------------------------------------
Next ==
    \/ \E s \in Stream : Streamer(s)
    \/ InputLoop
    \/ Handler
    \/ Shell
    \/ Peer

Spec == Init /\ [][Next]_vars

(* Goroutines are scheduled, and sync.Mutex hands the lock to a waiter that *)
(* has waited long enough, whence strong fairness for those that lock.  The *)
(* shell finishes a write that has room; it need not exit, nor read its     *)
(* input, which a command in the foreground may ignore.  The peer reads     *)
(* what it is sent; it need not send anything nor hang up.                  *)
Fairness ==
    /\ \A s \in Stream :
          /\ WF_vars(GotChunk(s) \/ GotEOF(s))
          /\ SF_vars(LockForFrame(s))
          /\ WF_vars(FrameWritten(s) \/ FrameFailed(s))
          /\ WF_vars(ShellWrites(s))
    /\ WF_vars(GotInput \/ IgnoredFrame \/ InputEnds)
    /\ SF_vars(LockForInput)
    /\ WF_vars(InputWritten)
    /\ SF_vars(CloseByInput)
    /\ WF_vars(AllJoined \/ Reap)
    /\ SF_vars(CloseByHandler)
    /\ WF_vars(PeerReads)

FairSpec == Spec /\ Fairness

-----------------------------------------------------------------------------
(* The types of the session's state.                                        *)
TypeOK ==
    /\ mu \in {"free", "input"} \cup Stream
    /\ streamer \in [Stream -> {"reading", "locking", "writing", "done"}]
    /\ input \in {"reading", "locking", "writing", "closing", "done"}
    /\ handler \in {"waiting", "reaping", "closing", "done"}
    /\ done \in BOOLEAN
    /\ stdin \in 0..PipeCap
    /\ pipe \in [Stream -> 0..PipeCap]
    /\ shell \in {"running", "dead", "reaped"} \cup Stream
    /\ child \in BOOLEAN
    /\ toWrite \in [Stream -> 0..Output]
    /\ connOpen \in BOOLEAN
    /\ peerOpen \in BOOLEAN
    /\ inbound \in 0..Input
    /\ toSend \in 0..Input
    /\ outbound \in 0..SocketCap

(* The goroutine inside a write is the one that holds the lock, so no two   *)
(* frames are ever interleaved on the WebSocket and none is cut off by a    *)
(* Close (session.go:101-103, 124-126, 139-140).                            *)
WritersHoldLock ==
    /\ \A s \in Stream : streamer[s] = "writing" <=> mu = s
    /\ input = "writing" <=> mu = "input"

(* A session that is over left nothing behind on the agent: the shell is    *)
(* dead and reaped, every goroutine has returned and the WebSocket is       *)
(* closed (session.go:110-111, 137-157).                                    *)
CleanEnd ==
    handler = "done" =>
        /\ shell = "reaped"
        /\ input = "done"
        /\ \A s \in Stream : streamer[s] = "done"
        /\ ~connOpen
        /\ mu = "free"

\* The input loop holds the lock and waits for room in the shell's stdin
\* (session.go:101-103).
Stuck == input = "writing" /\ stdin = PipeCap /\ ~HungUp

(* When the peer hangs up, the session ends and takes the shell with it,    *)
(* even one that is writing into full pipes.  Two things can keep it from   *)
(* that, and nothing else: a process left in the background that holds the  *)
(* pipes open, and a write to a stdin that nobody reads any more.           *)
HangupEndsUnlessStuck ==
    []<>~Stuck /\ []<>~child => (~peerOpen ~> handler = "done")

(* While the peer stays, whatever the shell wrote reaches it, whichever     *)
(* pipes are full, unless a write to stdin that nobody reads any more keeps *)
(* the lock the output needs.                                               *)
OutputDelivered ==
    []<>~Stuck =>
        \A s \in Stream :
            (pipe[s] > 0 \/ streamer[s] \in {"locking", "writing"}) ~>
                \/ pipe[s] = 0 /\ streamer[s] \in {"reading", "done"}
                \/ ~peerOpen

(* When the peer hangs up, the session ends, but for a process left in the  *)
(* background: Close "terminates the running process and cleans up open     *)
(* pipes" (session.go:136).                                                 *)
HangupEndsSession == ~peerOpen ~> handler = "done" \/ child
=============================================================================
