--------------------------- MODULE ExchangeServer ---------------------------
(* The threads of the exchange server (apps/exchange_server/main.cpp,      *)
(* engine_loop.hpp and the event loop of adapters/tcp/tcp_server.cpp): the *)
(* I/O thread, the engine thread, the two rings and the eventfd between    *)
(* them, and shutdown by a signal.  The rings are the bounded queues that  *)
(* SpscRingBuffer implements.  A frame is a client and the number of the   *)
(* frame on its connection; what the engine answers is not looked into,    *)
(* and connections stay open (TcpServer models them).                      *)
EXTENDS Integers, Sequences, FiniteSets

CONSTANTS Clients,
          MaxFrames,        \* bound on the frames a client sends
          InboundCapacity, OutboundCapacity

ASSUME BoundsAssumption ==
    /\ MaxFrames \in Nat
    /\ InboundCapacity \in Nat \ {0} /\ OutboundCapacity \in Nat \ {0}

VARIABLES
    sent,      \* client -> frames it has written to its socket
    read,      \* client -> frames the I/O thread has processed
    replies,   \* client -> the replies written to it, oldest first
    inbound,   \* TaggedCommands on their way to the engine thread
    outbound,  \* TaggedResponses on their way to the I/O thread
    efdEdge,   \* the eventfd was written since epoll_wait last reported it
    io,        \* where the I/O thread is
    batch,     \* events of the current epoll_wait not yet handled
    current,   \* the connection being read and the frames in its buffer
    engine,    \* where the engine thread is
    command,   \* the command the engine thread has popped
    pending,   \* WakeupCoalescer::pending_
    gShutdown, \* g_shutdown, set by the signal handler
    shutdownRequested  \* shutdown_requested_, set by request_shutdown

clientVars == <<sent>>
ioVars == <<read, replies, io, batch, current>>
engineVars == <<engine, command, pending, shutdownRequested>>
vars == <<clientVars, ioVars, engineVars, inbound, outbound, efdEdge, gShutdown>>

Eventfd == "eventfd"
NoCommand == <<>>
NoConnection == <<>>

Init ==
    /\ sent = [c \in Clients |-> 0]
    /\ read = [c \in Clients |-> 0]
    /\ replies = [c \in Clients |-> <<>>]
    /\ inbound = <<>> /\ outbound = <<>>
    /\ efdEdge = FALSE
    /\ io = "top" /\ batch = {} /\ current = NoConnection
    /\ engine = "top" /\ command = NoCommand /\ pending = FALSE
    /\ gShutdown = FALSE /\ shutdownRequested = FALSE

-----------------------------------------------------------------------------
(* Outside the process.                                                    *)

ClientSends(c) ==
    /\ sent[c] < MaxFrames
    /\ sent' = [sent EXCEPT ![c] = @ + 1]
    /\ UNCHANGED <<ioVars, engineVars, inbound, outbound, efdEdge, gShutdown>>

(* The handler runs on one of the threads; when that is the I/O thread     *)
(* waiting in epoll_wait, the call returns EINTR.                          *)
Signal ==
    /\ ~gShutdown
    /\ gShutdown' = TRUE
    /\ efdEdge' = TRUE
    /\ \/ UNCHANGED io
       \/ io = "wait" /\ io' = "top"
    /\ UNCHANGED <<clientVars, engineVars, read, replies, batch, current,
                   inbound, outbound>>

-----------------------------------------------------------------------------
(* The I/O thread: TcpServer::run and the handlers main() wires into it.   *)

IoTop ==
    /\ io = "top"
    /\ io' = IF shutdownRequested THEN "exited" ELSE "wait"
    /\ UNCHANGED <<clientVars, engineVars, read, replies, batch, current,
                   inbound, outbound, efdEdge, gShutdown>>

(* epoll_wait returns what is ready.  handle_read drains a socket, so a    *)
(* socket is ready when it holds frames that have not been processed.      *)
EpollWait ==
    /\ io = "wait"
    /\ batch' = {c \in Clients : sent[c] > read[c]}
                  \union (IF efdEdge THEN {Eventfd} ELSE {})
    /\ batch' # {}
    /\ efdEdge' = FALSE
    /\ io' = "batch"
    /\ UNCHANGED <<clientVars, engineVars, read, replies, current,
                   inbound, outbound, gShutdown>>

(* The next event of the batch, in whatever order epoll_wait listed them:  *)
(* handle_eventfd reads the counter and drains, handle_read first appends  *)
(* everything the socket holds to read_buffer.                             *)
NextEvent ==
    /\ io = "batch"
    /\ \/ /\ batch = {}
          /\ io' = "top"
          /\ UNCHANGED <<batch, current, efdEdge>>
       \/ /\ Eventfd \in batch
          /\ batch' = batch \ {Eventfd}
          /\ io' = "drain"
          /\ efdEdge' = FALSE
          /\ UNCHANGED current
       \/ \E c \in batch \ {Eventfd} :
          /\ batch' = batch \ {c}
          /\ io' = "read"
          /\ current' = <<c, sent[c]>>
          /\ UNCHANGED efdEdge
    /\ UNCHANGED <<clientVars, engineVars, read, replies, inbound, outbound,
                   gShutdown>>

Reply(c, n, kind) ==
    replies' = [replies EXCEPT ![c] = Append(@, [frame |-> n, kind |-> kind])]

(* Mutated forms, each a plausible slip in the code; nothing uses them.    *)
HandleFrameDropsWhenFull ==
    /\ io = "read"
    /\ read[current[1]] < current[2]
    /\ LET c == current[1]
           n == read[c] + 1
       IN  /\ read' = [read EXCEPT ![c] = n]
           /\ \/ Reply(c, n, "error") /\ UNCHANGED inbound
              \/ /\ inbound' = IF Len(inbound) < InboundCapacity
                               THEN Append(inbound, <<c, n>>) ELSE inbound
                 /\ UNCHANGED replies
    /\ UNCHANGED <<clientVars, engineVars, io, batch, current, outbound,
                   efdEdge, gShutdown>>

(* One frame of read_buffer through the frame handler: a parse error is    *)
(* answered directly, a command is pushed, and one that finds the inbound  *)
(* ring full is answered with "system busy".                               *)
HandleFrame ==
    /\ io = "read"
    /\ read[current[1]] < current[2]
    /\ LET c == current[1]
           n == read[c] + 1
       IN  /\ read' = [read EXCEPT ![c] = n]
           /\ \/ Reply(c, n, "error") /\ UNCHANGED inbound
              \/ /\ Len(inbound) < InboundCapacity
                 /\ inbound' = Append(inbound, <<c, n>>)
                 /\ UNCHANGED replies
              \/ /\ Len(inbound) = InboundCapacity
                 /\ Reply(c, n, "busy")
                 /\ UNCHANGED inbound
    /\ UNCHANGED <<clientVars, engineVars, io, batch, current, outbound,
                   efdEdge, gShutdown>>

ReadDone ==
    /\ io = "read"
    /\ read[current[1]] = current[2]
    /\ io' = "batch"
    /\ current' = NoConnection
    /\ UNCHANGED <<clientVars, engineVars, read, replies, batch, inbound,
                   outbound, efdEdge, gShutdown>>

DrainOnlyOne ==
    /\ io = "drain"
    /\ \/ /\ outbound # <<>>
          /\ Reply(Head(outbound)[1], Head(outbound)[2], "response")
          /\ outbound' = Tail(outbound)
       \/ /\ outbound = <<>>
          /\ UNCHANGED <<replies, outbound>>
    /\ io' = "drained"
    /\ UNCHANGED <<clientVars, engineVars, read, batch, current, inbound,
                   efdEdge, gShutdown>>

(* One try_pop of the drain handler; the response goes to the client it is *)
(* tagged with.                                                            *)
DrainOne ==
    /\ io = "drain"
    /\ \/ /\ outbound # <<>>
          /\ Reply(Head(outbound)[1], Head(outbound)[2], "response")
          /\ outbound' = Tail(outbound)
          /\ UNCHANGED io
       \/ /\ outbound = <<>>
          /\ io' = "drained"
          /\ UNCHANGED <<replies, outbound>>
    /\ UNCHANGED <<clientVars, engineVars, read, batch, current, inbound,
                   efdEdge, gShutdown>>

(* The shutdown test behind handle_eventfd.                                *)
DrainDone ==
    /\ io = "drained"
    /\ io' = IF shutdownRequested THEN "exited" ELSE "batch"
    /\ UNCHANGED <<clientVars, engineVars, read, replies, batch, current,
                   inbound, outbound, efdEdge, gShutdown>>

IoStep ==
    \/ IoTop \/ EpollWait \/ NextEvent \/ HandleFrame \/ ReadDone
    \/ DrainOne \/ DrainDone

-----------------------------------------------------------------------------
(* The engine thread: the loop of main() and the shutdown behind it.       *)

NotEngine == <<clientVars, ioVars, gShutdown>>

EngineTop ==
    /\ engine = "top"
    /\ engine' = IF gShutdown THEN "final" ELSE "pop"
    /\ UNCHANGED <<NotEngine, command, pending, shutdownRequested, inbound,
                   outbound, efdEdge>>

(* try_pop, and on success dispatch_command: it never throws, so there is  *)
(* a response for every command.                                           *)
EnginePop ==
    /\ engine = "pop"
    /\ \/ /\ inbound # <<>>
          /\ command' = Head(inbound)
          /\ inbound' = Tail(inbound)
          /\ engine' = "spin"
       \/ /\ inbound = <<>>
          /\ engine' = "idle"
          /\ UNCHANGED <<command, inbound>>
    /\ UNCHANGED <<NotEngine, pending, shutdownRequested, outbound, efdEdge>>

(* Mutated form: yields without the coalesced wakeup.                      *)
EngineIdleSilent ==
    /\ engine = "idle"
    /\ engine' = "top"
    /\ UNCHANGED <<NotEngine, command, pending, shutdownRequested, inbound,
                   outbound, efdEdge>>

(* should_notify_on_idle, and the wakeup if it says so.                    *)
EngineIdle ==
    /\ engine = "idle"
    /\ efdEdge' = (efdEdge \/ pending)
    /\ pending' = FALSE
    /\ engine' = "top"
    /\ UNCHANGED <<NotEngine, command, shutdownRequested, inbound, outbound>>

(* Mutated forms: pushes without waiting for room; puts the command back   *)
(* instead of waiting.                                                     *)
EnginePushUnchecked ==
    /\ engine = "spin"
    /\ outbound' = Append(outbound, command)
    /\ command' = NoCommand
    /\ pending' = TRUE
    /\ engine' = "top"
    /\ UNCHANGED <<NotEngine, shutdownRequested, inbound, efdEdge>>

EnginePushRequeues ==
    /\ engine = "spin"
    /\ IF Len(outbound) < OutboundCapacity
       THEN outbound' = Append(outbound, command) /\ UNCHANGED inbound
       ELSE inbound' = Append(inbound, command) /\ UNCHANGED outbound
    /\ command' = NoCommand
    /\ pending' = TRUE
    /\ engine' = "top"
    /\ UNCHANGED <<NotEngine, shutdownRequested, efdEdge>>

(* The spin on size() ends and the push follows; SpscRingBuffer shows that *)
(* the push cannot fail then (CheckedPushSucceeds).  note_response.        *)
EnginePush ==
    /\ engine = "spin"
    /\ Len(outbound) < OutboundCapacity
    /\ outbound' = Append(outbound, command)
    /\ command' = NoCommand
    /\ pending' = TRUE
    /\ engine' = "top"
    /\ UNCHANGED <<NotEngine, shutdownRequested, inbound, efdEdge>>

(* The wakeup behind the loop.                                             *)
FinalNotify ==
    /\ engine = "final"
    /\ efdEdge' = (efdEdge \/ pending)
    /\ pending' = FALSE
    /\ engine' = "request"
    /\ UNCHANGED <<NotEngine, command, shutdownRequested, inbound, outbound>>

(* request_shutdown: the flag, then the write that unblocks epoll_wait.    *)
RequestShutdown ==
    /\ engine = "request"
    /\ shutdownRequested' = TRUE
    /\ engine' = "wake"
    /\ UNCHANGED <<NotEngine, command, pending, inbound, outbound, efdEdge>>

(* Mutated form: the flag alone.                                           *)
NoWakeForShutdown ==
    /\ engine = "wake"
    /\ engine' = "join"
    /\ UNCHANGED <<NotEngine, command, pending, shutdownRequested, inbound,
                   outbound, efdEdge>>

WakeForShutdown ==
    /\ engine = "wake"
    /\ efdEdge' = TRUE
    /\ engine' = "join"
    /\ UNCHANGED <<NotEngine, command, pending, shutdownRequested, inbound,
                   outbound>>

Join ==
    /\ engine = "join" /\ io = "exited"
    /\ engine' = "done"
    /\ UNCHANGED <<NotEngine, command, pending, shutdownRequested, inbound,
                   outbound, efdEdge>>

EngineStep ==
    \/ EngineTop \/ EnginePop \/ EngineIdle \/ EnginePush
    \/ FinalNotify \/ RequestShutdown \/ WakeForShutdown \/ Join

Terminated == engine = "done" /\ UNCHANGED vars

Next ==
    \/ \E c \in Clients : ClientSends(c)
    \/ Signal
    \/ IoStep
    \/ EngineStep
    \/ Terminated

Spec == Init /\ [][Next]_vars

(* Both threads keep running: the engine thread yields but never blocks,   *)
(* and the I/O thread blocks only in epoll_wait with nothing ready.        *)
FairSpec == Spec /\ WF_vars(IoStep) /\ WF_vars(EngineStep)

-----------------------------------------------------------------------------
Frame == Clients \X (1..MaxFrames)

(* The program counters, flags and buffers hold what the code can put      *)
(* there.                                                                  *)
TypeOK ==
    /\ sent \in [Clients -> 0..MaxFrames]
    /\ read \in [Clients -> 0..MaxFrames]
    /\ \A c \in Clients : read[c] <= sent[c]
    /\ replies \in [Clients -> Seq([frame : 1..MaxFrames,
                                    kind : {"error", "busy", "response"}])]
    /\ inbound \in Seq(Frame)
    /\ outbound \in Seq(Frame)
    /\ efdEdge \in BOOLEAN /\ pending \in BOOLEAN
    /\ gShutdown \in BOOLEAN /\ shutdownRequested \in BOOLEAN
    /\ io \in {"top", "wait", "batch", "read", "drain", "drained", "exited"}
    /\ batch \subseteq Clients \union {Eventfd}
    /\ current = NoConnection \/ current \in Frame
    /\ io = "read" => current \in Frame
    /\ engine \in {"top", "pop", "idle", "spin", "final", "request", "wake",
                   "join", "done"}
    /\ IF engine = "spin" THEN command \in Frame ELSE command = NoCommand

(* Everything between the frame handler and the drain handler, oldest      *)
(* first.                                                                  *)
InFlight == outbound \o (IF engine = "spin" THEN <<command>> ELSE <<>>) \o inbound

Occurrences(c, n) ==
    Cardinality({i \in DOMAIN replies[c] : replies[c][i].frame = n})
      + Cardinality({i \in DOMAIN InFlight : InFlight[i] = <<c, n>>})

(* Every frame the I/O thread has taken from a client is answered once or  *)
(* is in a ring or with the engine thread, and never both: a full inbound  *)
(* ring, a full outbound ring and a parse error neither lose nor repeat    *)
(* one (ADR-006, Phase 11 R1), and neither ring ever holds more than its   *)
(* capacity.  This is about the server as it runs.  What is still in the   *)
(* rings when both threads have left their loops is never answered.        *)
EveryFrameAccounted ==
    /\ \A c \in Clients : \A n \in 1..MaxFrames :
         Occurrences(c, n) = IF n <= read[c] THEN 1 ELSE 0
    /\ Len(inbound) <= InboundCapacity /\ Len(outbound) <= OutboundCapacity

(* The responses of the engine reach each client in the order of its       *)
(* frames.  (Errors and "system busy" are sent at once and may overtake.)  *)
ResponsesInOrder ==
    \A c \in Clients :
        LET answered == {i \in DOMAIN replies[c] : replies[c][i].kind = "response"}
            own == {i \in DOMAIN InFlight : InFlight[i][1] = c}
        IN  /\ \A i, j \in answered : i < j => replies[c][i].frame < replies[c][j].frame
            /\ \A i \in answered, j \in own : replies[c][i].frame < InFlight[j][2]
            /\ \A i, j \in own : i < j => InFlight[i][2] < InFlight[j][2]

(* A response in the outbound ring is never forgotten by the coalesced     *)
(* wakeup: the coalescer still owes the write, or it is written, or the    *)
(* I/O thread is on its way to the drain, or it has left the loop.         *)
NoLostWakeup ==
    outbound # <<>> =>
        \/ pending \/ efdEdge
        \/ Eventfd \in batch \/ io \in {"drain", "exited"}

(* Every frame of a client is answered, unless the server is shut down or  *)
(* the engine thread comes to wait for room in the outbound ring.          *)
AllAnswered ==
    \A c \in Clients : \A n \in 1..MaxFrames :
        sent[c] >= n ~> \/ \E i \in DOMAIN replies[c] : replies[c][i].frame = n
                        \/ gShutdown
                        \/ engine = "spin" /\ Len(outbound) = OutboundCapacity

(* After SIGINT or SIGTERM both threads leave their loops and join, even   *)
(* when the engine thread was waiting for room in the outbound ring.       *)
ShutdownCompletes == gShutdown ~> engine = "done"

(* The engine thread, once it waits for room in the outbound ring, gets it *)
(* (tests/r8_spin_test.cpp, ADR-006).  Violated: the I/O thread is only    *)
(* woken when the inbound ring reads empty, which cannot happen while the  *)
(* engine thread waits.                                                    *)
SpinEnds == engine = "spin" ~> engine # "spin"
=============================================================================
