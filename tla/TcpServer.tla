----------------------------- MODULE TcpServer -----------------------------
(* The connections of TcpServer (adapters/tcp/tcp_server.cpp): accept,     *)
(* framing, write buffers with back-pressure, close, and the edge-triggered *)
(* epoll loop, with the frame and drain handlers main.cpp installs.  The   *)
(* kernel is modelled from how the server uses it: accept returns the      *)
(* lowest free descriptor, a descriptor becomes ready when something       *)
(* happens on it or when epoll_ctl finds it ready, and epoll_wait reports  *)
(* what holds when it returns, once.                                       *)
(* The wire carries units: "cmd" and "bad" are, or complete, a frame that  *)
(* parses or does not, "part" is the beginning of one, "huge" the header   *)
(* of a frame over the limit.  A response is two units, so that send may   *)
(* take a part of it, named by the client it is for.                       *)
EXTENDS Integers, Sequences, FiniteSets

CONSTANTS Peers,           \* remote ends, numbered; each connects at most once
          Fds,             \* descriptors left for connections
          Units,           \* what peers send
          MaxUnits,        \* how many units the peers send at most
          SendRoom,        \* what the kernel buffers towards a peer
          MaxWriteBuffer,  \* max_write_buffer_bytes_; 0 disables the bound
          InboundCapacity, \* of the inbound ring
          NoPeer, NoFd, NoConnection

ASSUME FdsAssumption == Fds \subseteq Nat \ {0} /\ Peers \subseteq Nat
ASSUME RoomAssumption == SendRoom \in Nat \ {0} /\ MaxWriteBuffer \in Nat
ASSUME PeersAssumption == IsFiniteSet(Peers)

Listener == 0
Eventfd == -1
Ids == 1..Cardinality(Peers)

(* What is known of a remote end, and a Connection.                        *)
PeerStates ==
    [state : {"new", "queued", "open", "closed"}, fin : {"no", "eof", "rst"},
     mid : BOOLEAN, unread : Seq(Units), room : 0..SendRoom, got : Seq(Ids)]
Connections == [id : Ids, rbuf : Seq(Units), wbuf : Seq(Ids)]

ASSUME NothingAssumption ==
    NoPeer \notin Peers /\ NoFd \notin Fds /\ NoConnection \notin Connections

VARIABLES
    sent,         \* units sent so far: a bound of the model
    peer,         \* peer -> [state, fin, mid, unread, room, got]
    backlog,      \* the listener's queue of established connections
    sock,         \* the kernel's table: descriptor -> peer
    armed,        \* descriptors registered with EPOLLOUT
    ready,        \* epoll's ready list
    efd,          \* the eventfd's counter is not zero
    conns,        \* connections_: descriptor -> [id, rbuf, wbuf]
    clientToFd,   \* client_to_fd_
    nextId,       \* next_client_id_
    inbound, outbound, \* client ids of commands and responses in the rings
    stop,         \* shutdown_requested_
    batch,        \* events returned by epoll_wait and not yet handled
    at,           \* where the I/O thread is
    cur,          \* the event being handled: [fd, flags, id, buf]
    out           \* the flush in progress: [fd, ret], ret where it returns to

kernelVars == <<sent, peer, backlog, sock, armed, ready, efd>>
tableVars == <<conns, clientToFd, nextId>>
ringVars == <<inbound, outbound, stop>>
loopVars == <<batch, at, cur, out>>
vars == <<kernelVars, tableVars, ringVars, loopVars>>

NoEvent == [fd |-> NoFd, flags |-> {}, id |-> 0, buf |-> <<>>]
NoFlush == [fd |-> NoFd, ret |-> "batch"]

(* A peer with nothing in flight.                                          *)
Peer(state, got) ==
    [state |-> state, fin |-> "no", mid |-> FALSE, unread |-> <<>>, room |-> SendRoom,
     got |-> got]

Init ==
    /\ peer = [p \in Peers |-> Peer("new", <<>>)] /\ sent = 0
    /\ backlog = <<>> /\ sock = [f \in Fds |-> NoPeer]
    /\ armed = {} /\ ready = {} /\ efd = FALSE
    /\ conns = [f \in Fds |-> NoConnection] /\ clientToFd = [i \in Ids |-> NoFd]
    /\ nextId = 1
    /\ inbound = <<>> /\ outbound = <<>> /\ stop = FALSE
    /\ batch = {} /\ at = "batch" /\ cur = NoEvent /\ out = NoFlush

-----------------------------------------------------------------------------
(* The world outside the I/O thread.                                       *)

FdOf(p) == {f \in Fds : sock[f] = p}

Readable(x) == x.unread # <<>> \/ x.fin # "no"

(* Peers differ in nothing but their numbers, in whose order they connect. *)
Connect(p) ==
    /\ peer[p].state = "new" /\ \A q \in Peers : q < p => peer[q].state # "new"
    /\ peer' = [peer EXCEPT ![p].state = "queued"]
    /\ backlog' = Append(backlog, p)
    /\ ready' = ready \union {Listener}
    /\ UNCHANGED <<sent, sock, armed, efd, tableVars, ringVars, loopVars>>

Transmit(p, unit) ==
    /\ peer[p].state \in {"queued", "open"} /\ peer[p].fin = "no"
    /\ sent < MaxUnits /\ sent' = sent + 1
    /\ peer[p].mid => unit \in {"cmd", "bad"}
    /\ peer' = [peer EXCEPT ![p].unread = Append(@, unit),
                            ![p].mid = (unit = "part")]
    /\ ready' = ready \union FdOf(p)
    /\ UNCHANGED <<backlog, sock, armed, efd, tableVars, ringVars, loopVars>>

(* The peer closes its end, or the connection is reset.                    *)
Finish(p, how) ==
    /\ peer[p].state \in {"queued", "open"} /\ peer[p].fin = "no"
    /\ peer' = [peer EXCEPT ![p].fin = how,
                            ![p].unread = IF how = "rst" THEN <<>> ELSE @]
    /\ ready' = ready \union FdOf(p)
    /\ UNCHANGED <<sent, backlog, sock, armed, efd, tableVars, ringVars, loopVars>>

(* The peer reads what the kernel holds for it.                            *)
Consume(p) ==
    /\ peer[p].state = "open" /\ peer[p].fin # "rst"
    /\ peer[p].room < SendRoom
    /\ peer' = [peer EXCEPT ![p].room = SendRoom]
    /\ ready' = ready \union (FdOf(p) \intersect armed)
    /\ UNCHANGED <<sent, backlog, sock, armed, efd, tableVars, ringVars, loopVars>>

(* The engine thread answers a command and wakes the I/O thread; its steps *)
(* are in ExchangeServer.                                                  *)
Respond ==
    /\ inbound # <<>>
    /\ inbound' = Tail(inbound) /\ outbound' = Append(outbound, Head(inbound))
    /\ efd' = TRUE /\ ready' = ready \union {Eventfd}
    /\ UNCHANGED <<sent, peer, backlog, sock, armed, tableVars, stop, loopVars>>

(* request_shutdown *)
RequestShutdown ==
    /\ ~stop
    /\ stop' = TRUE
    /\ efd' = TRUE /\ ready' = ready \union {Eventfd}
    /\ UNCHANGED <<sent, peer, backlog, sock, armed, tableVars, inbound, outbound, loopVars>>

-----------------------------------------------------------------------------
(* epoll and the run loop.                                                 *)

(* What polling a connected descriptor reports, out of EPOLLIN, EPOLLOUT   *)
(* and EPOLLHUP or EPOLLERR.                                               *)
Flags(f, registered) ==
    LET x == peer[sock[f]]
    IN  {flag \in {"in", "out", "hup"} :
            \/ flag = "in" /\ Readable(x)
            \/ flag = "out" /\ f \in registered /\ x.room > 0
            \/ flag = "hup" /\ x.fin = "rst"}

(* The events epoll_wait returns.                                          *)
Reported ==
    {[fd |-> f, flags |-> Flags(f, armed)] :
        f \in {g \in ready \ {Listener, Eventfd} : Flags(g, armed) # {}}}
    \union {[fd |-> Listener, flags |-> {"in"}] :
               f \in {g \in ready : g = Listener /\ backlog # <<>>}}
    \union {[fd |-> Eventfd, flags |-> {"in"}] :
               f \in {g \in ready : g = Eventfd /\ efd}}

EpollWait ==
    /\ at = "wait"
    /\ Reported # {}
    /\ batch' = Reported
    /\ ready' = {}
    /\ at' = "batch"
    /\ UNCHANGED <<sent, peer, backlog, sock, armed, efd, tableVars, ringVars, cur, out>>

(* The end of run(): all connections are closed.                           *)
CloseAll ==
    /\ peer' = [p \in Peers |-> IF peer[p].state = "open" THEN Peer("closed", peer[p].got) ELSE peer[p]]
    /\ sock' = [f \in Fds |-> NoPeer] /\ armed' = {} /\ ready' = ready \ Fds
    /\ conns' = [f \in Fds |-> NoConnection] /\ clientToFd' = [i \in Ids |-> NoFd]
    /\ batch' = {} /\ at' = "stopped"

(* The batch is done, and shutdown_requested_ has been set meanwhile.      *)
LeaveLoop ==
    /\ at = "batch" /\ batch = {} /\ stop
    /\ CloseAll
    /\ UNCHANGED <<sent, backlog, efd, nextId, ringVars, cur, out>>

(* Mutated form: the client's routing entry survives its connection.       *)
CloseKeepsRoute(f) ==
    /\ peer' = [p \in Peers |-> IF p = sock[f] THEN Peer("closed", peer[p].got) ELSE peer[p]]
    /\ sock' = [sock EXCEPT ![f] = NoPeer]
    /\ armed' = armed \ {f} /\ ready' = ready \ {f}
    /\ conns' = [conns EXCEPT ![f] = NoConnection]
    /\ UNCHANGED clientToFd

(* close_connection: also of a descriptor the server knows nothing about.  *)
Close(f) ==
    /\ peer' = [p \in Peers |-> IF p = sock[f] THEN Peer("closed", peer[p].got) ELSE peer[p]]
    /\ sock' = [sock EXCEPT ![f] = NoPeer]
    /\ armed' = armed \ {f} /\ ready' = ready \ {f}
    /\ conns' = [conns EXCEPT ![f] = NoConnection]
    /\ clientToFd' = [i \in Ids |-> IF conns[f] # NoConnection /\ conns[f].id = i
                                    THEN NoFd ELSE clientToFd[i]]

(* A connection, or a wakeup: handle_eventfd first clears the counter.     *)
HandleSpecial(e) ==
    /\ at = "batch" /\ e.fd \in {Listener, Eventfd}
    /\ batch' = batch \ {e}
    /\ at' = IF e.fd = Listener THEN "accept" ELSE "drain"
    /\ efd' = (efd /\ e.fd # Eventfd)
    /\ UNCHANGED <<sent, peer, backlog, sock, armed, ready, tableVars, ringVars, cur, out>>

HandleHangup(e) ==
    /\ at = "batch"
    /\ e.fd \in Fds /\ "hup" \in e.flags
    /\ Close(e.fd)
    /\ batch' = batch \ {e}
    /\ UNCHANGED <<sent, backlog, efd, nextId, ringVars, at, cur, out>>

BatchDone ==
    /\ at = "batch" /\ batch = {} /\ ~stop
    /\ at' = "wait"
    /\ UNCHANGED <<kernelVars, tableVars, ringVars, batch, cur, out>>

-----------------------------------------------------------------------------
(* handle_accept.                                                          *)

FreeFds == {f \in Fds : sock[f] = NoPeer}

Lowest(S) == CHOOSE f \in S : \A g \in S : f <= g

(* Mutated form: the id of a connection is not used up.                    *)
SameIdAgain == nextId

(* next_client_id_++ *)
FollowingId == nextId + 1

AcceptOne ==
    /\ at = "accept"
    /\ backlog # <<>> /\ FreeFds # {}
    /\ LET f == Lowest(FreeFds)
           p == Head(backlog)
       IN  /\ sock' = [sock EXCEPT ![f] = p]
           /\ peer' = [peer EXCEPT ![p].state = "open"]
           /\ conns' = [conns EXCEPT ![f] = [id |-> nextId, rbuf |-> <<>>, wbuf |-> <<>>]]
           /\ clientToFd' = [clientToFd EXCEPT ![nextId] = f]
           /\ ready' = IF Readable(peer[p]) THEN ready \union {f} ELSE ready
    /\ backlog' = Tail(backlog)
    /\ nextId' = FollowingId
    /\ UNCHANGED <<sent, armed, efd, ringVars, loopVars>>

(* setsockopt fails, or, the id being taken, the registration with epoll.  *)
AcceptFails ==
    /\ at = "accept"
    /\ backlog # <<>> /\ FreeFds # {}
    /\ peer' = [peer EXCEPT ![Head(backlog)] = Peer("closed", <<>>)]
    /\ backlog' = Tail(backlog)
    /\ nextId' \in {nextId, FollowingId}
    /\ UNCHANGED <<sent, sock, armed, ready, efd, conns, clientToFd, ringVars, loopVars>>

(* EAGAIN, or no descriptor left.                                          *)
AcceptDone ==
    /\ at = "accept"
    /\ backlog # <<>> => FreeFds = {}
    /\ at' = "batch"
    /\ UNCHANGED <<kernelVars, tableVars, ringVars, batch, cur, out>>

-----------------------------------------------------------------------------
(* handle_write, flush_write_buffer and send_to_client.  out.ret is what   *)
(* the I/O thread goes on with.                                            *)

(* epoll_ctl(MOD) polls the descriptor anew.                               *)
Register(f, registered) ==
    /\ armed' = registered
    /\ ready' = IF Flags(f, registered) # {} THEN ready \union {f} ELSE ready

FlushSend ==
    /\ at = "flush"
    /\ LET p == sock[out.fd]
           w == conns[out.fd].wbuf
           n == IF Len(w) < peer[p].room THEN Len(w) ELSE peer[p].room
       IN  /\ n > 0 /\ peer[p].fin # "rst"
           /\ peer' = [peer EXCEPT ![p].got = @ \o SubSeq(w, 1, n), ![p].room = @ - n]
           /\ conns' = [conns EXCEPT ![out.fd].wbuf = SubSeq(w, n + 1, Len(w))]
    /\ UNCHANGED <<sent, backlog, sock, armed, ready, efd, clientToFd, nextId, ringVars, loopVars>>

(* Mutated form: a full socket is left without arm_epollout.               *)
FlushGivesUp ==
    /\ at = "flush"
    /\ conns[out.fd].wbuf # <<>>
    /\ peer[sock[out.fd]].fin # "rst" /\ peer[sock[out.fd]].room = 0
    /\ at' = out.ret /\ out' = NoFlush
    /\ UNCHANGED <<kernelVars, tableVars, ringVars, batch, cur>>

(* EAGAIN *)
FlushBlocked ==
    /\ at = "flush"
    /\ conns[out.fd].wbuf # <<>>
    /\ peer[sock[out.fd]].fin # "rst" /\ peer[sock[out.fd]].room = 0
    /\ at' = "arm"
    /\ UNCHANGED <<kernelVars, tableVars, ringVars, batch, cur, out>>

ArmEpollout ==
    /\ at = "arm"
    /\ Register(out.fd, armed \union {out.fd})
    /\ at' = out.ret /\ out' = NoFlush
    /\ UNCHANGED <<sent, peer, backlog, sock, efd, tableVars, ringVars, batch, cur>>

FlushError ==
    /\ at = "flush"
    /\ conns[out.fd].wbuf # <<>> /\ peer[sock[out.fd]].fin = "rst"
    /\ Close(out.fd)
    /\ at' = out.ret /\ out' = NoFlush
    /\ UNCHANGED <<sent, backlog, efd, nextId, ringVars, batch, cur>>

FlushDone ==
    /\ at = "flush"
    /\ conns[out.fd].wbuf = <<>>
    /\ Register(out.fd, armed \ {out.fd})
    /\ at' = out.ret /\ out' = NoFlush
    /\ UNCHANGED <<sent, peer, backlog, sock, efd, tableVars, ringVars, batch, cur>>

(* Mutated form: the bound is compared before the response is counted.     *)
OverCapLate(pending) == MaxWriteBuffer # 0 /\ pending - 2 > MaxWriteBuffer

OverCap(pending) == MaxWriteBuffer # 0 /\ pending > MaxWriteBuffer

SendToClient(i, ret) ==
    LET f == clientToFd[i]
        pending == conns[f].wbuf \o <<i, i>>
    IN  \/ /\ f = NoFd
           /\ at' = ret
           /\ UNCHANGED <<peer, sock, armed, ready, conns, clientToFd, out>>
        \/ /\ f # NoFd /\ OverCap(Len(pending))
           /\ Close(f)
           /\ at' = ret
           /\ UNCHANGED out
        \/ /\ f # NoFd /\ ~OverCap(Len(pending))
           /\ conns' = [conns EXCEPT ![f].wbuf = pending]
           /\ at' = "flush" /\ out' = [fd |-> f, ret |-> ret]
           /\ UNCHANGED <<peer, sock, armed, ready, clientToFd>>

(* Mutated form: EPOLLOUT is not acted on.                                 *)
IgnoreWrite(f, flags, live) ==
    /\ at' = "batch" /\ cur' = NoEvent
    /\ UNCHANGED out

(* How the loop goes on after EPOLLIN: with handle_write if the event has  *)
(* EPOLLOUT and the connection is still there, or with the next event.     *)
HandleWrite(f, flags, live) ==
    /\ cur' = NoEvent
    /\ IF "out" \in flags /\ live
       THEN at' = "flush" /\ out' = [fd |-> f, ret |-> "batch"]
       ELSE at' = "batch" /\ UNCHANGED out

-----------------------------------------------------------------------------
(* The response drain handler.                                             *)

DrainOne ==
    /\ at = "drain" /\ outbound # <<>>
    /\ outbound' = Tail(outbound)
    /\ SendToClient(Head(outbound), "drain")
    /\ UNCHANGED <<sent, backlog, efd, nextId, inbound, stop, batch, cur>>

DrainDone ==
    /\ at = "drain" /\ outbound = <<>>
    /\ ~stop
    /\ at' = "batch"
    /\ UNCHANGED <<kernelVars, tableVars, ringVars, batch, cur, out>>

DrainedAtShutdown ==
    /\ at = "drain" /\ outbound = <<>>
    /\ stop
    /\ CloseAll
    /\ UNCHANGED <<sent, backlog, efd, nextId, ringVars, cur, out>>

-----------------------------------------------------------------------------
(* handle_read.  While it runs, its connection's read buffer is cur.buf.   *)

Event(e) ==
    /\ at = "batch" /\ e.fd \in Fds /\ "hup" \notin e.flags
    /\ batch' = batch \ {e}

(* No EPOLLIN, or no such connection.                                      *)
NothingToRead(e) ==
    /\ Event(e)
    /\ "in" \in e.flags => conns[e.fd] = NoConnection
    /\ HandleWrite(e.fd, e.flags, conns[e.fd] # NoConnection)
    /\ UNCHANGED <<kernelVars, tableVars, ringVars>>

(* Mutated form: one read per event, what is left is not drained.          *)
ReadOnce(unread) == <<SubSeq(unread, 1, 1), SubSeq(unread, 2, Len(unread))>>

(* What the loop of reads takes, and what it leaves in the socket.         *)
ReadAll(unread) == <<unread, <<>>>>

HandleRead(e) ==
    /\ Event(e)
    /\ "in" \in e.flags /\ conns[e.fd] # NoConnection
    /\ LET p == sock[e.fd]
           c == conns[e.fd]
           taken == ReadAll(peer[p].unread)
       IN  /\ peer[p].fin = "no"
           /\ peer' = [peer EXCEPT ![p].unread = taken[2]]
           /\ cur' = [fd |-> e.fd, flags |-> e.flags, id |-> c.id, buf |-> c.rbuf \o taken[1]]
    /\ at' = "frames"
    /\ UNCHANGED <<sent, backlog, sock, armed, ready, efd, tableVars, ringVars, out>>

(* EOF or an error: what was buffered or just read goes with the connection. *)
HandleEof(e) ==
    /\ Event(e)
    /\ "in" \in e.flags /\ conns[e.fd] # NoConnection
    /\ peer[sock[e.fd]].fin # "no"
    /\ Close(e.fd)
    /\ HandleWrite(e.fd, e.flags, FALSE)
    /\ UNCHANGED <<sent, backlog, efd, nextId, ringVars>>

(* The length in units of the first frame of a buffer, 0 when incomplete.  *)
FrameLength(buf) ==
    IF buf = <<>> \/ buf = <<"part">> THEN 0 ELSE IF Head(buf) = "part" THEN 2 ELSE 1

FramesDone ==
    /\ at = "frames" /\ FrameLength(cur.buf) = 0
    /\ conns' = [conns EXCEPT ![cur.fd] = IF @ = NoConnection THEN @
                                          ELSE [@ EXCEPT !.rbuf = cur.buf]]
    /\ HandleWrite(cur.fd, cur.flags, conns[cur.fd] # NoConnection)
    /\ UNCHANGED <<kernelVars, clientToFd, nextId, ringVars, batch>>

OversizedFrame ==
    /\ at = "frames" /\ cur.buf # <<>> /\ Head(cur.buf) = "huge"
    /\ Close(cur.fd)
    /\ HandleWrite(cur.fd, cur.flags, FALSE)
    /\ UNCHANGED <<sent, backlog, efd, nextId, ringVars, batch>>

(* process_frame and the erase that follows it.                            *)
TakeFrame(kinds) ==
    LET n == FrameLength(cur.buf)
    IN  /\ at = "frames" /\ n > 0
        /\ cur.buf[n] \in kinds
        /\ cur' = [cur EXCEPT !.buf = SubSeq(@, n + 1, Len(@))]

CommandFrame ==
    /\ TakeFrame({"cmd"})
    /\ Len(inbound) < InboundCapacity
    /\ inbound' = Append(inbound, cur.id)
    /\ UNCHANGED <<kernelVars, tableVars, outbound, stop, batch, at, out>>

(* A parse error, or the inbound ring is full: answered at once.           *)
RefusedFrame ==
    /\ TakeFrame(IF Len(inbound) < InboundCapacity THEN {"bad"} ELSE {"bad", "cmd"})
    /\ SendToClient(cur.id, "frames")
    /\ UNCHANGED <<sent, backlog, efd, nextId, ringVars, batch>>

(* The answer closed the connection: handle_read goes on with a destroyed  *)
(* Connection.  What it then finds there is undefined: an empty buffer     *)
(* here, the rest of the old one where the actions above go on.            *)
DestroyedConnection ==
    /\ at = "frames" /\ conns[cur.fd] = NoConnection
    /\ HandleWrite(cur.fd, cur.flags, FALSE)
    /\ UNCHANGED <<kernelVars, tableVars, ringVars, batch>>

-----------------------------------------------------------------------------

IoStep ==
    \/ EpollWait \/ LeaveLoop \/ BatchDone
    \/ \E e \in batch : \/ HandleSpecial(e) \/ HandleHangup(e) \/ NothingToRead(e)
                        \/ HandleRead(e) \/ HandleEof(e)
    \/ AcceptOne \/ AcceptFails \/ AcceptDone
    \/ FlushSend \/ FlushBlocked \/ ArmEpollout \/ FlushError \/ FlushDone
    \/ DrainOne \/ DrainDone \/ DrainedAtShutdown
    \/ FramesDone \/ OversizedFrame \/ CommandFrame \/ RefusedFrame \/ DestroyedConnection

(* Nothing is followed beyond the end of run().                            *)
Environment ==
    /\ at # "stopped"
    /\ \/ \E p \in Peers : \/ Connect(p) \/ Consume(p)
                           \/ \E unit \in Units : Transmit(p, unit)
                           \/ \E how \in {"eof", "rst"} : Finish(p, how)
       \/ Respond \/ RequestShutdown

Stopped == at = "stopped" /\ UNCHANGED vars

Next == IoStep \/ Environment \/ Stopped

Spec == Init /\ [][Next]_vars

(* The I/O thread is scheduled, and clients go on reading.                 *)
FairSpec == Spec /\ WF_vars(IoStep) /\ \A p \in Peers : WF_vars(Consume(p))

-----------------------------------------------------------------------------

Connected == {f \in Fds : conns[f] # NoConnection}

(* Types of the state. *)
TypeOK ==
    /\ peer \in [Peers -> PeerStates] /\ backlog \in Seq(Peers)
    /\ sock \in [Fds -> Peers \union {NoPeer}]
    /\ armed \subseteq Fds /\ ready \subseteq Fds \union {Listener, Eventfd}
    /\ efd \in BOOLEAN /\ stop \in BOOLEAN
    /\ conns \in [Fds -> Connections \union {NoConnection}]
    /\ clientToFd \in [Ids -> Fds \union {NoFd}]
    /\ nextId \in 1..(Cardinality(Peers) + 1)
    /\ inbound \in Seq(Ids) /\ outbound \in Seq(Ids)
    /\ batch \subseteq [fd : Fds \union {Listener, Eventfd}, flags : SUBSET {"in", "out", "hup"}]
    /\ at \in {"wait", "batch", "accept", "drain", "frames", "flush", "arm", "stopped"}
    /\ cur \in [fd : Fds \union {NoFd}, flags : SUBSET {"in", "out", "hup"},
               id : Ids \union {0}, buf : Seq(Units)]
    /\ out \in [fd : Fds \union {NoFd}, ret : {"batch", "frames", "drain"}]

(* connections_, client_to_fd_, the kernel's descriptors and epoll's       *)
(* registrations stay in step whichever path closes a connection: a client *)
(* id routes to exactly its own live connection, a flush under way is of   *)
(* one, and no closed descriptor stays armed or ready.  No write buffer    *)
(* grows past the bound of send_to_client.                                 *)
RoutingConsistent ==
    /\ \A i \in Ids, f \in Fds : clientToFd[i] = f <=> f \in Connected /\ conns[f].id = i
    /\ \A f \in Fds : f \in Connected <=> sock[f] # NoPeer
    /\ \A f \in Connected : conns[f].id < nextId
    /\ armed \subseteq Connected /\ ready \intersect Fds \subseteq Connected
    /\ at \in {"flush", "arm"} => out.fd \in Connected
    /\ MaxWriteBuffer # 0 => \A f \in Connected : Len(conns[f].wbuf) <= MaxWriteBuffer

Received(p) == {peer[p].got[k] : k \in 1..Len(peer[p].got)}

(* A response reaches no peer but the one whose frame it answers, also     *)
(* when that one is gone and its descriptor number has been given to       *)
(* another connection before the response is drained.                      *)
NoMisdelivery ==
    /\ \A p, q \in Peers : p # q => Received(p) \intersect Received(q) = {}
    /\ \A f \in Connected : Received(sock[f]) \subseteq {conns[f].id}

(* Output left in a write buffer when the I/O thread goes to wait has      *)
(* EPOLLOUT armed, and epoll knows if the socket can take more by then: a  *)
(* peer that reads between EAGAIN and epoll_ctl is not missed.  Bytes, an  *)
(* end of stream or a reset that the edge-triggered handlers have not      *)
(* taken by then will raise an event, and no complete frame is left in a   *)
(* read buffer.                                                            *)
NothingStuck ==
    at = "wait" => \A f \in Connected :
        /\ conns[f].wbuf # <<>> => /\ f \in armed
                                   /\ peer[sock[f]].room > 0 => f \in ready
        /\ Readable(peer[sock[f]]) => f \in ready
        /\ FrameLength(conns[f].rbuf) = 0

(* What is buffered for a client that goes on reading is sent, unless the  *)
(* connection is closed.                                                   *)
OutputDrains ==
    \A f \in Fds : (f \in Connected /\ conns[f].wbuf # <<>>)
                       ~> (f \notin Connected \/ conns[f].wbuf = <<>>)
=============================================================================
