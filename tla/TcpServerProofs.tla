-------------------------- MODULE TcpServerProofs ---------------------------
(* The I/O thread of TcpServer for every number of peers, descriptors and  *)
(* buffered units: its tables agree, a response goes to its own client,    *)
(* and the edge-triggered loop leaves nothing behind when it waits.        *)
EXTENDS TcpServer, TLAPS

-----------------------------------------------------------------------------
(* The inductive invariant.                                                *)

(* The peers that accept has taken from the backlog.                       *)
Accepted == {p \in Peers : peer[p].state \in {"open", "closed"}}

(* The backlog holds queued peers, each once; a descriptor is of an open   *)
(* peer, no two of the same; ids are not used up before peers are.         *)
Kernel ==
    /\ \A i \in DOMAIN backlog : peer[backlog[i]].state = "queued"
    /\ \A i, j \in DOMAIN backlog : backlog[i] = backlog[j] => i = j
    /\ \A f \in Fds : sock[f] # NoPeer => peer[sock[f]].state = "open"
    /\ \A f, g \in Fds : sock[f] = sock[g] /\ sock[f] # NoPeer => f = g
    /\ nextId <= Cardinality(Accepted) + 1

(* p has received the unit i.                                              *)
Has(p, i) == \E k \in 1..Len(peer[p].got) : peer[p].got[k] = i

(* A write buffer holds units for its own client.                          *)
Addressed == \A f \in Connected : \A k \in 1..Len(conns[f].wbuf) : conns[f].wbuf[k] = conns[f].id

(* A peer receives nothing before it is accepted.                          *)
Unheard == \A p \in Peers : peer[p].state \in {"new", "queued"} => peer[p].got = <<>>

(* What a peer has received is of the one connection it had.               *)
Issued == \A p \in Peers, i \in Ids : Has(p, i) => i < nextId
Single == \A p, q \in Peers, i \in Ids : Has(p, i) /\ Has(q, i) => p = q
Owned == \A f \in Connected, p \in Peers, i \in Ids :
            Has(p, i) => (p = sock[f] <=> i = conns[f].id)

Delivery == Addressed /\ Unheard /\ Issued /\ Single /\ Owned

(* handle_read is under way.                                               *)
Reading == at = "frames" \/ (at \in {"flush", "arm"} /\ out.ret = "frames")

(* An event the loop has still to act on will read, or will write.         *)
ReadPending(f) == \E e \in batch : e.fd = f /\ ("in" \in e.flags \/ "hup" \in e.flags)
WritePending(f) ==
    \/ \E e \in batch : e.fd = f /\ ("out" \in e.flags \/ "hup" \in e.flags)
    \/ cur.fd = f /\ "out" \in cur.flags
Flushing(f) == at \in {"flush", "arm"} /\ out.fd = f

(* What the loop owes a connection: no whole frame is left in its read     *)
(* buffer, what can be read raises an event, and so does room for what is  *)
(* in its write buffer.                                                    *)
Served(f) ==
    /\ FrameLength(conns[f].rbuf) = 0
    /\ Readable(peer[sock[f]]) => f \in ready \/ ReadPending(f)
    /\ conns[f].wbuf # <<>> /\ ~Flushing(f) =>
          /\ f \in armed
          /\ peer[sock[f]].room > 0 => f \in ready \/ WritePending(f)

(* An event is under handling exactly while handle_read runs.              *)
Handling == IF Reading THEN cur.fd \in Fds /\ cur.id \in Ids ELSE cur = NoEvent

Loop ==
    /\ at = "wait" => batch = {}
    /\ Handling
    /\ \A f \in Connected : Served(f)

-----------------------------------------------------------------------------
(* The parts of the invariant that the steps treat alike.                  *)

(* The types of the tables and of the rest of the state.                   *)
TypeTables ==
    /\ peer \in [Peers -> PeerStates] /\ backlog \in Seq(Peers)
    /\ sock \in [Fds -> Peers \union {NoPeer}]
    /\ conns \in [Fds -> Connections \union {NoConnection}]
    /\ clientToFd \in [Ids -> Fds \union {NoFd}]
    /\ nextId \in 1..(Cardinality(Peers) + 1)

Events == [fd : Fds \union {Listener, Eventfd}, flags : SUBSET {"in", "out", "hup"}]
Currents == [fd : Fds \union {NoFd}, flags : SUBSET {"in", "out", "hup"},
             id : Ids \union {0}, buf : Seq(Units)]
Flushes == [fd : Fds \union {NoFd}, ret : {"batch", "frames", "drain"}]

TypeLoop ==
    /\ armed \subseteq Fds /\ ready \subseteq Fds \union {Listener, Eventfd}
    /\ efd \in BOOLEAN /\ stop \in BOOLEAN
    /\ inbound \in Seq(Ids) /\ outbound \in Seq(Ids)
    /\ batch \subseteq Events
    /\ at \in {"wait", "batch", "accept", "drain", "frames", "flush", "arm", "stopped"}
    /\ cur \in Currents /\ out \in Flushes

(* The tables agree on who is connected.                                   *)
Linked ==
    /\ \A i \in Ids, f \in Fds : clientToFd[i] = f <=> f \in Connected /\ conns[f].id = i
    /\ \A f \in Fds : f \in Connected <=> sock[f] # NoPeer
    /\ \A f \in Connected : conns[f].id < nextId

(* Only connections are registered, ready or being flushed.                *)
Registered ==
    /\ armed \subseteq Connected /\ ready \intersect Fds \subseteq Connected
    /\ at \in {"flush", "arm"} => out.fd \in Connected

Bounded == MaxWriteBuffer # 0 => \A f \in Connected : Len(conns[f].wbuf) <= MaxWriteBuffer

Tables == TypeTables /\ Kernel /\ Linked /\ Bounded /\ Delivery

TcpInv == Tables /\ TypeLoop /\ Registered /\ Loop

(* It says what the module states of the types and of the tables.          *)
LEMMA TcpInvIs == TcpInv => TypeOK /\ RoutingConsistent
BY DEF TcpInv, TypeOK, RoutingConsistent, Tables, TypeTables, TypeLoop, Events, Currents, Flushes,
       Linked, Registered, Bounded

(* The special descriptors are not descriptors of connections.             *)
LEMMA SpecialFds == Listener \notin Fds /\ Eventfd \notin Fds /\ NoFd \notin Fds /\ Fds \subseteq Nat
BY FdsAssumption, NothingAssumption DEF Listener, Eventfd

(* What a connection is.                                                   *)
LEMMA ConnectionIs ==
    ASSUME TypeTables, Linked, NEW f \in Connected
    PROVE  /\ f \in Fds /\ conns[f] \in Connections /\ conns[f].id \in Ids
           /\ conns[f].rbuf \in Seq(Units) /\ conns[f].wbuf \in Seq(Ids)
           /\ sock[f] \in Peers /\ peer[sock[f]] \in PeerStates
<1>1. f \in Fds /\ conns[f] # NoConnection
  BY DEF Connected
<1>2. conns[f] \in Connections
  BY <1>1 DEF TypeTables
<1>3. sock[f] \in Peers
  BY <1>1 DEF TypeTables, Linked
<1>4. peer[sock[f]] \in PeerStates
  BY <1>3 DEF TypeTables
<1> QED BY <1>1, <1>2, <1>3, <1>4 DEF Connections

(* What is known of a peer.                                                *)
LEMMA PeerIs ==
    ASSUME TypeTables, NEW p \in Peers
    PROVE  /\ peer[p] \in PeerStates
           /\ peer[p].state \in {"new", "queued", "open", "closed"}
           /\ peer[p].fin \in {"no", "eof", "rst"} /\ peer[p].mid \in BOOLEAN
           /\ peer[p].unread \in Seq(Units) /\ peer[p].room \in 0..SendRoom
           /\ peer[p].got \in Seq(Ids)
<1>1. peer[p] \in PeerStates
  BY DEF TypeTables
<1> QED BY <1>1 DEF PeerStates

(* What the concatenation of two sequences holds.                          *)
LEMMA Joined ==
    ASSUME NEW S, NEW s \in Seq(S), NEW t \in Seq(S)
    PROVE  /\ s \o t \in Seq(S) /\ Len(s \o t) = Len(s) + Len(t)
           /\ \A k \in 1..(Len(s) + Len(t)) :
                 (s \o t)[k] = IF k <= Len(s) THEN s[k] ELSE t[k - Len(s)]
<1>1. s \o t \in Seq(S)
  OBVIOUS
<1>2. Len(s \o t) = Len(s) + Len(t) /\ Len(s) \in Nat /\ Len(t) \in Nat
  OBVIOUS
<1>3. \A k \in 1..Len(s) : (s \o t)[k] = s[k]
  OBVIOUS
<1>4. ASSUME NEW k \in 1..(Len(s) + Len(t)), ~(k <= Len(s)) PROVE (s \o t)[k] = t[k - Len(s)]
  BY <1>2, <1>4
<1> QED BY <1>1, <1>2, <1>3, <1>4

(* What is used of counting peers and of the least descriptor.  Both are  *)
(* proved at the end of the module, where the libraries they need come in. *)
Counting ==
    /\ Cardinality({}) = 0
    /\ \A S \in SUBSET Peers :
          /\ Cardinality(S) \in Nat /\ Cardinality(S) <= Cardinality(Peers)
          /\ \A p \in Peers \ S : Cardinality(S \union {p}) = Cardinality(S) + 1
Ordering == \A S \in SUBSET Fds : S # {} => \E x \in S : \A y \in S : x <= y

(* Peers, ids and counts.                                                  *)
LEMMA Counts ==
    ASSUME Counting
    PROVE  /\ Cardinality(Peers) \in Nat
           /\ Cardinality(Accepted) \in Nat /\ Cardinality(Accepted) <= Cardinality(Peers)
<1>1. Peers \in SUBSET Peers /\ Accepted \in SUBSET Peers
  BY DEF Accepted
<1> QED BY <1>1 DEF Counting

(* While a peer waits in the backlog there is an id for it.                *)
LEMMA IdLeft ==
    ASSUME Counting, TypeTables, Kernel, backlog # <<>>
    PROVE  /\ Head(backlog) \in Peers /\ peer[Head(backlog)].state = "queued"
           /\ Head(backlog) \notin Accepted
           /\ nextId \in Ids
           /\ Cardinality(Accepted \union {Head(backlog)}) = Cardinality(Accepted) + 1
           /\ Tail(backlog) \in Seq(Peers)
           /\ DOMAIN Tail(backlog) = 1..(Len(backlog) - 1)
           /\ \A i \in 1..(Len(backlog) - 1) : /\ Tail(backlog)[i] = backlog[i + 1]
                                               /\ i + 1 \in DOMAIN backlog
           /\ 1 \in DOMAIN backlog /\ Head(backlog) = backlog[1]
<1> DEFINE p == Head(backlog)
<1>1. backlog \in Seq(Peers) /\ Len(backlog) \in Nat \ {0} /\ DOMAIN backlog = 1..Len(backlog)
  BY DEF TypeTables
<1>2. p = backlog[1] /\ 1 \in DOMAIN backlog /\ p \in Peers
  BY <1>1
<1>3. peer[p].state = "queued"
  BY Zenon, <1>2 DEF Kernel
<1>4. p \notin Accepted
  BY <1>3 DEF Accepted
<1>5. Accepted \in SUBSET Peers /\ Accepted \union {p} \in SUBSET Peers /\ p \in Peers \ Accepted
  BY <1>2, <1>4 DEF Accepted
<1>6. Cardinality(Accepted \union {p}) = Cardinality(Accepted) + 1
  BY Zenon, <1>5 DEF Counting
<1>7. Cardinality(Accepted \union {p}) <= Cardinality(Peers)
  BY Zenon, <1>5 DEF Counting
<1>8. nextId \in Nat /\ nextId >= 1 /\ nextId <= Cardinality(Accepted) + 1
  BY Counts DEF TypeTables, Kernel
<1>9. nextId \in Ids
  BY <1>6, <1>7, <1>8, Counts DEF Ids
<1>10. /\ Tail(backlog) \in Seq(Peers) /\ Len(Tail(backlog)) = Len(backlog) - 1
       /\ \A i \in 1..(Len(backlog) - 1) : Tail(backlog)[i] = backlog[i + 1]
  BY <1>1
<1>11. DOMAIN Tail(backlog) = 1..(Len(backlog) - 1)
  BY <1>10
<1>12. \A i \in 1..(Len(backlog) - 1) : i + 1 \in DOMAIN backlog
  BY <1>1
<1> QED BY <1>2, <1>3, <1>4, <1>6, <1>9, <1>10, <1>11, <1>12

(* The descriptor accept returns is a free one.                            *)
LEMMA LowestFree ==
    ASSUME Ordering, FreeFds # {}
    PROVE  Lowest(FreeFds) \in Fds /\ sock[Lowest(FreeFds)] = NoPeer
<1> DEFINE S == FreeFds
<1>1. S \in SUBSET Fds /\ S # {}
  BY DEF FreeFds
<1> HIDE DEF S
<1>2. \E x \in S : \A y \in S : x <= y
  BY <1>1 DEF Ordering
<1>3. Lowest(S) \in S
  BY <1>2 DEF Lowest
<1> QED BY <1>3 DEF S, FreeFds

-----------------------------------------------------------------------------
(* Steps that open and close nothing.                                      *)

SameConnections ==
    /\ UNCHANGED <<backlog, sock, clientToFd, nextId>>
    /\ \A p \in Peers : peer'[p].state = peer[p].state
    /\ \A f \in Fds : conns'[f] = NoConnection <=> conns[f] = NoConnection
    /\ \A f \in Connected : conns'[f].id = conns[f].id

(* Nobody receives anything, nobody is connected anew.                     *)
LEMMA DeliverySame ==
    ASSUME Delivery, Addressed', Unheard',
           \A q \in Peers, j \in Ids : Has(q, j)' <=> Has(q, j),
           \A j \in Ids : j < nextId => j < nextId',
           \A g \in Connected' : g \in Connected /\ conns'[g].id = conns[g].id /\ sock'[g] = sock[g]
    PROVE  Delivery'
<1>1. Issued'
  BY Zenon DEF Delivery, Issued
<1>2. Single'
  BY Zenon DEF Delivery, Single
<1>3. ASSUME NEW g \in Connected', NEW q \in Peers, NEW j \in Ids, Has(q, j)'
      PROVE  q = sock'[g] <=> j = conns'[g].id
  <2>1. Has(q, j) /\ g \in Connected
    BY Zenon, <1>3
  <2>2. q = sock[g] <=> j = conns[g].id
    BY Zenon, <2>1 DEF Delivery, Owned
  <2>3. conns'[g].id = conns[g].id /\ sock'[g] = sock[g]
    BY Zenon
  <2> QED BY Zenon, <2>2, <2>3
<1>4. Owned'
  BY Zenon, <1>3 DEF Owned
<1> QED BY Zenon, <1>1, <1>2, <1>4 DEF Delivery

(* They leave who is connected as it is.                                   *)
LEMMA SameConnectionsKeep ==
    ASSUME TypeTables, Kernel, Linked, SameConnections
    PROVE  Kernel' /\ Linked' /\ Connected' = Connected
<1>1. Connected' = Connected
  BY DEF SameConnections, Connected
<1>2. \A p \in Peers : peer'[p].state = peer[p].state
  BY DEF SameConnections
<1>3. UNCHANGED <<backlog, sock, clientToFd, nextId>>
  BY DEF SameConnections
<1>4. Accepted' = Accepted
  BY <1>2 DEF Accepted
<1>5. Kernel'
  <2>1. \A i \in DOMAIN backlog : backlog[i] \in Peers
    BY DEF TypeTables
  <2>2. \A f \in Fds : sock[f] # NoPeer => sock[f] \in Peers
    BY DEF TypeTables
  <2>3. \A i \in DOMAIN backlog : peer'[backlog[i]].state = "queued"
    BY Zenon, <1>2, <2>1 DEF Kernel
  <2>4. \A f \in Fds : sock[f] # NoPeer => peer'[sock[f]].state = "open"
    BY Zenon, <1>2, <2>2 DEF Kernel
  <2> QED BY Zenon, <1>3, <1>4, <2>3, <2>4 DEF Kernel
<1>6. \A f \in Connected : conns'[f].id = conns[f].id
  BY DEF SameConnections
<1>7. Linked'
  BY SMTT(60), <1>1, <1>3, <1>6 DEF Linked
<1> QED BY <1>1, <1>5, <1>7

(* The kernel moves bytes, or a peer acts: nobody receives anything.       *)
LEMMA PeersAct ==
    ASSUME Tables, peer' \in [Peers -> PeerStates],
           \A p \in Peers : peer'[p].state = peer[p].state /\ peer'[p].got = peer[p].got,
           UNCHANGED <<backlog, sock, conns, clientToFd, nextId>>
    PROVE  Tables' /\ Connected' = Connected
<1>1. TypeTables /\ Kernel /\ Linked /\ Bounded /\ Delivery
  BY DEF Tables
<1>2. SameConnections
  BY DEF SameConnections
<1>3. Kernel' /\ Linked' /\ Connected' = Connected
  BY <1>1, <1>2, SameConnectionsKeep
<1>4. TypeTables'
  BY <1>1 DEF TypeTables
<1>5. Bounded'
  BY <1>1, <1>3 DEF Bounded
<1>6. \A p \in Peers : \A i : Has(p, i)' <=> Has(p, i)
  BY Zenon DEF Has
<1>7. \A f \in Connected : sock[f] \in Peers /\ conns[f].id \in Ids
  BY <1>1, ConnectionIs
<1>8. Addressed' /\ Unheard'
  BY Zenon, <1>1, <1>3 DEF Delivery, Addressed, Unheard
<1>9. Delivery'
  BY Zenon, <1>1, <1>3, <1>6, <1>8, DeliverySame
<1> QED BY <1>3, <1>4, <1>5, <1>9 DEF Tables

(* Nothing of the tables changes.                                          *)
LEMMA TablesIdle ==
    ASSUME Tables, UNCHANGED <<peer, backlog, sock, conns, clientToFd, nextId>>
    PROVE  Tables' /\ Connected' = Connected
<1>1. peer' \in [Peers -> PeerStates]
  BY DEF Tables, TypeTables
<1> QED BY <1>1, PeersAct

(* What a step does to one connection shows in that one only.              *)
LEMMA OneConnection ==
    ASSUME TypeTables, NEW f \in Connected, NEW c \in Connections, c.id = conns[f].id,
           conns' = [conns EXCEPT ![f] = c], UNCHANGED <<backlog, sock, clientToFd, nextId>>,
           \A p \in Peers : peer'[p].state = peer[p].state
    PROVE  /\ conns' \in [Fds -> Connections \union {NoConnection}]
           /\ conns'[f] = c /\ \A g \in Fds \ {f} : conns'[g] = conns[g]
           /\ SameConnections
<1>1. f \in Fds /\ conns \in [Fds -> Connections \union {NoConnection}] /\ c # NoConnection
      /\ conns[f] # NoConnection
  BY NothingAssumption DEF Connected, TypeTables
<1>2. conns'[f] = c /\ \A g \in Fds \ {f} : conns'[g] = conns[g]
  BY <1>1
<1>3. conns' \in [Fds -> Connections \union {NoConnection}]
  BY <1>1
<1>4. \A g \in Fds : conns'[g] = NoConnection <=> conns[g] = NoConnection
  BY <1>1, <1>2
<1>5. \A g \in Connected : conns'[g].id = conns[g].id
  BY <1>1, <1>2 DEF Connected
<1> QED BY <1>2, <1>3, <1>4, <1>5 DEF SameConnections

(* handle_read leaves in the connection what is not a whole frame.         *)
LEMMA ReadBufferKept ==
    ASSUME Tables, NEW f \in Fds, NEW b \in Seq(Units),
           conns' = [conns EXCEPT ![f] = IF @ = NoConnection THEN @ ELSE [@ EXCEPT !.rbuf = b]],
           UNCHANGED <<peer, backlog, sock, clientToFd, nextId>>
    PROVE  /\ Tables' /\ Connected' = Connected
           /\ \A g \in Connected : /\ conns'[g].wbuf = conns[g].wbuf
                                   /\ conns'[g].rbuf = IF g = f THEN b ELSE conns[g].rbuf
<1>1. TypeTables /\ Kernel /\ Linked /\ Bounded /\ Delivery
  BY DEF Tables
<1>2. CASE f \notin Connected
  <2>1. conns' = conns
    BY <1>1, <1>2 DEF Connected, TypeTables
  <2> QED BY <1>2, <2>1, TablesIdle
<1>3. CASE f \in Connected
  <2> DEFINE c == [conns[f] EXCEPT !.rbuf = b]
  <2>1. conns[f] \in Connections /\ conns[f] # NoConnection
    BY <1>1, <1>3, ConnectionIs DEF Connected
  <2>2. /\ c \in Connections /\ c.id = conns[f].id /\ c.wbuf = conns[f].wbuf /\ c.rbuf = b
    BY <2>1 DEF Connections
  <2>3. conns' = [conns EXCEPT ![f] = c]
    BY <2>1
  <2> HIDE DEF c
  <2>4. /\ conns' \in [Fds -> Connections \union {NoConnection}]
        /\ conns'[f] = c /\ \A g \in Fds \ {f} : conns'[g] = conns[g]
        /\ SameConnections
    BY Zenon, <1>1, <1>3, <2>2, <2>3, OneConnection
  <2>5. Kernel' /\ Linked' /\ Connected' = Connected
    BY <1>1, <2>4, SameConnectionsKeep
  <2>6. \A g \in Connected : /\ conns'[g].wbuf = conns[g].wbuf /\ conns'[g].id = conns[g].id
                             /\ conns'[g].rbuf = IF g = f THEN b ELSE conns[g].rbuf
    BY SMTT(60), <2>2, <2>4 DEF Connected
  <2>7. TypeTables'
    BY <1>1, <2>4 DEF TypeTables
  <2>8. Bounded'
    BY Zenon, <1>1, <2>5, <2>6 DEF Bounded
  <2>9. \A p, i : Has(p, i)' <=> Has(p, i)
    BY DEF Has
  <2>10. Addressed' /\ Unheard'
    BY <1>1, <2>5, <2>6 DEF Delivery, Addressed, Unheard
  <2>11. Delivery'
    BY Zenon, <1>1, <2>5, <2>6, <2>9, <2>10, DeliverySame
  <2> QED BY <2>5, <2>6, <2>7, <2>8, <2>11 DEF Tables
<1> QED BY <1>2, <1>3

(* send_to_client buffers a response for the connection of its client.     *)
LEMMA ResponseBuffered ==
    ASSUME Tables, NEW i \in Ids, clientToFd[i] # NoFd,
           ~OverCap(Len(conns[clientToFd[i]].wbuf \o <<i, i>>)),
           conns' = [conns EXCEPT ![clientToFd[i]].wbuf = conns[clientToFd[i]].wbuf \o <<i, i>>],
           UNCHANGED <<peer, backlog, sock, clientToFd, nextId>>
    PROVE  /\ Tables' /\ Connected' = Connected /\ clientToFd[i] \in Connected
           /\ \A g \in Connected : /\ conns'[g].rbuf = conns[g].rbuf
                                   /\ g # clientToFd[i] => conns'[g].wbuf = conns[g].wbuf
<1> DEFINE f == clientToFd[i]
           w == conns[f].wbuf
           b == w \o <<i, i>>
           c == [conns[f] EXCEPT !.wbuf = b]
<1>1. TypeTables /\ Kernel /\ Linked /\ Bounded /\ Delivery
  BY DEF Tables
<1>2. f \in Fds
  BY <1>1 DEF TypeTables
<1>3. f \in Connected /\ conns[f].id = i
  BY Zenon, <1>1, <1>2 DEF Linked
<1>4. conns[f] \in Connections /\ conns[f] # NoConnection /\ w \in Seq(Ids)
  BY <1>1, <1>3, ConnectionIs DEF Connected
<1>5. <<i, i>> \in Seq(Ids) /\ Len(<<i, i>>) = 2 /\ <<i, i>>[1] = i /\ <<i, i>>[2] = i
  OBVIOUS
<1>6. /\ b \in Seq(Ids) /\ Len(b) = Len(w) + 2 /\ Len(w) \in Nat
      /\ \A k \in 1..Len(b) : b[k] = IF k <= Len(w) THEN w[k] ELSE <<i, i>>[k - Len(w)]
  <2> HIDE DEF w
  <2> DEFINE t == <<i, i>>
  <2>1. t \in Seq(Ids) /\ Len(t) = 2
    BY <1>5
  <2> HIDE DEF t
  <2>2. /\ w \o t \in Seq(Ids) /\ Len(w \o t) = Len(w) + Len(t)
        /\ \A k \in 1..(Len(w) + Len(t)) : (w \o t)[k] = IF k <= Len(w) THEN w[k] ELSE t[k - Len(w)]
    BY Zenon, <1>4, <2>1, Joined
  <2>3. Len(w) \in Nat
    BY <1>4
  <2> QED BY <2>1, <2>2, <2>3 DEF t
<1>7. \A k \in 1..Len(w) : w[k] = i
  BY Zenon, <1>1, <1>3 DEF Delivery, Addressed, Unheard, Issued, Single, Owned
<1>8. \A k \in 1..Len(b) : b[k] = i
  <2> SUFFICES ASSUME NEW k \in 1..Len(b) PROVE b[k] = i
    BY SMTT(60)
  <2> HIDE DEF w, b
  <2>1. k <= Len(w) \/ k - Len(w) = 1 \/ k - Len(w) = 2
    BY <1>6
  <2>2. k <= Len(w) => k \in 1..Len(w)
    BY <1>6
  <2> QED BY <1>5, <1>6, <1>7, <2>1, <2>2
<1>9. c \in Connections /\ c.id = conns[f].id /\ c.wbuf = b /\ c.rbuf = conns[f].rbuf
  <2> HIDE DEF b
  <2> QED BY Zenon, <1>4, <1>6 DEF Connections
<1>10. conns' = [conns EXCEPT ![f] = c]
  BY <1>2, <1>1 DEF TypeTables
<1>11. MaxWriteBuffer # 0 => Len(b) <= MaxWriteBuffer
  <2> HIDE DEF b
  <2>1. ~OverCap(Len(b))
    BY DEF b
  <2> QED BY <1>6, <2>1, RoomAssumption DEF OverCap
<1> HIDE DEF c, b, w
<1>12. /\ conns' \in [Fds -> Connections \union {NoConnection}]
       /\ conns'[f] = c /\ \A g \in Fds \ {f} : conns'[g] = conns[g]
       /\ SameConnections
  BY Zenon, <1>1, <1>3, <1>9, <1>10, OneConnection
<1>13. Kernel' /\ Linked' /\ Connected' = Connected
  BY Zenon, <1>1, <1>12, SameConnectionsKeep
<1>14. TypeTables'
  BY <1>1, <1>12 DEF TypeTables
<1>15. /\ conns'[f].wbuf = b /\ conns'[f].id = i
       /\ \A g \in Connected : /\ conns'[g].rbuf = conns[g].rbuf /\ conns'[g].id = conns[g].id
                               /\ g # f => conns'[g].wbuf = conns[g].wbuf
  BY Zenon, <1>3, <1>9, <1>12 DEF Connected
<1>16. Bounded'
  BY Zenon, <1>1, <1>11, <1>13, <1>15 DEF Bounded
<1>17. \A p, j : Has(p, j)' <=> Has(p, j)
  BY DEF Has
<1>18. \A g \in Connected : \A k \in 1..Len(conns'[g].wbuf) : conns'[g].wbuf[k] = conns'[g].id
  <2> SUFFICES ASSUME NEW g \in Connected
               PROVE  \A k \in 1..Len(conns'[g].wbuf) : conns'[g].wbuf[k] = conns'[g].id
    BY SMTT(60)
  <2>1. CASE g = f
    BY Zenon, <1>8, <1>15, <2>1
  <2>2. CASE g # f
    BY ZenonT(60), <1>1, <1>15, <2>2 DEF Delivery, Addressed
  <2> QED BY SMTT(60), <2>1, <2>2
<1>19. Delivery'
  <2>1. Addressed' /\ Unheard'
    BY Zenon, <1>1, <1>13, <1>18 DEF Delivery, Addressed, Unheard
  <2> QED BY Zenon, <1>1, <1>13, <1>15, <1>17, <2>1, DeliverySame
<1> QED BY <1>3, <1>13, <1>14, <1>15, <1>16, <1>19 DEF Tables

(* A function with one value replaced.                                     *)
LEMMA OneReplaced ==
    ASSUME NEW D, NEW R, NEW g \in [D -> R], NEW d \in D, NEW r \in R,
           NEW h, h = [g EXCEPT ![d] = r]
    PROVE  h \in [D -> R] /\ h[d] = r /\ \A e \in D : e # d => h[e] = g[e]
OBVIOUS

(* Units for one client, some of them moved from the front of a buffer to  *)
(* the end of what has been received.                                      *)
LEMMA UnitsMoved ==
    ASSUME NEW w \in Seq(Ids), NEW u \in Seq(Ids), NEW n \in Nat, n <= Len(w),
           NEW i, \A k \in 1..Len(w) : w[k] = i,
           NEW b, b = SubSeq(w, n + 1, Len(w)), NEW h, h = u \o SubSeq(w, 1, n)
    PROVE  /\ b \in Seq(Ids) /\ Len(b) <= Len(w) /\ Len(b) \in Nat /\ Len(w) \in Nat
           /\ \A k \in 1..Len(b) : b[k] = i
           /\ h \in Seq(Ids)
           /\ \A k \in 1..Len(h) : (k \in 1..Len(u) /\ h[k] = u[k]) \/ h[k] = i
<1> DEFINE a == SubSeq(w, 1, n)
           m == n + 1
           l == Len(w)
<1>1. Len(w) \in Nat /\ Len(u) \in Nat /\ \A k \in 1..Len(w) : w[k] \in Ids
  OBVIOUS
<1>2. a \in Seq(Ids) /\ Len(a) = n /\ \A k \in 1..n : a[k] = i
  <2>1. \A k \in 1..n : w[k] \in Ids /\ w[k] = i
    BY <1>1
  <2>2. /\ a \in Seq(Ids) /\ Len(a) = (IF 1 <= n THEN n - 1 + 1 ELSE 0)
        /\ \A k \in 1..(n - 1 + 1) : a[k] = w[1 + k - 1]
    BY <2>1
  <2>3. \A k \in 1..n : 1 + k - 1 = k
    OBVIOUS
  <2>4. (IF 1 <= n THEN n - 1 + 1 ELSE 0) = n /\ n - 1 + 1 = n
    OBVIOUS
  <2> HIDE DEF a
  <2> QED BY <2>1, <2>2, <2>3, <2>4
<1>3. b \in Seq(Ids) /\ Len(b) <= Len(w) /\ Len(b) \in Nat /\ \A k \in 1..Len(b) : b[k] = i
  <2>1. \A k \in m..l : w[k] \in Ids /\ w[k] = i
    BY <1>1
  <2>2. m \in Int /\ l \in Int /\ l \in Nat /\ b = SubSeq(w, m, l)
    BY <1>1
  <2> HIDE DEF m, l
  <2>4. \A k \in m..l : w[k] \in Ids
    BY <2>1
  <2>7. /\ SubSeq(w, m, l) \in Seq(Ids)
        /\ Len(SubSeq(w, m, l)) = (IF m <= l THEN l - m + 1 ELSE 0)
        /\ \A k \in 1..(l - m + 1) : SubSeq(w, m, l)[k] = w[m + k - 1]
    BY ONLY <2>2, <2>4
  <2>3. /\ b \in Seq(Ids)
        /\ Len(b) = (IF m <= l THEN l - m + 1 ELSE 0)
        /\ \A k \in 1..(l - m + 1) : b[k] = w[m + k - 1]
    BY Zenon, <2>2, <2>7
  <2>5. Len(b) \in Nat /\ Len(b) <= l
    BY <2>2, <2>3 DEF m
  <2>6. ASSUME NEW k \in 1..Len(b) PROVE b[k] = i
    <3>1. k \in 1..(l - m + 1) /\ m + k - 1 \in m..l
      BY <2>2, <2>3 DEF m
    <3> QED BY Zenon, <2>1, <2>3, <3>1
  <2> QED BY SMTT(60), <2>3, <2>5, <2>6 DEF l
<1>4. h \in Seq(Ids) /\ \A k \in 1..Len(h) : (k \in 1..Len(u) /\ h[k] = u[k]) \/ h[k] = i
  <2> HIDE DEF a
  <2>1. h = u \o a
    BY DEF a
  <2>2. /\ h \in Seq(Ids) /\ Len(h) = Len(u) + Len(a)
        /\ \A k \in 1..(Len(u) + Len(a)) : h[k] = IF k <= Len(u) THEN u[k] ELSE a[k - Len(u)]
    BY SMTT(60), <1>2, <2>1, Joined
  <2>3. ASSUME NEW k \in 1..Len(h) PROVE (k \in 1..Len(u) /\ h[k] = u[k]) \/ h[k] = i
    <3>1. CASE k <= Len(u)
      BY <1>1, <1>2, <2>2, <3>1
    <3>2. CASE ~(k <= Len(u))
      <4>1. k - Len(u) \in 1..n
        BY <1>1, <1>2, <2>2, <3>2
      <4> QED BY <1>2, <2>2, <3>2, <4>1
    <3> QED BY <3>1, <3>2
  <2> QED BY Zenon, <2>2, <2>3
<1> QED BY <1>1, <1>3, <1>4

(* Somebody receives units of one connection: everything received is still *)
(* of the connection of whoever received it.                               *)
LEMMA DeliveryKept ==
    ASSUME Tables, Kernel', Linked', Connected' = Connected, SameConnections,
           NEW f \in Connected,
           \A q \in Peers : q # sock[f] => peer'[q] = peer[q],
           \A j : Has(sock[f], j)' => Has(sock[f], j) \/ j = conns[f].id,
           \A g \in Connected : \A k \in 1..Len(conns'[g].wbuf) : conns'[g].wbuf[k] = conns'[g].id
    PROVE  Delivery'
<1> DEFINE p == sock[f]
           i == conns[f].id
<1>1. TypeTables /\ Kernel /\ Linked /\ Delivery
  BY DEF Tables
<1>2. f \in Fds /\ i \in Ids /\ p \in Peers /\ sock[f] # NoPeer
  BY <1>1, ConnectionIs, NothingAssumption
<1>3. /\ nextId' = nextId /\ sock' = sock /\ (\A q \in Peers : peer'[q].state = peer[q].state)
      /\ \A g \in Connected : conns'[g].id = conns[g].id
  BY Zenon DEF SameConnections
<1>4. \A q \in Peers : q # p => \A j : Has(q, j)' <=> Has(q, j)
  BY Zenon DEF Has
<1>5. \A q \in Peers : \A j : Has(q, j)' => Has(q, j) \/ (q = p /\ j = i)
  <2> SUFFICES ASSUME NEW q \in Peers, NEW j, Has(q, j)' PROVE Has(q, j) \/ (q = p /\ j = i)
    OBVIOUS
  <2>1. CASE q = p
    BY Zenon, <1>3, <2>1 DEF Has
  <2>2. CASE q # p
    BY Zenon, <1>4, <2>2
  <2> QED BY <2>1, <2>2
<1>6. /\ \A q \in Peers : peer[q].state \in {"new", "queued"} => peer[q].got = <<>>
      /\ \A q \in Peers, j \in Ids : Has(q, j) => j < nextId
      /\ \A q, r \in Peers, j \in Ids : Has(q, j) /\ Has(r, j) => q = r
      /\ \A g \in Connected, q \in Peers, j \in Ids :
            Has(q, j) => (q = sock[g] <=> j = conns[g].id)
  BY Zenon, <1>1 DEF Delivery, Addressed, Unheard, Issued, Single, Owned
<1>7. \A q \in Peers : peer'[q].state \in {"new", "queued"} => peer'[q].got = <<>>
  <2>1. peer[p].state = "open"
    BY Zenon, <1>1, <1>2 DEF Kernel
  <2>2. ~(peer'[p].state \in {"new", "queued"})
    BY <1>2, <1>3, <2>1
  <2> QED BY Zenon, <1>3, <1>6, <2>2
<1>8. i < nextId
  BY Zenon, <1>1 DEF Linked
<1>9. \A q \in Peers, j \in Ids : Has(q, j)' => j < nextId
  BY ZenonT(60), <1>5, <1>6, <1>8
<1>10. \A q \in Peers : Has(q, i) => q = p
  BY Zenon, <1>2, <1>6
<1>11. \A q, r \in Peers, j \in Ids : Has(q, j)' /\ Has(r, j)' => q = r
  BY SMTT(60), <1>5, <1>6, <1>10
<1>12. ASSUME NEW g \in Connected PROVE p = sock[g] <=> i = conns[g].id
  <2>1. g \in Fds /\ sock[g] \in Peers /\ conns[g].id \in Ids
    BY <1>1, ConnectionIs
  <2>2. p = sock[g] => f = g
    BY Zenon, <1>1, <1>2, <2>1 DEF Kernel
  <2>3. clientToFd[i] = f
    BY Zenon, <1>1, <1>2 DEF Linked
  <2>4. i = conns[g].id => clientToFd[i] = g
    BY SMTT(60), <1>1, <1>2, <2>1 DEF Linked
  <2> QED BY <2>2, <2>3, <2>4
<1>13. ASSUME NEW g \in Connected, NEW q \in Peers, NEW j \in Ids, Has(q, j)'
       PROVE  q = sock'[g] <=> j = conns'[g].id
  BY SMTT(60), <1>3, <1>5, <1>6, <1>12, <1>13
<1> QED BY Zenon, <1>3, <1>7, <1>9, <1>11, <1>13 DEF Delivery, Addressed, Unheard, Issued, Single, Owned

(* send() hands units of a write buffer to the peer of its connection.     *)
LEMMA UnitsSent ==
    ASSUME Tables, NEW f \in Connected, NEW n \in Nat,
           n <= Len(conns[f].wbuf), n <= peer[sock[f]].room,
           NEW y, y = [peer[sock[f]] EXCEPT !.got = @ \o SubSeq(conns[f].wbuf, 1, n),
                                            !.room = @ - n],
           NEW c, c = [conns[f] EXCEPT !.wbuf =
                          SubSeq(conns[f].wbuf, n + 1, Len(conns[f].wbuf))],
           peer' = [peer EXCEPT ![sock[f]] = y], conns' = [conns EXCEPT ![f] = c],
           UNCHANGED <<backlog, sock, clientToFd, nextId>>
    PROVE  /\ Tables' /\ Connected' = Connected
           /\ \A q \in Peers : /\ peer'[q].unread = peer[q].unread /\ peer'[q].fin = peer[q].fin
                               /\ q # sock[f] => peer'[q] = peer[q]
           /\ \A g \in Connected : /\ conns'[g].rbuf = conns[g].rbuf
                                   /\ g # f => conns'[g].wbuf = conns[g].wbuf
<1> DEFINE p == sock[f]
           w == conns[f].wbuf
           x == peer[p]
           u == x.got
           b == SubSeq(w, n + 1, Len(w))
           h == u \o SubSeq(w, 1, n)
           i == conns[f].id
<1>1. TypeTables /\ Kernel /\ Linked /\ Bounded /\ Delivery
  BY DEF Tables
<1>2. /\ f \in Fds /\ conns[f] \in Connections /\ i \in Ids /\ w \in Seq(Ids)
      /\ p \in Peers /\ x \in PeerStates /\ u \in Seq(Ids)
  BY <1>1, ConnectionIs, PeerIs
<1>3. \A k \in 1..Len(w) : w[k] = i
  BY Zenon, <1>1 DEF Delivery, Addressed, Unheard, Issued, Single, Owned
<1>4. /\ b \in Seq(Ids) /\ Len(b) <= Len(w) /\ Len(b) \in Nat /\ Len(w) \in Nat
      /\ \A k \in 1..Len(b) : b[k] = i
      /\ h \in Seq(Ids)
      /\ \A k \in 1..Len(h) : (k \in 1..Len(u) /\ h[k] = u[k]) \/ h[k] = i
  <2>1. n \in Nat /\ n <= Len(w) /\ b = SubSeq(w, n + 1, Len(w)) /\ h = u \o SubSeq(w, 1, n)
    OBVIOUS
  <2> HIDE DEF b, h, u, w, i
  <2> QED BY ONLY SMTT(60), <1>2, <1>3, <2>1, UnitsMoved
<1> HIDE DEF b, h
<1>5. y = [x EXCEPT !.got = h, !.room = @ - n] /\ c = [conns[f] EXCEPT !.wbuf = b]
  BY SMTT(60) DEF h, b
<1>6. /\ y \in PeerStates /\ y.got = h /\ y.state = x.state /\ y.fin = x.fin
      /\ y.unread = x.unread
  <2> DEFINE r == x.room - n
  <2>1. x.room \in 0..SendRoom /\ n \in Nat /\ n <= x.room
    BY <1>1, <1>2, PeerIs
  <2> HIDE DEF x
  <2>2. r \in 0..SendRoom
    BY <2>1, RoomAssumption
  <2>3. y = [x EXCEPT !.got = h, !.room = r]
    BY <1>5
  <2> HIDE DEF r
  <2> DEFINE z == [x EXCEPT !.got = h]
  <2>4. x \in PeerStates /\ h \in Seq(Ids)
    BY <1>2, <1>4
  <2>5. y = [z EXCEPT !.room = r]
    BY ONLY <2>3, <2>4 DEF PeerStates
  <2>6. z \in PeerStates /\ z.got = h /\ z.state = x.state /\ z.fin = x.fin /\ z.unread = x.unread
    BY ONLY Zenon, <2>4 DEF PeerStates
  <2> HIDE DEF z
  <2>7. /\ y \in PeerStates /\ y.got = z.got
        /\ y.state = z.state /\ y.fin = z.fin /\ y.unread = z.unread
    BY ONLY Zenon, <2>2, <2>5, <2>6 DEF PeerStates
  <2> QED BY Zenon, <2>6, <2>7
<1>7. c \in Connections /\ c.id = i /\ c.wbuf = b /\ c.rbuf = conns[f].rbuf
  <2> DEFINE d == conns[f]
  <2>1. d \in Connections /\ c = [d EXCEPT !.wbuf = b]
    BY Zenon, <1>2, <1>5
  <2> HIDE DEF d
  <2>2. c \in Connections /\ c.id = d.id /\ c.wbuf = b /\ c.rbuf = d.rbuf
    BY Zenon, <1>4, <2>1 DEF Connections
  <2> QED BY <2>2 DEF d
<1>8. /\ peer' \in [Peers -> PeerStates] /\ peer'[p] = y
      /\ \A q \in Peers : q # p => peer'[q] = peer[q]
  <2>1. peer \in [Peers -> PeerStates]
    BY <1>1 DEF TypeTables
  <2> QED BY Zenon, <1>2, <1>6, <2>1, OneReplaced
<1>9. \A q \in Peers : /\ peer'[q].state = peer[q].state
                       /\ peer'[q].unread = peer[q].unread /\ peer'[q].fin = peer[q].fin
  BY Zenon, <1>6, <1>8
<1>10. /\ conns' \in [Fds -> Connections \union {NoConnection}]
       /\ conns'[f] = c /\ \A g \in Fds \ {f} : conns'[g] = conns[g]
       /\ SameConnections
  BY Zenon, <1>1, <1>7, <1>9, OneConnection
<1>11. Kernel' /\ Linked' /\ Connected' = Connected
  BY <1>1, <1>10, SameConnectionsKeep
<1>12. TypeTables'
  BY Zenon, <1>1, <1>8, <1>10 DEF TypeTables
<1>13. /\ conns'[f].wbuf = b /\ conns'[f].id = i
       /\ \A g \in Connected : /\ conns'[g].rbuf = conns[g].rbuf /\ conns'[g].id = conns[g].id
                               /\ g # f => conns'[g].wbuf = conns[g].wbuf
  BY Zenon, <1>7, <1>10 DEF Connected
<1>14. Bounded'
  <2>1. MaxWriteBuffer # 0 => Len(w) <= MaxWriteBuffer
    BY Zenon, <1>1 DEF Bounded
  <2> DEFINE l == Len(w)
             m == Len(b)
  <2>2. l \in Nat /\ m \in Nat /\ m <= l /\ (MaxWriteBuffer # 0 => l <= MaxWriteBuffer)
    BY <1>4, <2>1
  <2> HIDE DEF l, m
  <2>3. MaxWriteBuffer # 0 => m <= MaxWriteBuffer
    BY <2>2, RoomAssumption
  <2> QED BY Zenon, <1>1, <1>11, <1>13, <2>3 DEF Bounded, m
<1>15. ASSUME NEW j, Has(p, j)' PROVE Has(p, j) \/ j = i
  <2>1. peer'[p].got = h /\ p' = p
    BY Zenon, <1>6, <1>8
  <2>2. PICK k \in 1..Len(h) : h[k] = j
    BY Zenon, <1>15, <2>1 DEF Has
  <2>3. (k \in 1..Len(u) /\ u[k] = j) \/ j = i
    BY <1>4, <2>2
  <2> QED BY SMTT(60), <2>3 DEF Has
<1>16. ASSUME NEW g \in Connected
       PROVE  \A k \in 1..Len(conns'[g].wbuf) : conns'[g].wbuf[k] = conns'[g].id
  <2>1. CASE g = f
    BY ZenonT(60), <1>4, <1>13, <2>1
  <2>2. CASE g # f
    BY ZenonT(60), <1>1, <1>13, <2>2 DEF Delivery, Addressed
  <2> QED BY SMTT(60), <2>1, <2>2
<1>17. Delivery'
  BY Zenon, <1>8, <1>10, <1>11, <1>15, <1>16, DeliveryKept
<1> QED BY Zenon, <1>8, <1>9, <1>11, <1>12, <1>13, <1>14, <1>17 DEF Tables

-----------------------------------------------------------------------------
(* Steps that open connections.                                            *)

(* A peer connects: it joins the backlog.                                  *)
LEMMA PeerConnects ==
    ASSUME Tables, NEW p \in Peers, peer[p].state = "new",
           peer' = [peer EXCEPT ![p].state = "queued"], backlog' = Append(backlog, p),
           UNCHANGED <<sock, conns, clientToFd, nextId>>
    PROVE  /\ Tables' /\ Connected' = Connected
           /\ \A q \in Peers : /\ peer'[q].unread = peer[q].unread /\ peer'[q].fin = peer[q].fin
                               /\ peer'[q].room = peer[q].room
<1> DEFINE x == peer[p]
           y == [x EXCEPT !.state = "queued"]
<1>1. TypeTables /\ Kernel /\ Linked /\ Bounded /\ Delivery
  BY DEF Tables
<1>2. x \in PeerStates /\ peer \in [Peers -> PeerStates] /\ backlog \in Seq(Peers)
  BY <1>1, PeerIs DEF TypeTables
<1>3. peer' = [peer EXCEPT ![p] = y]
  BY <1>2
<1>4. /\ y \in PeerStates /\ y.state = "queued" /\ y.got = x.got /\ y.unread = x.unread
      /\ y.fin = x.fin /\ y.room = x.room
  <2> HIDE DEF x
  <2> QED BY ONLY Zenon, <1>2 DEF PeerStates
<1> HIDE DEF y
<1>5. /\ peer' \in [Peers -> PeerStates] /\ peer'[p] = y
      /\ \A q \in Peers : q # p => peer'[q] = peer[q]
  BY SMTT(60), <1>2, <1>3, <1>4, OneReplaced
<1>6. /\ backlog' \in Seq(Peers) /\ DOMAIN backlog' = 1..(Len(backlog) + 1)
      /\ DOMAIN backlog = 1..Len(backlog) /\ Len(backlog) \in Nat
      /\ \A k \in 1..Len(backlog) : backlog'[k] = backlog[k]
      /\ backlog'[Len(backlog) + 1] = p
  BY <1>2
<1>7. \A k \in DOMAIN backlog' :
        (k \in DOMAIN backlog /\ backlog'[k] = backlog[k]) \/ (k = Len(backlog) + 1 /\ backlog'[k] = p)
  BY <1>6
<1>8. /\ \A k \in DOMAIN backlog : peer[backlog[k]].state = "queued" /\ backlog[k] # p
      /\ \A k \in DOMAIN backlog : backlog[k] \in Peers
  <2>1. \A k \in DOMAIN backlog : peer[backlog[k]].state = "queued"
    BY Zenon, <1>1 DEF Kernel
  <2> QED BY <1>2, <2>1
<1>9. \A q \in Peers : /\ peer'[q].unread = peer[q].unread /\ peer'[q].fin = peer[q].fin
                       /\ peer'[q].room = peer[q].room /\ peer'[q].got = peer[q].got
                       /\ peer'[q].state = IF q = p THEN "queued" ELSE peer[q].state
  BY Zenon, <1>4, <1>5
<1>10. Accepted' = Accepted
  BY <1>9 DEF Accepted
<1>11. Connected' = Connected
  BY DEF Connected
<1>12. Kernel'
  <2>1. \A k \in DOMAIN backlog' : peer'[backlog'[k]].state = "queued"
    BY SMTT(60), <1>7, <1>8, <1>9
  <2>2. \A k, l \in DOMAIN backlog' : backlog'[k] = backlog'[l] => k = l
    <3>1. \A k, l \in DOMAIN backlog : backlog[k] = backlog[l] => k = l
      BY Zenon, <1>1 DEF Kernel
    <3> QED BY SMTT(60), <1>7, <1>8, <3>1
  <2>3. \A f \in Fds : sock[f] # NoPeer => sock[f] \in Peers /\ peer[sock[f]].state = "open"
    BY Zenon, <1>1 DEF Kernel, TypeTables
  <2>4. \A f \in Fds : sock[f] # NoPeer => peer'[sock[f]].state = "open"
    BY <1>9, <2>3
  <2>5. /\ \A f, g \in Fds : sock[f] = sock[g] /\ sock[f] # NoPeer => f = g
        /\ nextId <= Cardinality(Accepted) + 1
    BY Zenon, <1>1 DEF Kernel
  <2> QED BY Zenon, <1>10, <2>1, <2>2, <2>4, <2>5 DEF Kernel
<1>13. TypeTables' /\ Linked' /\ Bounded'
  BY <1>1, <1>5, <1>6, <1>11 DEF TypeTables, Linked, Bounded
<1>14. \A q \in Peers : \A j : Has(q, j)' <=> Has(q, j)
  BY Zenon, <1>9 DEF Has
<1>15. Delivery'
  <2>1. \A q \in Peers : peer'[q].state \in {"new", "queued"} => peer'[q].got = <<>>
    BY ZenonT(60), <1>1, <1>9 DEF Delivery, Unheard
  <2>2. Addressed' /\ Unheard'
    BY Zenon, <1>1, <1>11, <2>1 DEF Delivery, Addressed, Unheard
  <2> QED BY Zenon, <1>1, <1>11, <1>14, <2>2, DeliverySame
<1> QED BY Zenon, <1>9, <1>11, <1>12, <1>13, <1>15 DEF Tables

(* What accept takes from the backlog leaves the rest of it as it was.     *)
LEMMA BacklogShortened ==
    ASSUME Counting, TypeTables, Kernel, backlog # <<>>, backlog' = Tail(backlog),
           \A q \in Peers : q # Head(backlog) => peer'[q].state = peer[q].state
    PROVE  /\ backlog' \in Seq(Peers)
           /\ \A i \in DOMAIN backlog' : peer'[backlog'[i]].state = "queued"
           /\ \A i, j \in DOMAIN backlog' : backlog'[i] = backlog'[j] => i = j
<1> DEFINE n == Len(backlog) - 1
           p == Head(backlog)
<1>1. /\ backlog' \in Seq(Peers) /\ DOMAIN backlog' = 1..n
      /\ \A i \in 1..n : backlog'[i] = backlog[i + 1] /\ i + 1 \in DOMAIN backlog
      /\ 1 \in DOMAIN backlog /\ p = backlog[1]
  BY IdLeft
<1>2. /\ \A i \in DOMAIN backlog : peer[backlog[i]].state = "queued"
      /\ \A i, j \in DOMAIN backlog : backlog[i] = backlog[j] => i = j
  BY Zenon DEF Kernel
<1>3. \A i \in DOMAIN backlog : backlog[i] \in Peers
  BY DEF TypeTables
<1> HIDE DEF n, p
<1>4. \A i \in 1..n : i + 1 # 1 /\ i \in Int
  OBVIOUS
<1>5. \A i \in 1..n : backlog'[i] # p /\ backlog'[i] \in Peers /\ peer[backlog'[i]].state = "queued"
  BY SMTT(60), <1>1, <1>2, <1>3, <1>4
<1>6. \A i \in 1..n : peer'[backlog'[i]].state = "queued"
  BY Zenon, <1>5 DEF p
<1>7. \A i, j \in 1..n : i + 1 = j + 1 => i = j
  OBVIOUS
<1>8. \A i, j \in 1..n : backlog'[i] = backlog'[j] => i = j
  BY SMTT(60), <1>1, <1>2, <1>7
<1> QED BY Zenon, <1>1, <1>6, <1>8

(* accept: the first of the backlog gets the lowest free descriptor and    *)
(* the next client id.                                                     *)
LEMMA ConnectionAccepted ==
    ASSUME Counting, Tables, backlog # <<>>, NEW f \in Fds, sock[f] = NoPeer,
           sock' = [sock EXCEPT ![f] = Head(backlog)],
           peer' = [peer EXCEPT ![Head(backlog)].state = "open"],
           conns' = [conns EXCEPT ![f] = [id |-> nextId, rbuf |-> <<>>, wbuf |-> <<>>]],
           clientToFd' = [clientToFd EXCEPT ![nextId] = f],
           backlog' = Tail(backlog), nextId' = nextId + 1
    PROVE  /\ Tables' /\ Connected' = Connected \union {f} /\ f \notin Connected
           /\ conns'[f].rbuf = <<>> /\ conns'[f].wbuf = <<>>
           /\ sock'[f] = Head(backlog)
           /\ Readable(peer'[Head(backlog)]) <=> Readable(peer[Head(backlog)])
           /\ \A g \in Connected : /\ conns'[g] = conns[g] /\ sock'[g] = sock[g]
                                   /\ peer'[sock[g]] = peer[sock[g]]
<1> DEFINE p == Head(backlog)
           x == peer[p]
           y == [x EXCEPT !.state = "open"]
           c == [id |-> nextId, rbuf |-> <<>>, wbuf |-> <<>>]
           i == nextId
<1>1. TypeTables /\ Kernel /\ Linked /\ Bounded /\ Delivery
  BY DEF Tables
<1>2. /\ p \in Peers /\ x.state = "queued" /\ p \notin Accepted /\ i \in Ids
      /\ Cardinality(Accepted \union {p}) = Cardinality(Accepted) + 1
  BY <1>1, IdLeft
<1>3. /\ peer \in [Peers -> PeerStates] /\ x \in PeerStates
      /\ sock \in [Fds -> Peers \union {NoPeer}]
      /\ conns \in [Fds -> Connections \union {NoConnection}]
      /\ clientToFd \in [Ids -> Fds \union {NoFd}]
  BY <1>1, <1>2 DEF TypeTables
<1>4. peer' = [peer EXCEPT ![p] = y]
  BY <1>2, <1>3
<1>5. /\ y \in PeerStates /\ y.state = "open" /\ y.got = x.got /\ y.unread = x.unread
      /\ y.fin = x.fin /\ y.room = x.room
  <2> HIDE DEF x
  <2> QED BY ONLY Zenon, <1>3 DEF PeerStates
<1>6. c \in Connections /\ c.id = i /\ c.rbuf = <<>> /\ c.wbuf = <<>> /\ c # NoConnection
  <2>1. c \in Connections /\ c.id = i /\ c.rbuf = <<>> /\ c.wbuf = <<>>
    <3> HIDE DEF i
    <3> QED BY <1>2 DEF Connections, i
  <2> HIDE DEF c
  <2> QED BY <2>1, NothingAssumption
<1>7. /\ sock' = [sock EXCEPT ![f] = p] /\ conns' = [conns EXCEPT ![f] = c]
      /\ clientToFd' = [clientToFd EXCEPT ![i] = f]
  OBVIOUS
<1> HIDE DEF y, c
<1>8. /\ peer' \in [Peers -> PeerStates] /\ peer'[p] = y
      /\ \A q \in Peers : q # p => peer'[q] = peer[q]
  BY SMTT(60), <1>2, <1>3, <1>4, <1>5, OneReplaced
<1>9. /\ sock' \in [Fds -> Peers \union {NoPeer}] /\ sock'[f] = p
      /\ \A g \in Fds : g # f => sock'[g] = sock[g]
  BY <1>2, <1>3, <1>7, OneReplaced
<1>10. /\ conns' \in [Fds -> Connections \union {NoConnection}] /\ conns'[f] = c
       /\ \A g \in Fds : g # f => conns'[g] = conns[g]
  BY <1>3, <1>6, <1>7, OneReplaced
<1>11. /\ clientToFd' \in [Ids -> Fds \union {NoFd}] /\ clientToFd'[i] = f
       /\ \A j \in Ids : j # i => clientToFd'[j] = clientToFd[j]
  BY <1>2, <1>3, <1>7, OneReplaced
<1>12. f \notin Connected
  BY Zenon, <1>1 DEF Linked
<1>13. Connected' = Connected \union {f}
  BY Zenon, <1>6, <1>10 DEF Connected
<1>14. \A q \in Peers : /\ peer'[q].got = peer[q].got
                        /\ peer'[q].state = IF q = p THEN "open" ELSE peer[q].state
  BY Zenon, <1>5, <1>8
<1>15. \A g \in Fds : sock[g] # NoPeer => /\ sock[g] \in Peers /\ peer[sock[g]].state = "open"
                                          /\ sock[g] # p /\ g # f
  <2>1. \A g \in Fds : sock[g] # NoPeer => sock[g] \in Peers /\ peer[sock[g]].state = "open"
    BY Zenon, <1>1 DEF Kernel, TypeTables
  <2> QED BY <1>2, <2>1
<1>16. ASSUME NEW g \in Connected
       PROVE  /\ g \in Fds /\ g # f /\ conns'[g] = conns[g] /\ sock'[g] = sock[g]
              /\ sock[g] \in Peers /\ sock[g] # p /\ peer'[sock[g]] = peer[sock[g]]
  <2>1. g \in Fds /\ g # f /\ sock[g] # NoPeer
    BY Zenon, <1>1, <1>12 DEF Linked, Connected
  <2> QED BY Zenon, <1>8, <1>9, <1>10, <1>15, <2>1
<1>17. Accepted' = Accepted \union {p}
  BY <1>2, <1>14 DEF Accepted
<1>18. nextId <= Cardinality(Accepted) + 1 /\ Cardinality(Accepted) \in Nat /\ nextId \in Nat
  BY <1>1, <1>2, Counts DEF Kernel, Ids
<1>19. nextId' <= Cardinality(Accepted') + 1
  BY <1>2, <1>17, <1>18
<1>20. Kernel'
  <2>1. /\ \A k \in DOMAIN backlog' : peer'[backlog'[k]].state = "queued"
        /\ \A k, l \in DOMAIN backlog' : backlog'[k] = backlog'[l] => k = l
    BY Zenon, <1>1, <1>14, BacklogShortened
  <2>2. p # NoPeer
    BY <1>2, NothingAssumption
  <2>3. \A g \in Fds : sock'[g] # NoPeer => peer'[sock'[g]].state = "open"
    BY ZenonT(60), <1>2, <1>9, <1>14, <1>15
  <2>4. \A g, h \in Fds : sock[g] = sock[h] /\ sock[g] # NoPeer => g = h
    BY Zenon, <1>1 DEF Kernel
  <2>5. \A g, h \in Fds : sock'[g] = sock'[h] /\ sock'[g] # NoPeer => g = h
    BY Zenon, <1>9, <1>15, <2>2, <2>4
  <2> QED BY Zenon, <1>19, <2>1, <2>3, <2>5 DEF Kernel
<1>21. TypeTables'
  <2>1. nextId' \in 1..(Cardinality(Peers) + 1)
    BY <1>2, Counts DEF Ids
  <2>2. backlog' \in Seq(Peers)
    BY Zenon, <1>1, <1>14, BacklogShortened
  <2> QED BY <1>8, <1>9, <1>10, <1>11, <2>1, <2>2 DEF TypeTables
<1>22. /\ \A j \in Ids, g \in Fds : clientToFd[j] = g <=> g \in Connected /\ conns[g].id = j
       /\ \A g \in Fds : g \in Connected <=> sock[g] # NoPeer
       /\ \A g \in Connected : conns[g].id < nextId
  BY Zenon, <1>1 DEF Linked
<1>23. \A g \in Connected : conns[g].id \in Ids /\ conns[g].id # i
  <2>1. \A g \in Connected : conns[g].id \in Ids
    BY <1>1, ConnectionIs
  <2> QED BY <1>2, <1>22, <2>1 DEF Ids
<1>24. Linked'
  <2>1. ASSUME NEW j \in Ids, NEW g \in Fds
        PROVE  clientToFd'[j] = g <=> g \in Connected' /\ conns'[g].id = j
    <3>1. CASE j = i
      BY Zenon, <1>6, <1>10, <1>11, <1>13, <1>16, <1>23, <3>1
    <3>2. CASE j # i /\ g = f
      BY Zenon, <1>6, <1>10, <1>11, <1>12, <1>22, <3>2
    <3>3. CASE j # i /\ g # f
      BY ZenonT(60), <1>10, <1>11, <1>13, <1>22, <3>3
    <3> QED BY <3>1, <3>2, <3>3
  <2>2. \A g \in Fds : g \in Connected' <=> sock'[g] # NoPeer
    <3>1. p # NoPeer
      BY <1>2, NothingAssumption
    <3> QED BY Zenon, <1>9, <1>13, <1>22, <3>1
  <2>3. ASSUME NEW g \in Connected' PROVE conns'[g].id < nextId'
    <3>1. CASE g = f
      BY <1>6, <1>10, <1>18, <3>1
    <3>2. CASE g \in Connected
      <4>1. conns'[g].id = conns[g].id /\ conns[g].id < nextId /\ conns[g].id \in Ids
        BY Zenon, <1>16, <1>22, <1>23, <3>2
      <4> QED BY <1>18, <4>1 DEF Ids
    <3> QED BY <1>13, <3>1, <3>2
  <2> QED BY Zenon, <2>1, <2>2, <2>3 DEF Linked
<1>25. Bounded'
  <2>1. Len(<<>>) <= MaxWriteBuffer
    BY RoomAssumption
  <2> QED BY Zenon, <1>1, <1>6, <1>10, <1>13, <1>16, <2>1 DEF Bounded
<1>26. \A q \in Peers : \A j : Has(q, j)' <=> Has(q, j)
  BY Zenon, <1>14 DEF Has
<1>27. /\ \A g \in Connected : \A k \in 1..Len(conns[g].wbuf) : conns[g].wbuf[k] = conns[g].id
       /\ \A q \in Peers : peer[q].state \in {"new", "queued"} => peer[q].got = <<>>
       /\ \A q \in Peers, j \in Ids : Has(q, j) => j < nextId
       /\ \A q, r \in Peers, j \in Ids : Has(q, j) /\ Has(r, j) => q = r
       /\ \A g \in Connected, q \in Peers, j \in Ids :
             Has(q, j) => (q = sock[g] <=> j = conns[g].id)
  BY Zenon, <1>1 DEF Delivery, Addressed, Unheard, Issued, Single, Owned
<1>28. \A j : ~Has(p, j)
  <2>1. x.got = <<>>
    BY <1>2, <1>27
  <2>2. 1..Len(<<>>) = {}
    OBVIOUS
  <2> QED BY Zenon, <2>1, <2>2 DEF Has
<1>29. \A q \in Peers, j \in Ids : Has(q, j) => j # i /\ j < nextId'
  BY <1>18, <1>27 DEF Ids
<1>30. ASSUME NEW g \in Connected'
       PROVE  /\ \A k \in 1..Len(conns'[g].wbuf) : conns'[g].wbuf[k] = conns'[g].id
              /\ \A q \in Peers, j \in Ids : Has(q, j) => (q = sock'[g] <=> j = conns'[g].id)
  <2>1. CASE g = f
    <3>1. conns'[g].wbuf = <<>> /\ sock'[g] = p /\ conns'[g].id = i
      BY <1>6, <1>9, <1>10, <2>1
    <3>2. 1..Len(<<>>) = {}
      OBVIOUS
    <3> QED BY Zenon, <1>28, <1>29, <3>1, <3>2
  <2>2. CASE g \in Connected
    BY SMTT(60), <1>16, <1>27, <2>2
  <2> QED BY <1>13, <2>1, <2>2
<1>31. \A q \in Peers : peer'[q].state \in {"new", "queued"} => peer'[q].got = <<>>
  BY SMTT(60), <1>14, <1>27
<1>32. Delivery'
  <2>1. \A g \in Connected' : \A k \in 1..Len(conns'[g].wbuf) : conns'[g].wbuf[k] = conns'[g].id
    BY Zenon, <1>30
  <2>2. \A q \in Peers, j \in Ids : Has(q, j)' => j < nextId'
    BY Zenon, <1>26, <1>29
  <2>3. \A q, r \in Peers, j \in Ids : Has(q, j)' /\ Has(r, j)' => q = r
    BY Zenon, <1>26, <1>27
  <2>4. \A g \in Connected', q \in Peers, j \in Ids :
           Has(q, j)' => (q = sock'[g] <=> j = conns'[g].id)
    BY ZenonT(60), <1>26, <1>30
  <2> QED BY Zenon, <1>31, <2>1, <2>2, <2>3, <2>4 DEF Delivery, Addressed, Unheard, Issued, Single, Owned
<1>33. Readable(y) <=> Readable(x)
  BY <1>5 DEF Readable
<1> QED BY ZenonT(60), <1>6, <1>8, <1>9, <1>10, <1>12, <1>13, <1>16, <1>20, <1>21, <1>24,
         <1>25, <1>32, <1>33 DEF Tables

(* accept takes a peer from the backlog and drops it again.                *)
LEMMA ConnectionRefused ==
    ASSUME Counting, Tables, backlog # <<>>,
           peer' = [peer EXCEPT ![Head(backlog)] = Peer("closed", <<>>)],
           backlog' = Tail(backlog), nextId' \in {nextId, nextId + 1},
           UNCHANGED <<sock, conns, clientToFd>>
    PROVE  /\ Tables' /\ Connected' = Connected
           /\ \A g \in Connected : peer'[sock[g]] = peer[sock[g]]
<1> DEFINE p == Head(backlog)
           y == Peer("closed", <<>>)
<1>1. TypeTables /\ Kernel /\ Linked /\ Bounded /\ Delivery
  BY DEF Tables
<1>2. /\ p \in Peers /\ peer[p].state = "queued" /\ nextId \in Ids
      /\ Cardinality(Accepted \union {p}) = Cardinality(Accepted) + 1
  BY <1>1, IdLeft
<1>3. peer \in [Peers -> PeerStates] /\ peer' = [peer EXCEPT ![p] = y]
  BY <1>1 DEF TypeTables
<1>4. y \in PeerStates /\ y.state = "closed" /\ y.got = <<>>
  BY RoomAssumption DEF Peer, PeerStates
<1> HIDE DEF y
<1>5. /\ peer' \in [Peers -> PeerStates] /\ peer'[p] = y
      /\ \A q \in Peers : q # p => peer'[q] = peer[q]
  BY SMTT(60), <1>2, <1>3, <1>4, OneReplaced
<1>6. peer[p].got = <<>>
  BY Zenon, <1>1, <1>2 DEF Delivery, Addressed, Unheard, Issued, Single, Owned
<1>7. \A q \in Peers : /\ peer'[q].got = peer[q].got
                       /\ peer'[q].state = IF q = p THEN "closed" ELSE peer[q].state
  BY Zenon, <1>4, <1>5, <1>6
<1>8. Accepted' = Accepted \union {p}
  BY <1>2, <1>7 DEF Accepted
<1>9. Connected' = Connected
  BY DEF Connected
<1>10. \A g \in Fds : sock[g] # NoPeer => /\ sock[g] \in Peers /\ peer[sock[g]].state = "open"
                                          /\ sock[g] # p
  <2>1. \A g \in Fds : sock[g] # NoPeer => sock[g] \in Peers /\ peer[sock[g]].state = "open"
    BY Zenon, <1>1 DEF Kernel, TypeTables
  <2> QED BY <1>2, <2>1
<1>11. nextId <= Cardinality(Accepted) + 1 /\ Cardinality(Accepted) \in Nat /\ nextId \in Nat
  BY <1>1, <1>2, Counts DEF Kernel, Ids
<1>12. nextId' <= Cardinality(Accepted') + 1 /\ nextId <= nextId' /\ nextId' \in Nat
  BY <1>2, <1>8, <1>11
<1>13. /\ backlog' \in Seq(Peers)
       /\ \A k \in DOMAIN backlog' : peer'[backlog'[k]].state = "queued"
       /\ \A k, l \in DOMAIN backlog' : backlog'[k] = backlog'[l] => k = l
  BY Zenon, <1>1, <1>7, BacklogShortened
<1>14. Kernel'
  <2>1. \A g \in Fds : sock[g] # NoPeer => peer'[sock[g]].state = "open"
    BY Zenon, <1>7, <1>10
  <2>2. \A g, h \in Fds : sock[g] = sock[h] /\ sock[g] # NoPeer => g = h
    BY Zenon, <1>1 DEF Kernel
  <2> QED BY Zenon, <1>12, <1>13, <2>1, <2>2 DEF Kernel
<1>15. TypeTables'
  <2>1. nextId' \in 1..(Cardinality(Peers) + 1)
    BY <1>2, Counts DEF Ids
  <2> QED BY <1>1, <1>5, <1>13, <2>1 DEF TypeTables
<1>16. \A j \in Ids : j < nextId => j < nextId'
  BY <1>11, <1>12 DEF Ids
<1>17. \A g \in Connected : conns[g].id \in Ids
  BY <1>1, ConnectionIs
<1>18. Linked' /\ Bounded'
  BY Zenon, <1>1, <1>9, <1>16, <1>17 DEF Linked, Bounded
<1>19. \A q \in Peers : \A j : Has(q, j)' <=> Has(q, j)
  BY Zenon, <1>7 DEF Has
<1>20. \A q \in Peers : peer'[q].state \in {"new", "queued"} => peer'[q].got = <<>>
  <2>1. \A q \in Peers : peer[q].state \in {"new", "queued"} => peer[q].got = <<>>
    BY Zenon, <1>1 DEF Delivery, Unheard
  <2> QED BY <1>7, <2>1
<1>21. Delivery'
  <2>1. Addressed' /\ Unheard'
    BY Zenon, <1>1, <1>9, <1>20 DEF Delivery, Addressed, Unheard
  <2> QED BY Zenon, <1>1, <1>9, <1>16, <1>19, <2>1, DeliverySame
<1>22. \A g \in Connected : peer'[sock[g]] = peer[sock[g]]
  <2>1. \A g \in Connected : g \in Fds /\ sock[g] # NoPeer
    BY Zenon, <1>1 DEF Linked, Connected
  <2> QED BY Zenon, <1>5, <1>10, <2>1
<1> QED BY <1>9, <1>14, <1>15, <1>18, <1>21, <1>22 DEF Tables

-----------------------------------------------------------------------------
(* Steps that close connections.                                           *)

(* Connections are closed: all tables forget them, the others are as they  *)
(* were.                                                                   *)
LEMMA ConnectionsClosed ==
    ASSUME Tables, NEW D \in SUBSET Fds,
           sock' \in [Fds -> Peers \union {NoPeer}],
           \A g \in Fds : sock'[g] = IF g \in D THEN NoPeer ELSE sock[g],
           conns' \in [Fds -> Connections \union {NoConnection}],
           \A g \in Fds : conns'[g] = IF g \in D THEN NoConnection ELSE conns[g],
           clientToFd' \in [Ids -> Fds \union {NoFd}],
           \A i \in Ids : clientToFd'[i] = IF clientToFd[i] \in D THEN NoFd ELSE clientToFd[i],
           peer' \in [Peers -> PeerStates],
           \A p \in Peers : \/ peer'[p] = peer[p]
                            \/ /\ peer[p].state = "open" /\ peer'[p].state = "closed"
                               /\ peer'[p].got = peer[p].got
                               /\ \A g \in Fds \ D : sock[g] # p,
           UNCHANGED <<backlog, nextId>>
    PROVE  /\ Tables' /\ Connected' = Connected \ D
           /\ \A g \in Connected' : /\ conns'[g] = conns[g] /\ sock'[g] = sock[g]
                                    /\ peer'[sock[g]] = peer[sock[g]]
<1>1. TypeTables /\ Kernel /\ Linked /\ Bounded /\ Delivery
  BY DEF Tables
<1>2. Connected' = Connected \ D
  BY SMTT(60) DEF Connected
<1>3. \A g \in Connected : g \in Fds /\ sock[g] \in Peers /\ conns[g].id \in Ids
  BY <1>1, ConnectionIs
<1>4. \A q \in Peers : /\ peer'[q].got = peer[q].got
                       /\ peer'[q].state = peer[q].state
                             \/ (peer[q].state = "open" /\ peer'[q].state = "closed")
  BY Zenon
<1>5. \A g \in Connected' : /\ g \in Connected /\ g \in Fds /\ conns'[g] = conns[g] /\ sock'[g] = sock[g]
                            /\ peer'[sock[g]] = peer[sock[g]]
  BY ZenonT(60), <1>2, <1>3
<1>6. Accepted' = Accepted
  <2>1. \A q \in Peers : peer'[q].state \in {"open", "closed"} <=> peer[q].state \in {"open", "closed"}
    BY <1>4
  <2> QED BY <2>1 DEF Accepted
<1>7. Kernel'
  <2>1. \A k \in DOMAIN backlog : backlog[k] \in Peers
    BY <1>1 DEF TypeTables
  <2>2. \A k \in DOMAIN backlog : peer[backlog[k]].state = "queued"
    BY Zenon, <1>1 DEF Kernel
  <2>3. \A k \in DOMAIN backlog : peer'[backlog[k]].state = "queued"
    BY <1>4, <2>1, <2>2
  <2>4. \A g \in Fds : sock[g] # NoPeer => sock[g] \in Peers /\ peer[sock[g]].state = "open"
    BY SMTT(60), <1>1 DEF Kernel, TypeTables
  <2>5. \A g \in Fds : sock'[g] # NoPeer => peer'[sock'[g]].state = "open"
    BY SMTT(60), <2>4
  <2>6. \A g, h \in Fds : sock[g] = sock[h] /\ sock[g] # NoPeer => g = h
    BY Zenon, <1>1 DEF Kernel
  <2>7. \A g, h \in Fds : sock'[g] = sock'[h] /\ sock'[g] # NoPeer => g = h
    BY ZenonT(60), <2>6
  <2>8. \A k, l \in DOMAIN backlog : backlog[k] = backlog[l] => k = l
    BY Zenon, <1>1 DEF Kernel
  <2>9. nextId <= Cardinality(Accepted) + 1
    BY Zenon, <1>1 DEF Kernel
  <2> QED BY Zenon, <1>6, <2>3, <2>5, <2>7, <2>8, <2>9 DEF Kernel
<1>8. TypeTables'
  BY <1>1 DEF TypeTables
<1>9. Linked'
  <2>1. /\ \A j \in Ids, g \in Fds : clientToFd[j] = g <=> g \in Connected /\ conns[g].id = j
        /\ \A g \in Fds : g \in Connected <=> sock[g] # NoPeer
        /\ \A g \in Connected : conns[g].id < nextId
    BY Zenon, <1>1 DEF Linked
  <2>2. ASSUME NEW j \in Ids, NEW g \in Fds
        PROVE  clientToFd'[j] = g <=> g \in Connected' /\ conns'[g].id = j
    <3>1. CASE g \in D
      BY <1>2, <3>1, SpecialFds
    <3>2. CASE g \notin D
      <4>1. clientToFd'[j] = g <=> clientToFd[j] = g
        BY SMTT(60), <3>2, SpecialFds
      <4> QED BY SMTT(60), <1>2, <2>1, <3>2, <4>1
    <3> QED BY <3>1, <3>2
  <2>3. \A g \in Fds : g \in Connected' <=> sock'[g] # NoPeer
    BY Zenon, <1>2, <2>1
  <2>4. \A g \in Connected' : conns'[g].id < nextId'
    BY Zenon, <1>5, <2>1
  <2> QED BY Zenon, <2>2, <2>3, <2>4 DEF Linked
<1>10. Bounded'
  BY Zenon, <1>1, <1>5 DEF Bounded
<1>11. \A q \in Peers : \A j : Has(q, j)' <=> Has(q, j)
  BY Zenon, <1>4 DEF Has
<1>12. \A q \in Peers : peer'[q].state \in {"new", "queued"} => peer'[q].got = <<>>
  <2>1. \A q \in Peers : peer[q].state \in {"new", "queued"} => peer[q].got = <<>>
    BY Zenon, <1>1 DEF Delivery, Addressed, Unheard, Issued, Single, Owned
  <2> QED BY <1>4, <2>1
<1>13. Delivery'
  <2>1. Addressed' /\ Unheard'
    BY SMTT(60), <1>1, <1>5, <1>12 DEF Delivery, Addressed, Unheard
  <2>2. nextId' = nextId
    OBVIOUS
  <2> QED BY Zenon, <1>1, <1>5, <1>11, <2>1, <2>2, DeliverySame
<1> QED BY Zenon, <1>2, <1>5, <1>7, <1>8, <1>9, <1>10, <1>13 DEF Tables

(* What a closed peer is.                                                  *)
LEMMA ClosedPeer ==
    ASSUME NEW g \in Seq(Ids)
    PROVE  /\ Peer("closed", g) \in PeerStates /\ Peer("closed", g).state = "closed"
           /\ Peer("closed", g).got = g
BY RoomAssumption DEF Peer, PeerStates

(* close_connection of one descriptor.                                     *)
LEMMA OneClosed ==
    ASSUME Tables, NEW f \in Fds, Close(f), UNCHANGED <<backlog, nextId>>
    PROVE  /\ Tables' /\ Connected' = Connected \ {f}
           /\ \A g \in Connected' : /\ conns'[g] = conns[g] /\ sock'[g] = sock[g]
                                    /\ peer'[sock[g]] = peer[sock[g]]
<1>1. TypeTables /\ Kernel /\ Linked
  BY DEF Tables
<1>2. /\ sock \in [Fds -> Peers \union {NoPeer}] /\ conns \in [Fds -> Connections \union {NoConnection}]
      /\ clientToFd \in [Ids -> Fds \union {NoFd}] /\ peer \in [Peers -> PeerStates]
  BY <1>1 DEF TypeTables
<1>3. /\ sock' = [sock EXCEPT ![f] = NoPeer] /\ conns' = [conns EXCEPT ![f] = NoConnection]
      /\ clientToFd' = [i \in Ids |-> IF conns[f] # NoConnection /\ conns[f].id = i
                                    THEN NoFd ELSE clientToFd[i]]
      /\ peer' = [p \in Peers |-> IF p = sock[f] THEN Peer("closed", peer[p].got) ELSE peer[p]]
  BY DEF Close
<1>4. /\ sock' \in [Fds -> Peers \union {NoPeer}] /\ sock'[f] = NoPeer
      /\ \A g \in Fds : g # f => sock'[g] = sock[g]
  BY ONLY f \in Fds, <1>2, <1>3
<1>5. /\ conns' \in [Fds -> Connections \union {NoConnection}] /\ conns'[f] = NoConnection
      /\ \A g \in Fds : g # f => conns'[g] = conns[g]
  BY ONLY f \in Fds, <1>2, <1>3
<1>6. \A i \in Ids : conns[f] # NoConnection /\ conns[f].id = i <=> clientToFd[i] = f
  BY Zenon, <1>1 DEF Linked, Connected
<1>7. /\ clientToFd' \in [Ids -> Fds \union {NoFd}]
      /\ \A i \in Ids : clientToFd'[i] = IF clientToFd[i] = f THEN NoFd ELSE clientToFd[i]
  BY ONLY <1>2, <1>3, <1>6
<1>8. \A p \in Peers : peer[p].got \in Seq(Ids) /\ peer[p] \in PeerStates
  BY <1>1, PeerIs
<1>9. \A p \in Peers : peer'[p] = IF p = sock[f] THEN Peer("closed", peer[p].got) ELSE peer[p]
  BY ONLY <1>3
<1>10. peer' \in [Peers -> PeerStates]
  <2>1. \A p \in Peers : (IF p = sock[f] THEN Peer("closed", peer[p].got) ELSE peer[p]) \in PeerStates
    BY Zenon, <1>8, ClosedPeer
  <2> QED BY ONLY <1>3, <2>1
<1>11. ASSUME NEW p \in Peers
       PROVE  \/ peer'[p] = peer[p]
              \/ /\ peer[p].state = "open" /\ peer'[p].state = "closed"
                 /\ peer'[p].got = peer[p].got /\ \A g \in Fds \ {f} : sock[g] # p
  <2>1. CASE p = sock[f]
    <3>1. p # NoPeer
      BY NothingAssumption
    <3>2. peer[p].state = "open" /\ \A g \in Fds \ {f} : sock[g] # p
      BY Zenon, <1>1, <2>1, <3>1 DEF Kernel
    <3> QED BY SMTT(60), <1>8, <1>9, <2>1, <3>2, ClosedPeer
  <2>2. CASE p # sock[f]
    BY <1>9, <2>2
  <2> QED BY <2>1, <2>2
<1> DEFINE D == {f}
<1>12. D \in SUBSET Fds /\ \A e : e \in D <=> e = f
  OBVIOUS
<1> HIDE DEF D
<1>13. /\ \A g \in Fds : sock'[g] = IF g \in D THEN NoPeer ELSE sock[g]
       /\ \A g \in Fds : conns'[g] = IF g \in D THEN NoConnection ELSE conns[g]
       /\ \A i \in Ids : clientToFd'[i] = IF clientToFd[i] \in D THEN NoFd ELSE clientToFd[i]
       /\ \A p \in Peers : \/ peer'[p] = peer[p]
                           \/ /\ peer[p].state = "open" /\ peer'[p].state = "closed"
                              /\ peer'[p].got = peer[p].got
                              /\ \A g \in Fds \ D : sock[g] # p
  BY SMTT(60), <1>4, <1>5, <1>7, <1>11, <1>12
<1>14. /\ Tables' /\ Connected' = Connected \ D
       /\ \A g \in Connected' : /\ conns'[g] = conns[g] /\ sock'[g] = sock[g]
                                /\ peer'[sock[g]] = peer[sock[g]]
  BY Zenon, <1>4, <1>5, <1>7, <1>10, <1>12, <1>13, ConnectionsClosed
<1> QED BY <1>14 DEF D

(* The end of run().                                                       *)
LEMMA EveryClosed ==
    ASSUME Tables, CloseAll, UNCHANGED <<backlog, nextId>>
    PROVE  Tables' /\ Connected' = {}
<1>1. TypeTables /\ Kernel /\ Linked
  BY DEF Tables
<1>2. /\ sock \in [Fds -> Peers \union {NoPeer}] /\ conns \in [Fds -> Connections \union {NoConnection}]
      /\ clientToFd \in [Ids -> Fds \union {NoFd}] /\ peer \in [Peers -> PeerStates]
  BY <1>1 DEF TypeTables
<1>3. /\ sock' = [f \in Fds |-> NoPeer] /\ conns' = [f \in Fds |-> NoConnection]
      /\ clientToFd' = [i \in Ids |-> NoFd]
      /\ peer' = [p \in Peers |-> IF peer[p].state = "open" THEN Peer("closed", peer[p].got) ELSE peer[p]]
  BY DEF CloseAll
<1>4. /\ sock' \in [Fds -> Peers \union {NoPeer}] /\ \A g \in Fds : sock'[g] = NoPeer
      /\ conns' \in [Fds -> Connections \union {NoConnection}] /\ \A g \in Fds : conns'[g] = NoConnection
      /\ clientToFd' \in [Ids -> Fds \union {NoFd}] /\ \A i \in Ids : clientToFd'[i] = NoFd
  BY ONLY <1>3
<1>5. \A i \in Ids : clientToFd'[i] = IF clientToFd[i] \in Fds THEN NoFd ELSE clientToFd[i]
  BY <1>2, <1>4
<1>6. \A p \in Peers : peer[p].got \in Seq(Ids) /\ peer[p] \in PeerStates
  BY <1>1, PeerIs
<1>7. \A p \in Peers : peer'[p] = IF peer[p].state = "open" THEN Peer("closed", peer[p].got) ELSE peer[p]
  BY ONLY <1>3
<1>8. peer' \in [Peers -> PeerStates]
  <2>1. \A p \in Peers : (IF peer[p].state = "open" THEN Peer("closed", peer[p].got) ELSE peer[p]) \in PeerStates
    BY Zenon, <1>6, ClosedPeer
  <2> QED BY ONLY <1>3, <2>1
<1> DEFINE D == Fds
<1>9. D \in SUBSET Fds /\ \A g \in Fds : g \in D
  OBVIOUS
<1>10. \A p \in Peers : \/ peer'[p] = peer[p]
                        \/ /\ peer[p].state = "open" /\ peer'[p].state = "closed"
                           /\ peer'[p].got = peer[p].got /\ \A g \in Fds \ D : sock[g] # p
  BY Zenon, <1>6, <1>7, <1>9, ClosedPeer
<1>11. /\ \A g \in Fds : sock'[g] = IF g \in D THEN NoPeer ELSE sock[g]
       /\ \A g \in Fds : conns'[g] = IF g \in D THEN NoConnection ELSE conns[g]
       /\ \A i \in Ids : clientToFd'[i] = IF clientToFd[i] \in D THEN NoFd ELSE clientToFd[i]
  BY Zenon, <1>4, <1>5
<1> HIDE DEF D
<1>12. Tables'
  BY Zenon, <1>4, <1>8, <1>9, <1>10, <1>11, ConnectionsClosed
<1>13. Connected' = {}
  BY <1>4 DEF Connected
<1> QED BY <1>12, <1>13

-----------------------------------------------------------------------------
(* What the loop owes, through the steps that change little of it.         *)

(* A connection stays served when nothing it waits for is taken away.      *)
LEMMA ServedKept ==
    ASSUME NEW g, Served(g), conns'[g].rbuf = conns[g].rbuf, conns'[g].wbuf = conns[g].wbuf,
           sock'[g] = sock[g], Flushing(g) => Flushing(g)',
           g \in armed => g \in armed', g \in ready => g \in ready',
           ReadPending(g) => ReadPending(g)', WritePending(g) => WritePending(g)' \/ Flushing(g)',
           Readable(peer'[sock[g]]) => Readable(peer[sock[g]]) \/ g \in ready',
           g \in armed /\ peer'[sock[g]].room > 0 => peer[sock[g]].room > 0 \/ g \in ready'
    PROVE  Served(g)'
<1>1. FrameLength(conns'[g].rbuf) = 0
  BY Zenon DEF Served
<1>2. Readable(peer'[sock'[g]]) => g \in ready' \/ ReadPending(g)'
  BY Zenon DEF Served
<1>3. conns'[g].wbuf # <<>> /\ ~Flushing(g)' =>
          /\ g \in armed'
          /\ peer'[sock'[g]].room > 0 => g \in ready' \/ WritePending(g)'
  BY Zenon DEF Served
<1> QED BY Zenon, <1>1, <1>2, <1>3 DEF Served

(* The events still to be handled, and the flush, for every connection.    *)
PendingKept ==
    \A g \in Connected : /\ Flushing(g) => Flushing(g)'
                         /\ ReadPending(g) => ReadPending(g)'
                         /\ WritePending(g) => WritePending(g)' \/ Flushing(g)'

(* A step of the world outside makes descriptors ready.                    *)
LEMMA WorldKeeps ==
    ASSUME TcpInv, Tables', Connected' = Connected, UNCHANGED <<conns, sock, armed, loopVars>>,
           NEW R \in SUBSET (Fds \union {Listener, Eventfd}), R \intersect Fds \subseteq Connected,
           ready' = ready \union R,
           efd' \in BOOLEAN, stop' \in BOOLEAN, inbound' \in Seq(Ids), outbound' \in Seq(Ids),
           \A g \in Connected : Readable(peer'[sock[g]]) => Readable(peer[sock[g]]) \/ g \in R,
           \A g \in Connected : g \in armed /\ peer'[sock[g]].room > 0 =>
                                    peer[sock[g]].room > 0 \/ g \in R
    PROVE  TcpInv'
<1>1. TypeLoop /\ Registered /\ Loop
  BY DEF TcpInv
<1>2. batch' = batch /\ at' = at /\ cur' = cur /\ out' = out
  BY DEF loopVars
<1>3. TypeLoop'
  BY Zenon, <1>1, <1>2 DEF TypeLoop
<1>4. Registered'
  BY Zenon, <1>1, <1>2 DEF Registered
<1>5. ASSUME NEW g \in Connected PROVE Served(g)'
  <2>1. /\ Flushing(g)' <=> Flushing(g)
        /\ ReadPending(g)' <=> ReadPending(g)
        /\ WritePending(g)' <=> WritePending(g)
    BY Zenon, <1>2 DEF Flushing, ReadPending, WritePending
  <2>2. Served(g)
    BY <1>1 DEF Loop
  <2>3. \A h \in R : h \in ready'
    OBVIOUS
  <2> QED BY Zenon, <2>1, <2>2, <2>3, ServedKept
<1>6. Handling'
  BY Zenon, <1>1, <1>2 DEF Loop, Handling, Reading
<1>7. Loop'
  BY Zenon, <1>1, <1>2, <1>5, <1>6 DEF Loop
<1> QED BY <1>3, <1>4, <1>7 DEF TcpInv

(* A step of the I/O thread that leaves sockets and connections alone.     *)
LEMMA LoopMoves ==
    ASSUME TcpInv, UNCHANGED <<peer, backlog, sock, conns, clientToFd, nextId, armed, ready>>,
           TypeLoop', at' = "wait" => batch' = {}, Handling', PendingKept,
           at' \in {"flush", "arm"} => out'.fd \in Connected
    PROVE  TcpInv'
<1>1. Tables /\ TypeLoop /\ Registered /\ Loop
  BY DEF TcpInv
<1>2. Tables' /\ Connected' = Connected
  BY <1>1, TablesIdle
<1>3. Registered'
  BY Zenon, <1>1, <1>2 DEF Registered
<1>4. ASSUME NEW g \in Connected PROVE Served(g)'
  <2>1. Served(g)
    BY <1>1 DEF Loop
  <2>2. /\ Flushing(g) => Flushing(g)'
        /\ ReadPending(g) => ReadPending(g)'
        /\ WritePending(g) => WritePending(g)' \/ Flushing(g)'
    BY Zenon DEF PendingKept
  <2> QED BY Zenon, <2>1, <2>2, ServedKept
<1>5. Loop'
  BY Zenon, <1>2, <1>4 DEF Loop
<1> QED BY <1>2, <1>3, <1>5 DEF TcpInv

(* close_connection leaves every other connection served.                  *)
LEMMA CloseServes ==
    ASSUME TcpInv, NEW f \in Fds, Close(f), UNCHANGED <<backlog, nextId>>,
           \A g \in Connected : g # f => ~Flushing(g) /\ (ReadPending(g) => ReadPending(g)')
                                         /\ (WritePending(g) => WritePending(g)'),
           at' \notin {"flush", "arm"}
    PROVE  /\ Tables' /\ Registered' /\ armed' \subseteq Fds
           /\ ready' \subseteq Fds \union {Listener, Eventfd}
           /\ \A g \in Connected' : Served(g)'
<1>1. Tables /\ TypeLoop /\ Registered /\ Loop
  BY DEF TcpInv
<1>2. /\ Tables' /\ Connected' = Connected \ {f}
      /\ \A g \in Connected' : /\ conns'[g] = conns[g] /\ sock'[g] = sock[g]
                               /\ peer'[sock[g]] = peer[sock[g]]
  BY Zenon, <1>1, OneClosed
<1>3. armed' = armed \ {f} /\ ready' = ready \ {f}
  BY DEF Close
<1>4. armed' \subseteq Fds /\ ready' \subseteq Fds \union {Listener, Eventfd}
  BY <1>1, <1>3 DEF TypeLoop
<1>5. Registered'
  BY Zenon, <1>1, <1>2, <1>3 DEF Registered
<1>6. ASSUME NEW g \in Connected' PROVE Served(g)'
  <2>1. g \in Connected /\ g # f
    BY <1>2
  <2>2. Served(g)
    BY <1>1, <2>1 DEF Loop
  <2>3. /\ conns'[g] = conns[g] /\ sock'[g] = sock[g] /\ peer'[sock[g]] = peer[sock[g]]
        /\ g \in armed => g \in armed'
        /\ g \in ready => g \in ready'
    BY <1>2, <1>3, <2>1
  <2>4. ~Flushing(g) /\ (ReadPending(g) => ReadPending(g)') /\ (WritePending(g) => WritePending(g)')
    BY <2>1
  <2> QED BY Zenon, <2>2, <2>3, <2>4, ServedKept
<1> QED BY <1>2, <1>4, <1>5, <1>6

-----------------------------------------------------------------------------
(* The invariant through the steps of the world outside.                   *)

(* The descriptors of a peer are of a connection.                          *)
LEMMA FdOfConnected ==
    ASSUME Tables, NEW p \in Peers
    PROVE  /\ FdOf(p) \in SUBSET (Fds \union {Listener, Eventfd})
           /\ FdOf(p) \intersect Fds \subseteq Connected
           /\ \A g \in Connected : sock[g] = p => g \in FdOf(p)
<1>1. Linked /\ p # NoPeer
  BY NothingAssumption DEF Tables
<1>2. \A g \in FdOf(p) : g \in Fds /\ g \in Connected
  BY <1>1 DEF FdOf, Linked
<1>3. \A g \in Connected : g \in Fds
  BY DEF Connected
<1> QED BY <1>2, <1>3 DEF FdOf

(* A peer connects: it only joins the backlog.                             *)
LEMMA ConnectKeeps ==
    ASSUME TcpInv, NEW p \in Peers, Connect(p)
    PROVE  TcpInv'
<1>1. Tables /\ TypeLoop /\ TypeTables /\ Linked
  BY DEF TcpInv, Tables
<1>2. /\ peer[p].state = "new" /\ peer' = [peer EXCEPT ![p].state = "queued"]
      /\ backlog' = Append(backlog, p) /\ ready' = ready \union {Listener}
      /\ UNCHANGED <<sock, conns, clientToFd, nextId, armed, efd, stop, inbound, outbound, loopVars>>
  BY DEF Connect, tableVars, ringVars
<1>3. /\ Tables' /\ Connected' = Connected
      /\ \A q \in Peers : /\ peer'[q].unread = peer[q].unread /\ peer'[q].fin = peer[q].fin
                          /\ peer'[q].room = peer[q].room
  BY Zenon, <1>1, <1>2, PeerConnects
<1>4. \A g \in Connected : sock[g] \in Peers
  BY <1>1, ConnectionIs
<1>5. \A g \in Connected : /\ Readable(peer'[sock[g]]) => Readable(peer[sock[g]])
                           /\ peer'[sock[g]].room = peer[sock[g]].room
  BY Zenon, <1>3, <1>4 DEF Readable
<1> DEFINE R == {Listener}
<1>6. R \in SUBSET (Fds \union {Listener, Eventfd}) /\ R \intersect Fds \subseteq Connected
  BY SpecialFds
<1>7. ready' = ready \union R
  BY <1>2
<1> HIDE DEF R
<1>8. efd' \in BOOLEAN /\ stop' \in BOOLEAN /\ inbound' \in Seq(Ids) /\ outbound' \in Seq(Ids)
  BY Zenon, <1>1, <1>2 DEF TypeLoop
<1> QED BY Zenon, <1>2, <1>3, <1>5, <1>6, <1>7, <1>8, WorldKeeps

(* A peer does something to its own socket.                                *)
LEMMA PeerActs ==
    ASSUME TcpInv, NEW p \in Peers, NEW y \in PeerStates,
           peer' = [peer EXCEPT ![p] = y], y.state = peer[p].state, y.got = peer[p].got,
           NEW R, R \subseteq FdOf(p), ready' = ready \union R,
           Readable(y) => Readable(peer[p]) \/ R = FdOf(p),
           y.room > 0 => peer[p].room > 0 \/ R = FdOf(p) \intersect armed,
           UNCHANGED <<backlog, sock, conns, clientToFd, nextId, armed, efd, inbound, outbound, stop,
                       loopVars>>
    PROVE  TcpInv'
<1>1. Tables /\ TypeLoop /\ TypeTables /\ Linked
  BY DEF TcpInv, Tables
<1>2. peer \in [Peers -> PeerStates]
  BY <1>1 DEF TypeTables
<1>3. /\ peer' \in [Peers -> PeerStates] /\ peer'[p] = y
      /\ \A q \in Peers : q # p => peer'[q] = peer[q]
  BY ONLY <1>2, p \in Peers, y \in PeerStates, peer' = [peer EXCEPT ![p] = y]
<1>4. \A q \in Peers : peer'[q].state = peer[q].state /\ peer'[q].got = peer[q].got
  BY Zenon, <1>3
<1>5. Tables' /\ Connected' = Connected
  BY Zenon, <1>1, <1>3, <1>4, PeersAct
<1>6. /\ FdOf(p) \in SUBSET (Fds \union {Listener, Eventfd})
      /\ FdOf(p) \intersect Fds \subseteq Connected
      /\ \A g \in Connected : sock[g] = p => g \in FdOf(p)
  BY <1>1, FdOfConnected
<1>7. R \in SUBSET (Fds \union {Listener, Eventfd}) /\ R \intersect Fds \subseteq Connected
  BY <1>6
<1>8. \A g \in Connected : sock[g] \in Peers
  BY SMTT(60), <1>1, ConnectionIs
<1>9. ASSUME NEW g \in Connected
      PROVE  /\ Readable(peer'[sock[g]]) => Readable(peer[sock[g]]) \/ g \in R
             /\ g \in armed /\ peer'[sock[g]].room > 0 => peer[sock[g]].room > 0 \/ g \in R
  <2>1. CASE sock[g] = p
    BY Zenon, <1>3, <1>6, <2>1
  <2>2. CASE sock[g] # p
    BY Zenon, <1>3, <1>8, <2>2
  <2> QED BY <2>1, <2>2
<1>10. efd' \in BOOLEAN /\ stop' \in BOOLEAN /\ inbound' \in Seq(Ids) /\ outbound' \in Seq(Ids)
  BY Zenon, <1>1 DEF TypeLoop
<1> QED BY Zenon, <1>5, <1>7, <1>9, <1>10, WorldKeeps

(* Bytes that arrive raise an event for their connection.                  *)
LEMMA TransmitKeeps ==
    ASSUME TcpInv, NEW p \in Peers, NEW unit \in Units, Transmit(p, unit)
    PROVE  TcpInv'
<1> DEFINE x == peer[p]
           u == Append(x.unread, unit)
           y == [x EXCEPT !.unread = u, !.mid = (unit = "part")]
<1>1. TypeTables
  BY DEF TcpInv, Tables
<1>2. x \in PeerStates /\ x.unread \in Seq(Units) /\ peer \in [Peers -> PeerStates]
  BY <1>1, PeerIs DEF TypeTables
<1>3. u \in Seq(Units)
  BY <1>2
<1>4. /\ peer' = [peer EXCEPT ![p] = y] /\ ready' = ready \union FdOf(p)
  <2>1. peer' = [peer EXCEPT ![p].unread = Append(@, unit), ![p].mid = (unit = "part")]
    BY DEF Transmit
  <2> QED BY Zenon, <1>2, <2>1 DEF Transmit
<1>5. /\ y \in PeerStates /\ y.state = x.state /\ y.got = x.got /\ y.room = x.room
  <2> HIDE DEF u, x
  <2> DEFINE m == (unit = "part")
             z == [x EXCEPT !.unread = u]
  <2>1. m \in BOOLEAN
    OBVIOUS
  <2> HIDE DEF m
  <2>2. y = [z EXCEPT !.mid = m]
    BY <1>2 DEF PeerStates, m
  <2>3. z \in PeerStates /\ z.state = x.state /\ z.got = x.got /\ z.room = x.room
    BY ONLY Zenon, <1>2, <1>3 DEF PeerStates
  <2> HIDE DEF z
  <2>4. y \in PeerStates /\ y.state = z.state /\ y.got = z.got /\ y.room = z.room
    BY ONLY Zenon, <2>1, <2>2, <2>3 DEF PeerStates
  <2> QED BY <2>3, <2>4
<1>6. UNCHANGED <<backlog, sock, conns, clientToFd, nextId, armed, efd, inbound, outbound, stop, loopVars>>
  BY DEF Transmit, tableVars, ringVars
<1> HIDE DEF y
<1> DEFINE R == FdOf(p)
<1>7. R \subseteq FdOf(p) /\ ready' = ready \union R /\ R = FdOf(p)
  BY <1>4
<1> HIDE DEF R
<1> QED BY Zenon, <1>4, <1>5, <1>6, <1>7, PeerActs

(* So does the end of a peer's stream, or its reset.                       *)
LEMMA FinishKeeps ==
    ASSUME TcpInv, NEW p \in Peers, NEW how \in {"eof", "rst"}, Finish(p, how)
    PROVE  TcpInv'
<1> DEFINE x == peer[p]
           u == IF how = "rst" THEN <<>> ELSE x.unread
           y == [x EXCEPT !.fin = how, !.unread = u]
<1>1. TypeTables
  BY DEF TcpInv, Tables
<1>2. x \in PeerStates /\ x.unread \in Seq(Units) /\ peer \in [Peers -> PeerStates]
  BY <1>1, PeerIs DEF TypeTables
<1>3. u \in Seq(Units)
  BY <1>2
<1>4. /\ peer' = [peer EXCEPT ![p] = y] /\ ready' = ready \union FdOf(p)
  <2>1. peer' = [peer EXCEPT ![p].fin = how, ![p].unread = IF how = "rst" THEN <<>> ELSE @]
    BY DEF Finish
  <2> QED BY Zenon, <1>2, <2>1 DEF Finish, PeerStates
<1>5. /\ y \in PeerStates /\ y.state = x.state /\ y.got = x.got /\ y.room = x.room
  <2> HIDE DEF u, x
  <2> DEFINE z == [x EXCEPT !.fin = how]
  <2>1. how \in {"eof", "rst"}
    OBVIOUS
  <2>2. y = [z EXCEPT !.unread = u]
    BY <1>2 DEF PeerStates
  <2>3. z \in PeerStates /\ z.state = x.state /\ z.got = x.got /\ z.room = x.room
    BY ONLY Zenon, <1>2, <2>1 DEF PeerStates
  <2> HIDE DEF z
  <2>4. y \in PeerStates /\ y.state = z.state /\ y.got = z.got /\ y.room = z.room
    BY ONLY Zenon, <1>3, <2>2, <2>3 DEF PeerStates
  <2> QED BY <2>3, <2>4
<1>6. UNCHANGED <<backlog, sock, conns, clientToFd, nextId, armed, efd, inbound, outbound, stop, loopVars>>
  BY DEF Finish, tableVars, ringVars
<1> HIDE DEF y
<1> DEFINE R == FdOf(p)
<1>7. R \subseteq FdOf(p) /\ ready' = ready \union R /\ R = FdOf(p)
  BY <1>4
<1> HIDE DEF R
<1> QED BY Zenon, <1>4, <1>5, <1>6, <1>7, PeerActs

(* A peer reads: room for an armed connection raises an event.             *)
LEMMA ConsumeKeeps ==
    ASSUME TcpInv, NEW p \in Peers, Consume(p)
    PROVE  TcpInv'
<1> DEFINE x == peer[p]
           y == [x EXCEPT !.room = SendRoom]
<1>1. TypeTables
  BY DEF TcpInv, Tables
<1>2. x \in PeerStates /\ peer \in [Peers -> PeerStates]
  BY <1>1, PeerIs DEF TypeTables
<1>4. /\ peer' = [peer EXCEPT ![p] = y] /\ ready' = ready \union (FdOf(p) \intersect armed)
  BY <1>2 DEF Consume
<1>5. /\ y \in PeerStates /\ y.state = x.state /\ y.got = x.got /\ y.unread = x.unread /\ y.fin = x.fin
  <2> DEFINE r == SendRoom
  <2>1. r \in 0..SendRoom /\ y = [x EXCEPT !.room = r]
    BY RoomAssumption
  <2> HIDE DEF x, y, r
  <2> QED BY ONLY Zenon, <1>2, <2>1 DEF PeerStates
<1>6. UNCHANGED <<backlog, sock, conns, clientToFd, nextId, armed, efd, inbound, outbound, stop, loopVars>>
  BY DEF Consume, tableVars, ringVars
<1> HIDE DEF y
<1>8. Readable(y) => Readable(peer[p])
  BY <1>5 DEF Readable
<1> DEFINE R == FdOf(p) \intersect armed
<1>7. R \subseteq FdOf(p) /\ ready' = ready \union R /\ R = FdOf(p) \intersect armed
  BY <1>4
<1> HIDE DEF R
<1> QED BY ZenonT(60), <1>4, <1>5, <1>6, <1>7, <1>8, PeerActs

(* The matching thread and the operator touch rings and flags only.        *)
LEMMA OthersKeep ==
    ASSUME TcpInv, Respond \/ RequestShutdown
    PROVE  TcpInv'
<1>1. Tables /\ TypeLoop
  BY SMTT(60) DEF TcpInv
<1>2. /\ ready' = ready \union {Eventfd} /\ efd' = TRUE
      /\ UNCHANGED <<peer, backlog, sock, conns, clientToFd, nextId, armed, loopVars>>
  BY DEF Respond, RequestShutdown, tableVars
<1>3. inbound' \in Seq(Ids) /\ outbound' \in Seq(Ids) /\ stop' \in BOOLEAN
  <2>1. inbound \in Seq(Ids) /\ outbound \in Seq(Ids) /\ stop \in BOOLEAN
    BY SMTT(60), <1>1 DEF TypeLoop
  <2>2. CASE Respond
    <3>1. inbound # <<>> /\ inbound' = Tail(inbound) /\ outbound' = Append(outbound, Head(inbound))
      BY <2>2 DEF Respond
    <3>2. Head(inbound) \in Ids /\ Tail(inbound) \in Seq(Ids)
      BY <2>1, <3>1
    <3>3. Append(outbound, Head(inbound)) \in Seq(Ids)
      BY SMTT(60), <2>1, <3>2
    <3> QED BY SMTT(60), <2>1, <2>2, <3>1, <3>2, <3>3 DEF Respond
  <2>3. CASE RequestShutdown
    BY <2>1, <2>3 DEF RequestShutdown
  <2> QED BY <2>2, <2>3
<1>4. Tables' /\ Connected' = Connected
  BY SMTT(60), <1>1, <1>2, TablesIdle
<1> DEFINE R == {Eventfd}
<1>5. R \in SUBSET (Fds \union {Listener, Eventfd}) /\ R \intersect Fds \subseteq Connected
  BY SpecialFds
<1>6. ready' = ready \union R /\ efd' \in BOOLEAN
  BY <1>2
<1> HIDE DEF R
<1> QED BY ZenonT(60), <1>2, <1>3, <1>4, <1>5, <1>6, WorldKeeps

-----------------------------------------------------------------------------
(* The invariant through the steps of the I/O thread that leave sockets    *)
(* and connections alone.                                                  *)

(* Between events nothing is being read or flushed.                        *)
LEMMA NotReading ==
    ASSUME TcpInv, at \in {"wait", "batch", "accept", "drain", "stopped"}
    PROVE  cur = NoEvent /\ cur \in Currents /\ \A g : ~Flushing(g)
<1>1. Handling /\ cur \in Currents
  BY DEF TcpInv, Loop, TypeLoop
<1>2. ~Reading /\ \A g : ~Flushing(g)
  BY DEF Reading, Flushing
<1> QED BY SMTT(60), <1>1, <1>2 DEF Handling

(* Handling one event takes no other connection's event away.              *)
LEMMA OtherEvents ==
    ASSUME NEW e, batch' = batch \ {e}, cur = NoEvent, NEW g \in Fds, g # e.fd
    PROVE  /\ ReadPending(g) => ReadPending(g)'
           /\ WritePending(g) => WritePending(g)'
<1>1. NoEvent.fd # g
  BY SpecialFds DEF NoEvent
<1>2. ReadPending(g) => ReadPending(g)'
  BY DEF ReadPending
<1>3. WritePending(g) => WritePending(g)'
  BY <1>1 DEF WritePending
<1> QED BY SMTT(60), <1>2, <1>3

(* The end of a batch, of handle_accept, of the response drain.            *)
LEMMA DoneKeeps ==
    ASSUME TcpInv, BatchDone \/ AcceptDone \/ DrainDone
    PROVE  TcpInv'
<1>1. TypeLoop /\ at \in {"batch", "accept", "drain"} /\ at' \in {"wait", "batch"}
  BY SMTT(60) DEF TcpInv, BatchDone, AcceptDone, DrainDone
<1>2. UNCHANGED <<peer, backlog, sock, conns, clientToFd, nextId, armed, ready, efd, inbound, outbound,
                  stop, batch, cur, out>>
  BY DEF BatchDone, AcceptDone, DrainDone, kernelVars, tableVars, ringVars
<1>3. cur = NoEvent /\ \A g : ~Flushing(g)
  BY SMTT(60), <1>1, NotReading
<1>4. TypeLoop'
  BY SMTT(60), <1>1, <1>2 DEF TypeLoop
<1>5. at' = "wait" => batch' = {}
  BY SMTT(60), <1>2 DEF BatchDone, AcceptDone, DrainDone
<1>6. Handling'
  BY Zenon, <1>1, <1>2, <1>3 DEF Handling, Reading, NoEvent
<1>7. PendingKept
  BY Zenon, <1>2, <1>3 DEF PendingKept, ReadPending, WritePending
<1>8. at' \notin {"flush", "arm"}
  BY <1>1
<1> QED BY ZenonT(60), <1>2, <1>4, <1>5, <1>6, <1>7, <1>8, LoopMoves

(* An event of the listener or of the eventfd is taken up.                 *)
LEMMA HandleSpecialKeeps ==
    ASSUME TcpInv, NEW e \in batch, HandleSpecial(e)
    PROVE  TcpInv'
<1>1. /\ TypeLoop /\ at = "batch" /\ at' \in {"accept", "drain"} /\ batch' = batch \ {e}
      /\ e.fd \in {Listener, Eventfd} /\ efd' \in BOOLEAN
  BY DEF TcpInv, HandleSpecial
<1>2. UNCHANGED <<peer, backlog, sock, conns, clientToFd, nextId, armed, ready, inbound, outbound,
                  stop, cur, out>>
  BY DEF HandleSpecial, tableVars, ringVars
<1>3. cur = NoEvent /\ \A g : ~Flushing(g)
  BY SMTT(60), <1>1, NotReading
<1>4. TypeLoop'
  BY SMTT(60), <1>1, <1>2 DEF TypeLoop
<1>5. Handling'
  BY <1>1, <1>2, <1>3 DEF Handling, Reading, NoEvent
<1>6. \A g \in Connected : g \in Fds /\ g # e.fd
  BY <1>1, SpecialFds DEF Connected
<1>7. PendingKept
  BY <1>1, <1>3, <1>6, OtherEvents DEF PendingKept
<1>8. at' \notin {"flush", "arm", "wait"}
  BY <1>1
<1> QED BY ZenonT(60), <1>2, <1>4, <1>5, <1>7, <1>8, LoopMoves

(* EAGAIN: the flush goes on to arm EPOLLOUT.                              *)
LEMMA FlushBlockedKeeps ==
    ASSUME TcpInv, FlushBlocked
    PROVE  TcpInv'
<1>1. TypeLoop /\ Registered /\ Loop /\ at = "flush" /\ at' = "arm"
  BY DEF TcpInv, FlushBlocked
<1>2. UNCHANGED <<peer, backlog, sock, conns, clientToFd, nextId, armed, ready, efd, inbound, outbound,
                  stop, batch, cur, out>>
  BY DEF FlushBlocked, kernelVars, tableVars, ringVars
<1>3. TypeLoop'
  BY <1>1, <1>2 DEF TypeLoop
<1>4. Handling'
  <2>1. Reading' <=> Reading
    BY <1>1, <1>2 DEF Reading
  <2>2. Handling
    BY <1>1 DEF Loop
  <2> QED BY Zenon, <1>2, <2>1, <2>2 DEF Handling, NoEvent
<1>5. \A g : Flushing(g) => Flushing(g)'
  BY <1>1, <1>2 DEF Flushing
<1>6. PendingKept
  BY Zenon, <1>2, <1>5 DEF PendingKept, ReadPending, WritePending
<1>7. at' # "wait" /\ out'.fd \in Connected
  BY <1>1, <1>2 DEF Registered
<1> QED BY Zenon, <1>2, <1>3, <1>4, <1>6, <1>7, LoopMoves

(* handle_read returns when its connection is gone.                        *)
LEMMA DestroyedConnectionKeeps ==
    ASSUME TcpInv, DestroyedConnection
    PROVE  TcpInv'
<1>1. TypeLoop /\ at = "frames" /\ at' = "batch" /\ cur' = NoEvent /\ conns[cur.fd] = NoConnection
  BY DEF TcpInv, DestroyedConnection, HandleWrite
<1>2. UNCHANGED <<peer, backlog, sock, conns, clientToFd, nextId, armed, ready, efd, inbound, outbound,
                  stop, batch, out>>
  BY DEF DestroyedConnection, HandleWrite, kernelVars, tableVars, ringVars
<1>3. NoEvent \in Currents
  BY SMTT(60) DEF NoEvent, Currents
<1>4. TypeLoop'
  BY <1>1, <1>2, <1>3 DEF TypeLoop
<1>5. Handling'
  BY <1>1 DEF Handling, Reading, NoEvent
<1>6. \A g \in Connected : cur.fd # g /\ ~Flushing(g)
  BY <1>1 DEF Connected, Flushing
<1>7. PendingKept
  BY Zenon, <1>2, <1>6 DEF PendingKept, ReadPending, WritePending
<1>8. at' \notin {"flush", "arm", "wait"}
  BY <1>1
<1> QED BY ZenonT(60), <1>2, <1>4, <1>5, <1>7, <1>8, LoopMoves

(* How the loop goes on after handle_read.                                 *)
LEMMA WriteFollows ==
    ASSUME NEW f \in Fds, NEW flags, NEW live \in BOOLEAN, HandleWrite(f, flags, live),
           out \in Flushes
    PROVE  /\ cur' = NoEvent /\ cur' \in Currents /\ out' \in Flushes
           /\ at' \in {"flush", "batch"} /\ Handling'
           /\ at' = "flush" => live /\ out'.fd = f
           /\ "out" \in flags /\ live => Flushing(f)'
<1>1. cur' = NoEvent /\ NoEvent \in Currents
  BY SMTT(60) DEF HandleWrite, NoEvent, Currents
<1>2. CASE "out" \in flags /\ live
  <2>1. at' = "flush" /\ out' = [fd |-> f, ret |-> "batch"]
    BY <1>2 DEF HandleWrite
  <2>2. out' \in Flushes /\ out'.fd = f /\ out'.ret = "batch"
    BY SMTT(60), <2>1 DEF Flushes
  <2> QED BY <1>1, <1>2, <2>1, <2>2 DEF Handling, Reading, Flushing, NoEvent
<1>3. CASE ~("out" \in flags /\ live)
  <2>1. at' = "batch" /\ out' = out
    BY <1>3 DEF HandleWrite
  <2> QED BY Zenon, <1>1, <1>3, <2>1 DEF Handling, Reading, NoEvent
<1> QED BY SMTT(60), <1>2, <1>3

(* An event without EPOLLIN leads to the flush only.                       *)
LEMMA NothingToReadKeeps ==
    ASSUME TcpInv, NEW e \in batch, NothingToRead(e)
    PROVE  TcpInv'
<1> DEFINE f == e.fd
           live == conns[f] # NoConnection
<1>1. /\ TypeLoop /\ at = "batch" /\ f \in Fds /\ "hup" \notin e.flags /\ batch' = batch \ {e}
      /\ "in" \in e.flags => conns[f] = NoConnection
      /\ HandleWrite(f, e.flags, live)
  BY DEF TcpInv, NothingToRead, Event
<1>2. UNCHANGED <<peer, backlog, sock, conns, clientToFd, nextId, armed, ready, efd, inbound, outbound,
                  stop>>
  BY DEF NothingToRead, kernelVars, tableVars, ringVars
<1>3. cur = NoEvent /\ \A g : ~Flushing(g)
  BY <1>1, NotReading
<1>4. live \in BOOLEAN /\ (f \in Connected <=> live)
  BY <1>1 DEF Connected
<1>5. out \in Flushes
  BY <1>1 DEF TypeLoop
<1> HIDE DEF live
<1>6. /\ cur' = NoEvent /\ cur' \in Currents /\ out' \in Flushes
      /\ at' \in {"flush", "batch"} /\ Handling'
      /\ at' = "flush" => live /\ out'.fd = f
      /\ "out" \in e.flags /\ live => Flushing(f)'
  BY Zenon, <1>1, <1>4, <1>5, WriteFollows
<1>7. TypeLoop'
  BY <1>1, <1>2, <1>6 DEF TypeLoop
<1>8. ASSUME NEW g \in Connected
      PROVE  /\ ReadPending(g) => ReadPending(g)'
             /\ WritePending(g) => WritePending(g)' \/ Flushing(g)'
  <2>1. g \in Fds
    BY DEF Connected
  <2>2. CASE g # f
    BY Zenon, <1>1, <1>3, <2>1, <2>2, OtherEvents
  <2>3. CASE g = f
    <3>1. "in" \notin e.flags /\ "hup" \notin e.flags
      BY <1>1, <2>3 DEF Connected
    <3>2. ReadPending(g) => ReadPending(g)'
      BY <1>1, <3>1 DEF ReadPending
    <3>3. CASE "out" \in e.flags
      BY Zenon, <1>4, <1>6, <2>3, <3>2, <3>3
    <3>4. CASE "out" \notin e.flags
      <4>1. cur.fd # g
        BY SMTT(60), <1>3, <2>1, SpecialFds DEF NoEvent
      <4>2. WritePending(g) => WritePending(g)'
        BY <1>1, <3>1, <3>4, <4>1 DEF WritePending
      <4> QED BY <3>2, <4>2
    <3> QED BY <3>3, <3>4
  <2> QED BY <2>2, <2>3
<1>9. PendingKept
  BY Zenon, <1>3, <1>8 DEF PendingKept
<1>10. at' # "wait" /\ (at' \in {"flush", "arm"} => out'.fd \in Connected)
  BY <1>4, <1>6
<1> QED BY ZenonT(60), <1>2, <1>6, <1>7, <1>9, <1>10, LoopMoves

(* A buffer without its first frame.                                       *)
LEMMA FrameErased ==
    ASSUME NEW b \in Seq(Units), FrameLength(b) > 0
    PROVE  SubSeq(b, FrameLength(b) + 1, Len(b)) \in Seq(Units)
<1> DEFINE m == FrameLength(b) + 1
           l == Len(b)
<1>1. m \in {2, 3}
  BY DEF FrameLength
<1>2. l \in Nat /\ \A k \in 1..l : b[k] \in Units
  OBVIOUS
<1> HIDE DEF m, l
<1>3. m \in Int /\ l \in Int /\ \A k \in m..l : b[k] \in Units
  BY <1>1, <1>2
<1>4. SubSeq(b, m, l) \in Seq(Units)
  BY ONLY <1>3
<1> QED BY <1>4 DEF m, l

(* process_frame takes a frame of the read buffer and nothing else.        *)
LEMMA FrameTaken ==
    ASSUME TcpInv, NEW kinds, TakeFrame(kinds)
    PROVE  /\ at = "frames" /\ cur.fd \in Fds /\ cur.id \in Ids
           /\ cur' \in Currents /\ cur'.fd = cur.fd /\ cur'.flags = cur.flags /\ cur'.id = cur.id
<1>1. at = "frames" /\ TypeLoop /\ Handling
  BY DEF TcpInv, Loop, TakeFrame
<1>2. cur.fd \in Fds /\ cur.id \in Ids
  BY <1>1 DEF Handling, Reading
<1> DEFINE b == SubSeq(cur.buf, FrameLength(cur.buf) + 1, Len(cur.buf))
<1>3. cur \in Currents /\ cur.buf \in Seq(Units)
  BY <1>1 DEF TypeLoop, Currents
<1>4. FrameLength(cur.buf) > 0 /\ cur' = [cur EXCEPT !.buf = b]
  BY DEF TakeFrame
<1>5. b \in Seq(Units)
  BY <1>3, <1>4, FrameErased
<1> HIDE DEF b
<1>6. cur' \in Currents /\ cur'.fd = cur.fd /\ cur'.flags = cur.flags /\ cur'.id = cur.id
  BY ONLY SMTT(60), <1>3, <1>4, <1>5 DEF Currents
<1> QED BY <1>1, <1>2, <1>6

(* A command frame leaves the read buffer for the ring.                    *)
LEMMA CommandFrameKeeps ==
    ASSUME TcpInv, CommandFrame
    PROVE  TcpInv'
<1>1. /\ at = "frames" /\ cur.fd \in Fds /\ cur.id \in Ids
      /\ cur' \in Currents /\ cur'.fd = cur.fd /\ cur'.flags = cur.flags /\ cur'.id = cur.id
  <2>1. TakeFrame({"cmd"})
    BY DEF CommandFrame
  <2> QED BY <2>1, FrameTaken
<1>2. /\ TypeLoop /\ inbound' = Append(inbound, cur.id)
      /\ UNCHANGED <<peer, backlog, sock, conns, clientToFd, nextId, armed, ready, efd, outbound, stop,
                     batch, at, out>>
  BY DEF TcpInv, CommandFrame, kernelVars, tableVars
<1>3. inbound' \in Seq(Ids)
  BY <1>1, <1>2 DEF TypeLoop
<1>4. TypeLoop'
  BY <1>1, <1>2, <1>3 DEF TypeLoop
<1>5. Handling'
  BY <1>1, <1>2 DEF Handling, Reading
<1>6. \A g : Flushing(g) => Flushing(g)'
  BY <1>2 DEF Flushing
<1>7. PendingKept
  BY Zenon, <1>1, <1>2, <1>6 DEF PendingKept, ReadPending, WritePending
<1>8. at' \notin {"flush", "arm", "wait"}
  BY <1>1, <1>2
<1> QED BY Zenon, <1>2, <1>4, <1>5, <1>7, <1>8, LoopMoves

-----------------------------------------------------------------------------
(* The invariant through the other steps of the I/O thread.                *)

(* epoll_wait reports what connections have been made ready for.           *)
LEMMA EpollWaitKeeps ==
    ASSUME TcpInv, EpollWait
    PROVE  TcpInv'
<1>1. /\ Tables /\ TypeLoop /\ Registered /\ Loop /\ at = "wait" /\ batch' = Reported
      /\ ready' = {} /\ at' = "batch"
  BY DEF TcpInv, EpollWait
<1>2. UNCHANGED <<peer, backlog, sock, conns, clientToFd, nextId, armed, efd, inbound, outbound, stop,
                  cur, out>>
  BY DEF EpollWait, tableVars, ringVars
<1>3. cur = NoEvent /\ (\A g : ~Flushing(g)) /\ batch = {}
  BY <1>1, NotReading DEF Loop
<1>4. Tables' /\ Connected' = Connected
  BY <1>1, <1>2, TablesIdle
<1>5. \A g : Flags(g, armed) \in SUBSET {"in", "out", "hup"}
  BY DEF Flags
<1>6. batch' \subseteq Events
  <2> SUFFICES ASSUME NEW e \in Reported PROVE e \in Events
    BY <1>1
  <2>1. CASE \E g \in ready \ {Listener, Eventfd} : e = [fd |-> g, flags |-> Flags(g, armed)]
    <3>1. PICK g \in ready \ {Listener, Eventfd} : e = [fd |-> g, flags |-> Flags(g, armed)]
      BY <2>1
    <3>2. g \in Fds
      BY <1>1 DEF TypeLoop
    <3> QED BY <1>5, <3>1, <3>2 DEF Events
  <2>2. CASE e \in {[fd |-> Listener, flags |-> {"in"}], [fd |-> Eventfd, flags |-> {"in"}]}
    BY <2>2 DEF Events
  <2> QED BY <2>1, <2>2 DEF Reported
<1>7. TypeLoop'
  BY Zenon, <1>1, <1>2, <1>6 DEF TypeLoop
<1>8. Registered'
  BY SMTT(60), <1>1, <1>2, <1>4 DEF Registered
<1>9. Handling'
  BY <1>1, <1>2, <1>3 DEF Handling, Reading, NoEvent
<1>10. ASSUME NEW g \in Connected PROVE Served(g)'
  <2> DEFINE e == [fd |-> g, flags |-> Flags(g, armed)]
             x == peer[sock[g]]
  <2>1. g \in Fds /\ g \notin {Listener, Eventfd} /\ cur.fd # g
    BY <1>3, SpecialFds DEF Connected, NoEvent
  <2>2. Served(g)
    BY <1>1 DEF Loop
  <2>3. ~ReadPending(g) /\ ~WritePending(g) /\ ~Flushing(g)
    BY SMTT(60), <1>3, <2>1 DEF ReadPending, WritePending
  <2>4. g \in ready /\ Flags(g, armed) # {} => e \in batch'
    BY <1>1, <2>1 DEF Reported
  <2>5. /\ Readable(x) => "in" \in Flags(g, armed)
        /\ g \in armed /\ x.room > 0 => "out" \in Flags(g, armed)
    BY DEF Flags
  <2>6. e.fd = g /\ e.flags = Flags(g, armed)
    BY SMTT(60)
  <2> HIDE DEF e
  <2>7. FrameLength(conns'[g].rbuf) = 0
    BY <1>2, <2>2 DEF Served
  <2>8. Readable(x) => ReadPending(g)'
    <3> SUFFICES ASSUME Readable(x) PROVE ReadPending(g)'
      BY SMTT(60)
    <3>1. g \in ready /\ "in" \in Flags(g, armed)
      BY SMTT(60), <2>2, <2>3, <2>5 DEF Served
    <3>2. e \in batch'
      BY <2>4, <3>1
    <3> QED BY SMTT(60), <2>6, <3>1, <3>2 DEF ReadPending
  <2>9. conns[g].wbuf # <<>> => g \in armed /\ (x.room > 0 => WritePending(g)')
    <3> SUFFICES ASSUME conns[g].wbuf # <<>> PROVE g \in armed /\ (x.room > 0 => WritePending(g)')
      BY SMTT(60)
    <3>1. g \in armed /\ (x.room > 0 => g \in ready)
      BY SMTT(60), <2>2, <2>3 DEF Served
    <3>2. x.room > 0 => e \in batch' /\ "out" \in e.flags
      BY <2>4, <2>5, <2>6, <3>1
    <3> QED BY <2>6, <3>1, <3>2 DEF WritePending
  <2> QED BY Zenon, <1>2, <2>7, <2>8, <2>9 DEF Served
<1>11. Loop'
  BY ZenonT(60), <1>1, <1>4, <1>9, <1>10 DEF Loop
<1> QED BY <1>4, <1>7, <1>8, <1>11 DEF TcpInv

(* The end of run().                                                       *)
LEMMA CloseAllKeeps ==
    ASSUME TcpInv, LeaveLoop \/ DrainedAtShutdown
    PROVE  TcpInv'
<1>1. /\ Tables /\ TypeLoop /\ at \in {"batch", "drain"} /\ CloseAll
      /\ UNCHANGED <<backlog, nextId, efd, inbound, outbound, stop, cur, out>>
  BY DEF TcpInv, LeaveLoop, DrainedAtShutdown, ringVars
<1>2. Tables' /\ Connected' = {}
  BY SMTT(60), <1>1, EveryClosed
<1>3. armed' = {} /\ ready' = ready \ Fds /\ batch' = {} /\ at' = "stopped"
  BY <1>1 DEF CloseAll
<1>4. cur = NoEvent
  BY <1>1, NotReading
<1>5. TypeLoop'
  BY Zenon, <1>1, <1>3 DEF TypeLoop
<1>6. Registered'
  BY SMTT(60), <1>2, <1>3 DEF Registered
<1>7. Handling'
  BY <1>1, <1>3, <1>4 DEF Handling, Reading, NoEvent
<1>8. Loop'
  BY <1>2, <1>3, <1>7 DEF Loop
<1> QED BY <1>2, <1>5, <1>6, <1>8 DEF TcpInv

(* EPOLLHUP or EPOLLERR closes the connection.                             *)
LEMMA HandleHangupKeeps ==
    ASSUME TcpInv, NEW e \in batch, HandleHangup(e)
    PROVE  TcpInv'
<1> DEFINE f == e.fd
<1>1. /\ TypeLoop /\ at = "batch" /\ f \in Fds /\ Close(f) /\ batch' = batch \ {e}
      /\ UNCHANGED <<backlog, nextId, efd, inbound, outbound, stop, at, cur, out>>
  BY DEF TcpInv, HandleHangup, ringVars
<1>2. cur = NoEvent /\ \A g : ~Flushing(g)
  BY <1>1, NotReading
<1>3. \A g \in Connected : g # f => ~Flushing(g) /\ (ReadPending(g) => ReadPending(g)')
                                    /\ (WritePending(g) => WritePending(g)')
  BY Zenon, <1>1, <1>2, OtherEvents DEF Connected
<1>4. at' \notin {"flush", "arm", "wait"}
  BY <1>1
<1>5. /\ Tables' /\ Registered' /\ armed' \subseteq Fds
      /\ ready' \subseteq Fds \union {Listener, Eventfd}
      /\ \A g \in Connected' : Served(g)'
  BY Zenon, <1>1, <1>3, <1>4, CloseServes
<1>6. TypeLoop'
  BY ZenonT(60), <1>1, <1>5 DEF TypeLoop
<1>7. Handling'
  BY <1>1, <1>2 DEF Handling, Reading, NoEvent
<1>8. Loop'
  BY <1>4, <1>5, <1>7 DEF Loop
<1> QED BY SMTT(60), <1>5, <1>6, <1>8 DEF TcpInv

(* The end of the stream closes the connection.                            *)
LEMMA HandleEofKeeps ==
    ASSUME TcpInv, NEW e \in batch, HandleEof(e)
    PROVE  TcpInv'
<1> DEFINE f == e.fd
<1>1. /\ TypeLoop /\ at = "batch" /\ f \in Fds /\ Close(f) /\ batch' = batch \ {e}
      /\ HandleWrite(f, e.flags, FALSE)
      /\ UNCHANGED <<backlog, nextId, efd, inbound, outbound, stop>>
  BY Zenon DEF TcpInv, HandleEof, Event, ringVars
<1>2. cur = NoEvent /\ cur \in Currents /\ \A g : ~Flushing(g)
  BY SMTT(60), <1>1, NotReading
<1>3. cur' = NoEvent /\ at' = "batch" /\ out' = out
  BY Zenon, <1>1 DEF HandleWrite
<1>4. \A g \in Connected : g # f => ~Flushing(g) /\ (ReadPending(g) => ReadPending(g)')
                                    /\ (WritePending(g) => WritePending(g)')
  BY Zenon, <1>1, <1>2, OtherEvents DEF Connected
<1>5. at' \notin {"flush", "arm", "wait"}
  BY <1>3
<1>6. /\ Tables' /\ Registered' /\ armed' \subseteq Fds
      /\ ready' \subseteq Fds \union {Listener, Eventfd}
      /\ \A g \in Connected' : Served(g)'
  BY Zenon, <1>1, <1>4, <1>5, CloseServes
<1>7. TypeLoop'
  BY ZenonT(60), <1>1, <1>2, <1>3, <1>6 DEF TypeLoop
<1>8. Handling'
  BY <1>3 DEF Handling, Reading, NoEvent
<1>9. Loop'
  BY <1>5, <1>6, <1>8 DEF Loop
<1> QED BY SMTT(60), <1>6, <1>7, <1>9 DEF TcpInv

(* A frame past the limit closes the connection.                           *)
LEMMA OversizedFrameKeeps ==
    ASSUME TcpInv, OversizedFrame
    PROVE  TcpInv'
<1> DEFINE f == cur.fd
<1>1. /\ TypeLoop /\ Handling /\ at = "frames" /\ Close(f) /\ HandleWrite(f, cur.flags, FALSE)
      /\ UNCHANGED <<backlog, nextId, efd, inbound, outbound, stop, batch>>
  BY Zenon DEF TcpInv, Loop, OversizedFrame, ringVars
<1>2. f \in Fds /\ \A g : ~Flushing(g)
  BY SMTT(60), <1>1 DEF Handling, Reading, Flushing
<1>3. cur' = NoEvent /\ at' = "batch" /\ out' = out
  BY <1>1 DEF HandleWrite
<1>4. \A g \in Connected : g # f => ~Flushing(g) /\ (ReadPending(g) => ReadPending(g)')
                                    /\ (WritePending(g) => WritePending(g)')
  BY Zenon, <1>1, <1>2 DEF ReadPending, WritePending
<1>5. at' \notin {"flush", "arm", "wait"}
  BY <1>3
<1>6. /\ Tables' /\ Registered' /\ armed' \subseteq Fds
      /\ ready' \subseteq Fds \union {Listener, Eventfd}
      /\ \A g \in Connected' : Served(g)'
  BY ZenonT(60), <1>1, <1>2, <1>4, <1>5, CloseServes
<1>7. NoEvent \in Currents
  BY DEF NoEvent, Currents
<1>8. TypeLoop'
  BY ZenonT(60), <1>1, <1>3, <1>6, <1>7 DEF TypeLoop
<1>9. Handling'
  BY <1>3 DEF Handling, Reading, NoEvent
<1>10. Loop'
  BY <1>5, <1>6, <1>9 DEF Loop
<1> QED BY SMTT(60), <1>6, <1>8, <1>10 DEF TcpInv

(* What a flush under way is of, and where it returns to.                  *)
LEMMA FlushUnderWay ==
    ASSUME TcpInv, at \in {"flush", "arm"}
    PROVE  /\ out \in Flushes /\ out.fd \in Connected /\ out.fd \in Fds
           /\ out.ret \in {"batch", "frames", "drain"} /\ NoFlush \in Flushes
           /\ \A g : Flushing(g) <=> g = out.fd
           /\ Reading <=> out.ret = "frames"
<1>1. out \in Flushes /\ out.fd \in Connected
  BY DEF TcpInv, TypeLoop, Registered
<1>2. out.fd \in Fds /\ out.ret \in {"batch", "frames", "drain"} /\ NoFlush \in Flushes
  BY <1>1 DEF Connected, Flushes, NoFlush
<1> QED BY <1>1, <1>2 DEF Flushing, Reading

(* Its end is where it was called from.                                    *)
LEMMA FlushEnds ==
    ASSUME TcpInv, at \in {"flush", "arm"}, at' = out.ret, UNCHANGED <<batch, cur>>
    PROVE  /\ at' \in {"batch", "frames", "drain"} /\ Handling'
           /\ \A g : ~Flushing(g)'
           /\ \A g : (ReadPending(g)' <=> ReadPending(g)) /\ (WritePending(g)' <=> WritePending(g))
<1>1. out.ret \in {"batch", "frames", "drain"} /\ (Reading <=> out.ret = "frames")
  BY FlushUnderWay
<1>2. Reading' <=> Reading
  BY <1>1 DEF Reading
<1>3. Handling
  BY DEF TcpInv, Loop
<1>4. Handling'
  BY Zenon, <1>2, <1>3 DEF Handling, NoEvent
<1>5. \A g : ~Flushing(g)'
  BY <1>1 DEF Flushing
<1>6. \A g : (ReadPending(g)' <=> ReadPending(g)) /\ (WritePending(g)' <=> WritePending(g))
  BY Zenon DEF ReadPending, WritePending
<1> QED BY <1>1, <1>4, <1>5, <1>6

(* A send that fails closes the connection.                                *)
LEMMA FlushErrorKeeps ==
    ASSUME TcpInv, FlushError
    PROVE  TcpInv'
<1> DEFINE f == out.fd
<1>1. /\ TypeLoop /\ at = "flush" /\ Close(f) /\ at' = out.ret /\ out' = NoFlush
      /\ UNCHANGED <<backlog, nextId, efd, inbound, outbound, stop, batch, cur>>
  BY DEF TcpInv, FlushError, ringVars
<1>2. f \in Fds /\ NoFlush \in Flushes /\ \A g : Flushing(g) <=> g = f
  BY <1>1, FlushUnderWay
<1>3. /\ at' \in {"batch", "frames", "drain"} /\ Handling'
      /\ \A g : (ReadPending(g)' <=> ReadPending(g)) /\ (WritePending(g)' <=> WritePending(g))
  BY <1>1, FlushEnds
<1>4. \A g \in Connected : g # f => ~Flushing(g) /\ (ReadPending(g) => ReadPending(g)')
                                    /\ (WritePending(g) => WritePending(g)')
  BY <1>2, <1>3
<1>5. at' \notin {"flush", "arm", "wait"}
  BY <1>3
<1>6. /\ Tables' /\ Registered' /\ armed' \subseteq Fds
      /\ ready' \subseteq Fds \union {Listener, Eventfd}
      /\ \A g \in Connected' : Served(g)'
  BY Zenon, <1>1, <1>2, <1>4, <1>5, CloseServes
<1>7. TypeLoop'
  BY Zenon, <1>1, <1>2, <1>3, <1>6 DEF TypeLoop
<1>8. Loop'
  BY <1>3, <1>5, <1>6 DEF Loop
<1> QED BY SMTT(60), <1>6, <1>7, <1>8 DEF TcpInv

(* arm_epollout and disarm_epollout register the descriptor anew.          *)
LEMMA RegisterKeeps ==
    ASSUME TcpInv, ArmEpollout \/ FlushDone
    PROVE  TcpInv'
<1> DEFINE f == out.fd
<1>1. /\ Tables /\ TypeLoop /\ Registered /\ Loop /\ at \in {"flush", "arm"}
      /\ at' = out.ret /\ out' = NoFlush
      /\ UNCHANGED <<peer, backlog, sock, conns, clientToFd, nextId, efd, inbound, outbound, stop, batch,
                     cur>>
  BY DEF TcpInv, ArmEpollout, FlushDone, tableVars, ringVars
<1>2. f \in Connected /\ f \in Fds /\ NoFlush \in Flushes /\ \A g : Flushing(g) <=> g = f
  BY <1>1, FlushUnderWay
<1>3. /\ at' \in {"batch", "frames", "drain"} /\ Handling'
      /\ \A g : ~Flushing(g)'
      /\ \A g : (ReadPending(g)' <=> ReadPending(g)) /\ (WritePending(g)' <=> WritePending(g))
  BY <1>1, FlushEnds
<1>4. Tables' /\ Connected' = Connected
  BY SMTT(60), <1>1, TablesIdle
<1>5. PICK A \in {armed \union {f}, armed \ {f}} :
        /\ Register(f, A) /\ (A = armed \union {f} \/ conns[f].wbuf = <<>>)
  BY ZenonT(60) DEF ArmEpollout, FlushDone
<1>6. /\ armed' = A /\ \A g : g # f => (g \in armed' <=> g \in armed)
      /\ ready' \in {ready, ready \union {f}} /\ (Flags(f, A) # {} => f \in ready')
  BY SMTT(60), <1>5 DEF Register
<1>7. armed' \subseteq Fds /\ ready' \subseteq Fds \union {Listener, Eventfd}
  BY <1>1, <1>2, <1>5, <1>6 DEF TypeLoop
<1>8. TypeLoop'
  BY Zenon, <1>1, <1>2, <1>3, <1>7 DEF TypeLoop
<1>9. Registered'
  <2>1. armed \subseteq Connected /\ ready \intersect Fds \subseteq Connected
    BY SMTT(60), <1>1 DEF Registered
  <2>2. armed' \subseteq Connected /\ ready' \intersect Fds \subseteq Connected
    BY <1>2, <1>5, <1>6, <2>1
  <2>3. at' \notin {"flush", "arm"}
    BY <1>3
  <2> QED BY <1>4, <2>2, <2>3 DEF Registered
<1>10. ASSUME NEW g \in Connected PROVE Served(g)'
  <2>1. Served(g)
    BY <1>1 DEF Loop
  <2>2. g \in ready => g \in ready'
    BY <1>6
  <2>3. CASE g # f
    <3>1. ~Flushing(g) /\ (g \in armed => g \in armed')
      BY <1>2, <1>6, <2>3
    <3> QED BY ZenonT(60), <1>1, <1>3, <2>1, <2>2, <3>1, ServedKept
  <2>4. CASE g = f
    <3>1. FrameLength(conns[g].rbuf) = 0 /\ (Readable(peer[sock[g]]) => g \in ready \/ ReadPending(g))
      BY SMTT(60), <2>1 DEF Served
    <3>2. conns[g].wbuf # <<>> => g \in armed' /\ (peer[sock[g]].room > 0 => g \in ready')
      <4> SUFFICES ASSUME conns[g].wbuf # <<>>
                   PROVE  g \in armed' /\ (peer[sock[g]].room > 0 => g \in ready')
        OBVIOUS
      <4>1. A = armed \union {f} /\ f \in A
        BY <1>5, <2>4
      <4>2. peer[sock[f]].room > 0 => Flags(f, A) # {}
        BY SMTT(60), <4>1 DEF Flags
      <4> QED BY Zenon, <1>6, <2>4, <4>1, <4>2
    <3> QED BY Zenon, <1>1, <1>3, <2>2, <3>1, <3>2 DEF Served
  <2> QED BY <2>3, <2>4
<1>11. Loop'
  BY Zenon, <1>3, <1>4, <1>10 DEF Loop
<1> QED BY SMTT(60), <1>4, <1>8, <1>9, <1>11 DEF TcpInv

(* send takes as much of the write buffer as there is room for.            *)
LEMMA FlushSendKeeps ==
    ASSUME TcpInv, FlushSend
    PROVE  TcpInv'
<1> DEFINE f == out.fd
           p == sock[f]
           w == conns[f].wbuf
           n == IF Len(w) < peer[p].room THEN Len(w) ELSE peer[p].room
           y == [peer[p] EXCEPT !.got = @ \o SubSeq(w, 1, n), !.room = @ - n]
           c == [conns[f] EXCEPT !.wbuf = SubSeq(w, n + 1, Len(w))]
<1>1. /\ Tables /\ TypeLoop /\ Registered /\ Loop /\ TypeTables /\ Linked /\ Kernel /\ at = "flush"
      /\ UNCHANGED <<backlog, sock, clientToFd, nextId, armed, ready, efd, inbound, outbound, stop,
                     batch, at, cur, out>>
  BY Zenon DEF TcpInv, Tables, FlushSend, ringVars, loopVars
<1>2. f \in Connected /\ \A g : Flushing(g) <=> g = f
  BY SMTT(60), <1>1, FlushUnderWay
<1>3. /\ f \in Fds /\ p \in Peers /\ w \in Seq(Ids) /\ peer[p] \in PeerStates
      /\ peer[p].room \in 0..SendRoom /\ peer \in [Peers -> PeerStates] /\ conns[f] \in Connections
      /\ conns \in [Fds -> Connections \union {NoConnection}]
  BY <1>1, <1>2, ConnectionIs, PeerIs DEF TypeTables
<1>4. n \in Nat /\ n <= Len(w) /\ n <= peer[p].room
  <2> DEFINE l == Len(w)
             r == peer[p].room
  <2>1. l \in Nat /\ r \in Nat /\ n = IF l < r THEN l ELSE r
    BY <1>3, RoomAssumption
  <2> HIDE DEF l, r, n
  <2>2. n \in Nat /\ n <= l /\ n <= r
    BY ONLY SMTT(60), <2>1
  <2> QED BY SMTT(60), <2>2 DEF l, r
<1>5. /\ peer' = [peer EXCEPT ![p].got = @ \o SubSeq(w, 1, n), ![p].room = @ - n]
      /\ conns' = [conns EXCEPT ![f].wbuf = SubSeq(w, n + 1, Len(w))]
  BY ZenonT(60) DEF FlushSend
<1> HIDE DEF n
<1>6. peer' = [peer EXCEPT ![p] = y] /\ conns' = [conns EXCEPT ![f] = c]
  BY Zenon, <1>3, <1>5 DEF PeerStates
<1>7. /\ Tables' /\ Connected' = Connected
      /\ \A q \in Peers : /\ peer'[q].unread = peer[q].unread /\ peer'[q].fin = peer[q].fin
                          /\ q # p => peer'[q] = peer[q]
      /\ \A g \in Connected : /\ conns'[g].rbuf = conns[g].rbuf
                              /\ g # f => conns'[g].wbuf = conns[g].wbuf
  <2>1. /\ y = [peer[sock[f]] EXCEPT !.got = @ \o SubSeq(conns[f].wbuf, 1, n), !.room = @ - n]
        /\ c = [conns[f] EXCEPT !.wbuf = SubSeq(conns[f].wbuf, n + 1, Len(conns[f].wbuf))]
        /\ n <= Len(conns[f].wbuf) /\ n <= peer[sock[f]].room
        /\ peer' = [peer EXCEPT ![sock[f]] = y]
    BY <1>4, <1>6
  <2> HIDE DEF y, c, f
  <2> QED BY ZenonT(60), <1>1, <1>2, <1>4, <1>6, <2>1, UnitsSent
<1> HIDE DEF y, c
<1>8. TypeLoop'
  BY SMTT(60), <1>1 DEF TypeLoop
<1>9. Registered'
  BY <1>1, <1>7 DEF Registered
<1>10. /\ Handling' /\ \A g : /\ ReadPending(g)' <=> ReadPending(g)
                              /\ WritePending(g)' <=> WritePending(g)
                              /\ Flushing(g)' <=> Flushing(g)
  <2>1. Handling
    BY <1>1 DEF Loop
  <2> QED BY Zenon, <1>1, <2>1 DEF Handling, Reading, NoEvent, ReadPending, WritePending, Flushing
<1>11. ASSUME NEW g \in Connected PROVE Served(g)'
  <2>1. Served(g)
    BY SMTT(60), <1>1 DEF Loop
  <2>2. sock[g] \in Peers /\ sock[g] # NoPeer /\ g \in Fds
    BY <1>1, ConnectionIs, NothingAssumption
  <2>3. Readable(peer'[sock[g]]) <=> Readable(peer[sock[g]])
    BY Zenon, <1>7, <2>2 DEF Readable
  <2>4. CASE g = f
    BY Zenon, <1>1, <1>2, <1>7, <1>10, <2>1, <2>3, <2>4 DEF Served
  <2>5. CASE g # f
    <3>1. sock[g] # p
      BY Zenon, <1>1, <1>3, <2>2, <2>5 DEF Kernel
    <3>2. peer'[sock[g]] = peer[sock[g]]
      BY Zenon, <1>7, <2>2, <3>1
    <3> QED BY Zenon, <1>1, <1>7, <1>10, <2>1, <2>5, <3>2 DEF Served
  <2> QED BY <2>4, <2>5
<1>12. Loop'
  BY ZenonT(60), <1>1, <1>7, <1>10, <1>11 DEF Loop
<1> QED BY SMTT(60), <1>7, <1>8, <1>9, <1>12 DEF TcpInv

(* accept_all registers one more connection.                               *)
LEMMA AcceptOneKeeps ==
    ASSUME Counting, Ordering, TcpInv, AcceptOne
    PROVE  TcpInv'
<1> DEFINE f == Lowest(FreeFds)
           p == Head(backlog)
<1>1. /\ Tables /\ TypeLoop /\ Registered /\ Loop /\ at = "accept" /\ backlog # <<>> /\ FreeFds # {}
      /\ UNCHANGED <<armed, efd, inbound, outbound, stop, batch, at, cur, out>>
  BY DEF TcpInv, AcceptOne, ringVars, loopVars
<1>2. /\ sock' = [sock EXCEPT ![f] = p]
      /\ peer' = [peer EXCEPT ![p].state = "open"]
      /\ conns' = [conns EXCEPT ![f] = [id |-> nextId, rbuf |-> <<>>, wbuf |-> <<>>]]
      /\ clientToFd' = [clientToFd EXCEPT ![nextId] = f]
      /\ ready' = IF Readable(peer[p]) THEN ready \union {f} ELSE ready
      /\ backlog' = Tail(backlog) /\ nextId' = nextId + 1
  BY DEF AcceptOne, FollowingId
<1>3. f \in Fds /\ sock[f] = NoPeer
  BY <1>1, LowestFree
<1> HIDE DEF f
<1>4. /\ Tables' /\ Connected' = Connected \union {f} /\ f \notin Connected
      /\ conns'[f].rbuf = <<>> /\ conns'[f].wbuf = <<>>
      /\ sock'[f] = p
      /\ Readable(peer'[p]) <=> Readable(peer[p])
      /\ \A g \in Connected : /\ conns'[g] = conns[g] /\ sock'[g] = sock[g]
                              /\ peer'[sock[g]] = peer[sock[g]]
  BY Zenon, <1>1, <1>2, <1>3, ConnectionAccepted
<1>5. /\ ready' \in {ready, ready \union {f}} /\ (Readable(peer[p]) => f \in ready')
  BY <1>2
<1>6. TypeLoop'
  <2>1. ready' \subseteq Fds \union {Listener, Eventfd}
    BY SMTT(60), <1>1, <1>3, <1>5 DEF TypeLoop
  <2> QED BY Zenon, <1>1, <2>1 DEF TypeLoop
<1>7. Registered'
  BY <1>1, <1>4, <1>5 DEF Registered
<1>8. cur = NoEvent /\ \A g : ~Flushing(g)
  BY <1>1, NotReading
<1>9. Handling' /\ \A g : /\ ReadPending(g)' <=> ReadPending(g)
                          /\ WritePending(g)' <=> WritePending(g)
  BY Zenon, <1>1, <1>8 DEF Handling, Reading, NoEvent, ReadPending, WritePending, Loop
<1>10. ASSUME NEW g \in Connected' PROVE Served(g)'
  <2>1. CASE g = f
    <3>1. FrameLength(<<>>) = 0
      BY DEF FrameLength
    <3> QED BY Zenon, <1>4, <1>5, <2>1, <3>1 DEF Served
  <2>2. CASE g \in Connected
    <3>1. Served(g)
      BY SMTT(60), <1>1, <2>2 DEF Loop
    <3>2. /\ conns'[g] = conns[g] /\ sock'[g] = sock[g] /\ peer'[sock[g]] = peer[sock[g]]
          /\ g \in ready => g \in ready'
      BY <1>4, <1>5, <2>2
    <3> QED BY ZenonT(60), <1>1, <1>8, <1>9, <3>1, <3>2, ServedKept
  <2> QED BY <1>4, <2>1, <2>2
<1>11. Loop'
  BY ZenonT(60), <1>1, <1>9, <1>10 DEF Loop
<1> QED BY Zenon, <1>4, <1>6, <1>7, <1>11 DEF TcpInv

(* A connection that cannot be set up is closed again.                     *)
LEMMA AcceptFailsKeeps ==
    ASSUME Counting, TcpInv, AcceptFails
    PROVE  TcpInv'
<1>1. /\ Tables /\ TypeLoop /\ Registered /\ Loop /\ at = "accept" /\ backlog # <<>>
      /\ UNCHANGED <<sock, conns, clientToFd, armed, ready, efd, inbound, outbound, stop, batch, at,
                     cur, out>>
  BY DEF TcpInv, AcceptFails, ringVars, loopVars
<1>2. /\ Tables' /\ Connected' = Connected
      /\ \A g \in Connected : peer'[sock[g]] = peer[sock[g]]
  <2>1. /\ peer' = [peer EXCEPT ![Head(backlog)] = Peer("closed", <<>>)]
        /\ backlog' = Tail(backlog) /\ nextId' \in {nextId, nextId + 1}
    BY DEF AcceptFails, FollowingId
  <2> QED BY Zenon, <1>1, <2>1, ConnectionRefused
<1>3. TypeLoop'
  BY <1>1 DEF TypeLoop
<1>4. Registered'
  BY <1>1, <1>2 DEF Registered
<1>5. Handling' /\ \A g : /\ ReadPending(g)' <=> ReadPending(g)
                          /\ WritePending(g)' <=> WritePending(g)
                          /\ Flushing(g)' <=> Flushing(g)
  BY Zenon, <1>1 DEF Handling, Reading, NoEvent, ReadPending, WritePending, Flushing, Loop
<1>6. ASSUME NEW g \in Connected PROVE Served(g)'
  <2>1. Served(g) /\ peer'[sock[g]] = peer[sock[g]]
    BY <1>1, <1>2 DEF Loop
  <2> QED BY Zenon, <1>1, <1>5, <2>1, ServedKept
<1>7. Loop'
  BY Zenon, <1>1, <1>2, <1>5, <1>6 DEF Loop
<1> QED BY SMTT(60), <1>2, <1>3, <1>4, <1>7 DEF TcpInv

(* handle_read takes all there is to read.                                 *)
LEMMA HandleReadKeeps ==
    ASSUME TcpInv, NEW e \in batch, HandleRead(e)
    PROVE  TcpInv'
<1> DEFINE f == e.fd
           p == sock[f]
           x == peer[p]
           y == [x EXCEPT !.unread = <<>>]
           b == conns[f].rbuf \o x.unread
<1>1. /\ Tables /\ TypeLoop /\ Registered /\ Loop /\ TypeTables /\ Linked /\ Kernel
      /\ at = "batch" /\ at' = "frames" /\ f \in Fds /\ batch' = batch \ {e}
      /\ conns[f] # NoConnection /\ x.fin = "no"
      /\ UNCHANGED <<backlog, sock, conns, clientToFd, nextId, armed, ready, efd, inbound, outbound,
                     stop, out>>
  BY ZenonT(60) DEF TcpInv, Tables, HandleRead, Event, tableVars, ringVars
<1>2. /\ peer' = [peer EXCEPT ![p].unread = <<>>]
      /\ cur' = [fd |-> f, flags |-> e.flags, id |-> conns[f].id, buf |-> b]
  BY SMTT(60) DEF HandleRead, ReadAll
<1>3. f \in Connected
  BY SMTT(60), <1>1 DEF Connected
<1>4. /\ p \in Peers /\ x \in PeerStates /\ peer \in [Peers -> PeerStates] /\ conns[f].id \in Ids
      /\ conns[f].rbuf \in Seq(Units) /\ x.unread \in Seq(Units) /\ p # NoPeer
  BY ZenonT(60), <1>1, <1>3, ConnectionIs, PeerIs, NothingAssumption DEF TypeTables
<1>5. peer' = [peer EXCEPT ![p] = y]
  BY <1>2, <1>4
<1>6. /\ y \in PeerStates /\ y.state = x.state /\ y.got = x.got /\ y.room = x.room
      /\ y.fin = x.fin /\ y.unread = <<>>
  <2> DEFINE u == <<>>
  <2>1. x \in PeerStates /\ u \in Seq(Units) /\ y = [x EXCEPT !.unread = u]
    BY <1>4
  <2>2. u = <<>>
    OBVIOUS
  <2> HIDE DEF x, y, u
  <2>3. /\ y \in PeerStates /\ y.state = x.state /\ y.got = x.got /\ y.room = x.room
        /\ y.fin = x.fin /\ y.unread = u
    BY ONLY Zenon, <2>1 DEF PeerStates
  <2> QED BY <2>2, <2>3
<1> HIDE DEF y
<1>7. /\ peer' \in [Peers -> PeerStates] /\ peer'[p] = y
      /\ \A q \in Peers : q # p => peer'[q] = peer[q]
  <2>1. p \in Peers /\ y \in PeerStates /\ peer \in [Peers -> PeerStates]
    BY Zenon, <1>4, <1>6
  <2> HIDE DEF p
  <2> QED BY ONLY <1>5, <2>1
<1>8. \A q \in Peers : peer'[q].state = peer[q].state /\ peer'[q].got = peer[q].got
  BY Zenon, <1>6, <1>7
<1>9. Tables' /\ Connected' = Connected
  BY ZenonT(60), <1>1, <1>7, <1>8, PeersAct
<1>10. cur = NoEvent /\ \A g : ~Flushing(g)
  BY <1>1, NotReading
<1>11. /\ cur' \in Currents /\ cur'.fd = f /\ cur'.flags = e.flags /\ cur'.id = conns[f].id
  <2>1. b \in Seq(Units)
    BY SMTT(60), <1>4
  <2>2. e.flags \in SUBSET {"in", "out", "hup"}
    BY <1>1 DEF TypeLoop, Events
  <2> HIDE DEF b, f
  <2> QED BY SMTT(60), <1>1, <1>2, <1>4, <2>1, <2>2 DEF Currents
<1>12. TypeLoop'
  BY ZenonT(60), <1>1, <1>11 DEF TypeLoop
<1>13. Registered'
  BY SMTT(60), <1>1, <1>9 DEF Registered
<1>14. Handling'
  BY <1>1, <1>4, <1>11 DEF Handling, Reading
<1>15. ASSUME NEW g \in Connected PROVE Served(g)'
  <2>1. Served(g)
    BY SMTT(60), <1>1 DEF Loop
  <2>2. g \in Fds /\ sock[g] \in Peers
    BY <1>1, ConnectionIs
  <2>3. CASE g # f
    <3>1. sock[g] # p
      BY Zenon, <1>1, <1>4, <2>2, <2>3 DEF Kernel
    <3>2. peer'[sock[g]] = peer[sock[g]]
      BY Zenon, <1>7, <2>2, <3>1
    <3>3. /\ ReadPending(g) => ReadPending(g)'
          /\ WritePending(g) => WritePending(g)'
      BY Zenon, <1>1, <1>10, <2>2, <2>3, OtherEvents
    <3> QED BY Zenon, <1>1, <1>10, <2>1, <3>2, <3>3, ServedKept
  <2>4. CASE g = f
    <3>1. ~Readable(peer'[sock[g]]) /\ peer'[sock[g]].room = peer[sock[g]].room
      BY ZenonT(60), <1>1, <1>6, <1>7, <2>4 DEF Readable
    <3>2. cur.fd # g /\ "hup" \notin e.flags
      BY ZenonT(60), <1>10, <2>2, SpecialFds DEF NoEvent, HandleRead, Event
    <3>3. WritePending(g) => WritePending(g)'
      <4>1. CASE "out" \in e.flags
        BY ZenonT(60), <1>11, <2>4, <4>1 DEF WritePending
      <4>2. CASE "out" \notin e.flags
        BY Zenon, <1>1, <3>2, <4>2 DEF WritePending
      <4> QED BY <4>1, <4>2
    <3> QED BY ZenonT(60), <1>1, <1>10, <2>1, <3>1, <3>3 DEF Served
  <2> QED BY SMTT(60), <2>3, <2>4
<1>16. Loop'
  BY ZenonT(60), <1>1, <1>9, <1>14, <1>15 DEF Loop
<1> QED BY SMTT(60), <1>9, <1>12, <1>13, <1>16 DEF TcpInv

(* handle_read puts back what is not a whole frame.                        *)
LEMMA FramesDoneKeeps ==
    ASSUME TcpInv, FramesDone
    PROVE  TcpInv'
<1> DEFINE b == cur.buf
<1>0. at = "frames" /\ TypeLoop /\ Handling
  BY DEF TcpInv, Loop, FramesDone
<1>10. cur.fd \in Fds
  BY <1>0 DEF Handling, Reading
<1>11. PICK f \in Fds, flags \in SUBSET {"in", "out", "hup"} : f = cur.fd /\ flags = cur.flags
  BY <1>0, <1>10 DEF TypeLoop, Currents
<1> DEFINE live == conns[f] # NoConnection
<1>1. /\ Tables /\ TypeLoop /\ Registered /\ Loop /\ at = "frames" /\ FrameLength(b) = 0
      /\ conns' = [conns EXCEPT ![f] = IF @ = NoConnection THEN @ ELSE [@ EXCEPT !.rbuf = b]]
      /\ HandleWrite(f, flags, live)
      /\ UNCHANGED <<peer, backlog, sock, clientToFd, nextId, armed, ready, efd, inbound, outbound, stop,
                     batch>>
  BY <1>11 DEF TcpInv, FramesDone, kernelVars, ringVars
<1>2. b \in Seq(Units) /\ out \in Flushes /\ \A g : ~Flushing(g)
  BY <1>1 DEF TypeLoop, Currents, Flushing
<1>3. live \in BOOLEAN /\ (f \in Connected <=> live)
  BY DEF Connected
<1> HIDE DEF live
<1>4. /\ cur' = NoEvent /\ cur' \in Currents /\ out' \in Flushes
      /\ at' \in {"flush", "batch"} /\ Handling'
      /\ at' = "flush" => live /\ out'.fd = f
      /\ "out" \in flags /\ live => Flushing(f)'
  BY Zenon, <1>1, <1>2, <1>3, WriteFollows
<1>5. /\ Tables' /\ Connected' = Connected
      /\ \A g \in Connected : /\ conns'[g].wbuf = conns[g].wbuf
                              /\ conns'[g].rbuf = IF g = f THEN b ELSE conns[g].rbuf
  <2> HIDE DEF b
  <2> QED BY Zenon, <1>1, <1>2, ReadBufferKept
<1>6. TypeLoop'
  <2>1. at' \in {"wait", "batch", "accept", "drain", "frames", "flush", "arm", "stopped"}
    BY <1>4
  <2> QED BY Zenon, <1>1, <1>4, <2>1 DEF TypeLoop
<1>7. Registered'
  <2>1. at' \in {"flush", "arm"} => out'.fd \in Connected
    BY <1>3, <1>4
  <2> QED BY ZenonT(60), <1>1, <1>5, <2>1 DEF Registered
<1>8. ASSUME NEW g \in Connected PROVE Served(g)'
  <2>1. Served(g)
    BY <1>1 DEF Loop
  <2>2. FrameLength(conns'[g].rbuf) = 0
    BY <1>1, <1>5, <2>1 DEF Served
  <2>3. ReadPending(g) => ReadPending(g)'
    BY Zenon, <1>1 DEF ReadPending
  <2>4. WritePending(g) => WritePending(g)' \/ Flushing(g)'
    <3>1. CASE g = f /\ "out" \in flags
      BY Zenon, <1>3, <1>4, <3>1
    <3>2. CASE ~(g = f /\ "out" \in flags)
      BY Zenon, <1>1, <1>11, <3>2 DEF WritePending
    <3> QED BY <3>1, <3>2
  <2>5. Readable(peer'[sock'[g]]) => g \in ready' \/ ReadPending(g)'
    BY Zenon, <1>1, <2>1, <2>3 DEF Served
  <2>6. conns'[g].wbuf # <<>> /\ ~Flushing(g)' =>
          /\ g \in armed'
          /\ peer'[sock'[g]].room > 0 => g \in ready' \/ WritePending(g)'
    BY Zenon, <1>1, <1>2, <1>5, <2>1, <2>4 DEF Served
  <2> QED BY Zenon, <2>2, <2>5, <2>6 DEF Served
<1>9. Loop'
  <2>1. at' # "wait"
    BY <1>4
  <2> QED BY Zenon, <1>4, <1>5, <1>8, <2>1 DEF Loop
<1> QED BY <1>5, <1>6, <1>7, <1>9 DEF TcpInv

(* send_to_client: nowhere to send to, too much buffered, or a flush.      *)
LEMMA ResponseSent ==
    ASSUME TcpInv, at \notin {"flush", "arm"}, NEW i \in Ids, NEW ret \in {"frames", "drain"},
           SendToClient(i, ret), UNCHANGED <<backlog, nextId, batch>>,
           cur'.fd = cur.fd, cur'.flags = cur.flags
    PROVE  /\ Tables' /\ Registered' /\ armed' \subseteq Fds
           /\ ready' \subseteq Fds \union {Listener, Eventfd}
           /\ \A g \in Connected' : Served(g)'
           /\ out' \in Flushes /\ (at' = ret \/ (at' = "flush" /\ out'.ret = ret))
<1> DEFINE f == clientToFd[i]
<1>1. Tables /\ TypeLoop /\ Registered /\ Loop /\ TypeTables
  BY DEF TcpInv, Tables
<1>2. out \in Flushes /\ armed \subseteq Fds /\ ready \subseteq Fds \union {Listener, Eventfd}
      /\ \A g : ~Flushing(g)
  BY <1>1 DEF TypeLoop, Flushing
<1>3. \A g : /\ ReadPending(g)' <=> ReadPending(g)
             /\ WritePending(g)' <=> WritePending(g)
  BY Zenon DEF ReadPending, WritePending
<1>4. f # NoFd => f \in Fds
  BY <1>1 DEF TypeTables
<1>5. CASE f = NoFd
  <2>1. at' = ret /\ UNCHANGED <<peer, sock, armed, ready, conns, clientToFd, out>>
    BY SMTT(60), <1>5 DEF SendToClient
  <2>2. Tables' /\ Connected' = Connected
    BY <1>1, <2>1, TablesIdle
  <2>3. at' \notin {"flush", "arm"}
    BY <2>1
  <2>4. Registered'
    BY Zenon, <1>1, <2>1, <2>2, <2>3 DEF Registered
  <2>5. \A g \in Connected : Served(g)'
    BY ZenonT(60), <1>1, <1>2, <1>3, <2>1, ServedKept DEF Loop
  <2> QED BY Zenon, <1>2, <2>1, <2>2, <2>4, <2>5
<1>6. CASE f # NoFd /\ Close(f) /\ at' = ret /\ out' = out
  <2>1. at' \notin {"flush", "arm"}
    BY SMTT(60), <1>6
  <2>2. \A g \in Connected : g # f => ~Flushing(g) /\ (ReadPending(g) => ReadPending(g)')
                                      /\ (WritePending(g) => WritePending(g)')
    BY <1>2, <1>3
  <2> HIDE DEF f
  <2>3. /\ Tables' /\ Registered' /\ armed' \subseteq Fds
        /\ ready' \subseteq Fds \union {Listener, Eventfd}
        /\ \A g \in Connected' : Served(g)'
    BY Zenon, <1>4, <1>6, <2>1, <2>2, CloseServes
  <2> QED BY <1>2, <1>6, <2>3
<1>7. CASE /\ f # NoFd /\ ~OverCap(Len(conns[f].wbuf \o <<i, i>>))
           /\ conns' = [conns EXCEPT ![f].wbuf = conns[f].wbuf \o <<i, i>>]
           /\ at' = "flush" /\ out' = [fd |-> f, ret |-> ret]
           /\ UNCHANGED <<peer, sock, armed, ready, clientToFd>>
  <2>1. /\ Tables' /\ Connected' = Connected /\ f \in Connected
        /\ \A g \in Connected : /\ conns'[g].rbuf = conns[g].rbuf
                                /\ g # f => conns'[g].wbuf = conns[g].wbuf
    BY Zenon, <1>1, <1>7, ResponseBuffered
  <2>2. out' \in Flushes /\ out'.fd = f /\ out'.ret = ret
    <3> HIDE DEF f
    <3> QED BY <1>4, <1>7 DEF Flushes
  <2>3. Registered'
    BY Zenon, <1>1, <1>7, <2>1, <2>2 DEF Registered
  <2>4. ASSUME NEW g \in Connected PROVE Served(g)'
    <3>1. Served(g)
      BY <1>1 DEF Loop
    <3>2. CASE g # f
      <4>1. conns'[g].rbuf = conns[g].rbuf /\ conns'[g].wbuf = conns[g].wbuf
        BY <2>1, <3>2
      <4> QED BY ZenonT(60), <1>2, <1>3, <1>7, <3>1, <4>1, ServedKept
    <3>3. CASE g = f
      <4>1. Flushing(g)' /\ conns'[g].rbuf = conns[g].rbuf
        BY <1>7, <2>1, <2>2, <3>3 DEF Flushing
      <4> QED BY Zenon, <1>3, <1>7, <3>1, <4>1 DEF Served
    <3> QED BY <3>2, <3>3
  <2> QED BY Zenon, <1>2, <1>7, <2>1, <2>2, <2>3, <2>4
<1> QED BY <1>5, <1>6, <1>7 DEF SendToClient

(* drain_outbound buffers a response for its client, if any.               *)
LEMMA DrainOneKeeps ==
    ASSUME TcpInv, DrainOne
    PROVE  TcpInv'
<1> DEFINE i == Head(outbound)
<1>1. /\ TypeLoop /\ at = "drain" /\ outbound # <<>> /\ outbound' = Tail(outbound)
      /\ SendToClient(i, "drain")
      /\ UNCHANGED <<backlog, efd, nextId, inbound, stop, batch, cur>>
  BY DEF TcpInv, DrainOne
<1>2. i \in Ids /\ outbound' \in Seq(Ids)
  BY <1>1 DEF TypeLoop
<1>3. cur = NoEvent
  BY <1>1, NotReading
<1> HIDE DEF i
<1>4. /\ Tables' /\ Registered' /\ armed' \subseteq Fds
      /\ ready' \subseteq Fds \union {Listener, Eventfd}
      /\ \A g \in Connected' : Served(g)'
      /\ out' \in Flushes /\ (at' = "drain" \/ (at' = "flush" /\ out'.ret = "drain"))
  <2>1. at \notin {"flush", "arm"} /\ "drain" \in {"frames", "drain"}
    BY <1>1
  <2> QED BY Zenon, <1>1, <1>2, <2>1, ResponseSent
<1>5. at' \in {"drain", "flush"} /\ ~Reading'
  BY <1>4 DEF Reading
<1>6. TypeLoop'
  <2>1. at' \in {"wait", "batch", "accept", "drain", "frames", "flush", "arm", "stopped"}
    BY SMTT(60), <1>5
  <2> QED BY Zenon, <1>1, <1>2, <1>4, <2>1 DEF TypeLoop
<1>7. Handling'
  BY <1>1, <1>3, <1>5 DEF Handling, NoEvent
<1>8. Loop'
  BY <1>4, <1>5, <1>7 DEF Loop
<1> QED BY <1>4, <1>6, <1>8 DEF TcpInv

(* A frame the server answers itself is buffered and flushed.              *)
LEMMA RefusedFrameKeeps ==
    ASSUME TcpInv, RefusedFrame
    PROVE  TcpInv'
<1> DEFINE i == cur.id
<1>1. /\ at = "frames" /\ cur.fd \in Fds /\ i \in Ids
      /\ cur' \in Currents /\ cur'.fd = cur.fd /\ cur'.flags = cur.flags /\ cur'.id = i
  <2>1. PICK kinds : TakeFrame(kinds)
    BY DEF RefusedFrame
  <2> QED BY <2>1, FrameTaken
<1>2. /\ TypeLoop /\ SendToClient(i, "frames")
      /\ UNCHANGED <<backlog, efd, nextId, inbound, outbound, stop, batch>>
  BY DEF TcpInv, RefusedFrame, ringVars
<1> HIDE DEF i
<1>3. /\ Tables' /\ Registered' /\ armed' \subseteq Fds
      /\ ready' \subseteq Fds \union {Listener, Eventfd}
      /\ \A g \in Connected' : Served(g)'
      /\ out' \in Flushes /\ (at' = "frames" \/ (at' = "flush" /\ out'.ret = "frames"))
  <2>1. at \notin {"flush", "arm"} /\ "frames" \in {"frames", "drain"}
    BY <1>1
  <2> QED BY ZenonT(60), <1>1, <1>2, <2>1, ResponseSent
<1>4. at' \in {"frames", "flush"} /\ Reading'
  BY <1>3 DEF Reading
<1>5. TypeLoop'
  <2>1. at' \in {"wait", "batch", "accept", "drain", "frames", "flush", "arm", "stopped"}
    BY <1>4
  <2> QED BY Zenon, <1>1, <1>2, <1>3, <2>1 DEF TypeLoop
<1>6. Handling'
  BY <1>1, <1>4 DEF Handling
<1>7. Loop'
  BY <1>3, <1>4, <1>6 DEF Loop
<1> QED BY SMTT(60), <1>3, <1>5, <1>7 DEF TcpInv

-----------------------------------------------------------------------------
(* The theorems.                                                           *)

(* The invariant holds when run starts.                                    *)
LEMMA InitHolds ==
    ASSUME Counting, Init
    PROVE  TcpInv
<1>1. Connected = {}
  BY DEF Init, Connected
<1>2. Peer("new", <<>>) \in PeerStates /\ Peer("new", <<>>).state = "new" /\ Peer("new", <<>>).got = <<>>
  BY RoomAssumption DEF Peer, PeerStates
<1>3. /\ peer = [p \in Peers |-> Peer("new", <<>>)] /\ backlog = <<>> /\ sock = [f \in Fds |-> NoPeer]
      /\ conns = [f \in Fds |-> NoConnection] /\ clientToFd = [i \in Ids |-> NoFd] /\ nextId = 1
      /\ armed = {} /\ ready = {} /\ efd = FALSE /\ inbound = <<>> /\ outbound = <<>> /\ stop = FALSE
      /\ batch = {} /\ at = "batch" /\ cur = NoEvent /\ out = NoFlush
  BY DEF Init
<1>4. \A p \in Peers : peer[p].state = "new" /\ peer[p].got = <<>> /\ peer[p] \in PeerStates
  BY Zenon, <1>2, <1>3
<1>5. TypeTables
  <2>1. peer \in [Peers -> PeerStates]
    BY ONLY <1>2, <1>3
  <2>2. nextId \in 1..(Cardinality(Peers) + 1)
    BY <1>3, Counts
  <2>3. /\ sock \in [Fds -> Peers \union {NoPeer}] /\ backlog \in Seq(Peers)
        /\ conns \in [Fds -> Connections \union {NoConnection}]
        /\ clientToFd \in [Ids -> Fds \union {NoFd}]
    BY ONLY SMTT(60), <1>3
  <2> QED BY Zenon, <2>1, <2>2, <2>3 DEF TypeTables
<1>6. Kernel
  <2>1. Accepted = {}
    BY <1>4 DEF Accepted
  <2>2. nextId <= Cardinality(Accepted) + 1
    BY <1>3, <2>1 DEF Counting
  <2>3. DOMAIN backlog = {}
    BY <1>3
  <2>4. \A f \in Fds : sock[f] = NoPeer
    BY <1>3
  <2> QED BY <2>2, <2>3, <2>4 DEF Kernel
<1>7. Linked
  <2>1. \A f \in Fds : sock[f] = NoPeer
    BY <1>3
  <2>2. \A i \in Ids : clientToFd[i] = NoFd
    BY <1>3
  <2> QED BY <1>1, <2>1, <2>2, SpecialFds DEF Linked
<1>8. Bounded
  BY <1>1 DEF Bounded
<1>9. Delivery
  <2>1. 1..Len(<<>>) = {}
    OBVIOUS
  <2>2. \A p \in Peers : \A i : ~Has(p, i)
    BY Zenon, <1>4, <2>1 DEF Has
  <2>3. Addressed /\ Unheard
    BY Zenon, <1>1, <1>4 DEF Addressed, Unheard
  <2> QED BY Zenon, <1>1, <2>2, <2>3 DEF Delivery, Issued, Single, Owned
<1>10. TypeLoop
  <2>1. NoEvent \in Currents /\ NoFlush \in Flushes
    BY DEF NoEvent, NoFlush, Currents, Flushes
  <2>2. <<>> \in Seq(Ids)
    OBVIOUS
  <2>3. armed = {} /\ ready = {} /\ batch = {} /\ inbound = <<>> /\ outbound = <<>>
        /\ efd = FALSE /\ stop = FALSE /\ at = "batch" /\ cur = NoEvent /\ out = NoFlush
    BY Zenon, <1>3
  <2> QED BY ONLY Zenon, <2>1, <2>2, <2>3 DEF TypeLoop
<1>11. Registered
  BY <1>3 DEF Registered
<1>12. Loop
  BY <1>1, <1>3 DEF Loop, Handling, Reading
<1> QED BY SMTT(60), <1>5, <1>6, <1>7, <1>8, <1>9, <1>10, <1>11, <1>12 DEF TcpInv, Tables

(* Every step keeps it.                                                    *)
LEMMA StepKeeps ==
    ASSUME Counting, Ordering, TcpInv, [Next]_vars
    PROVE  TcpInv'
<1>1. CASE IoStep
  <2>1. CASE \E e \in batch : \/ HandleSpecial(e) \/ HandleHangup(e) \/ NothingToRead(e)
                              \/ HandleRead(e) \/ HandleEof(e)
    BY Zenon, <2>1, HandleSpecialKeeps, HandleHangupKeeps, NothingToReadKeeps, HandleReadKeeps,
       HandleEofKeeps
  <2>2. CASE EpollWait \/ LeaveLoop \/ BatchDone \/ AcceptOne \/ AcceptFails \/ AcceptDone
    BY Zenon, <2>2, EpollWaitKeeps, CloseAllKeeps, DoneKeeps, AcceptOneKeeps, AcceptFailsKeeps
  <2>3. CASE FlushSend \/ FlushBlocked \/ ArmEpollout \/ FlushError \/ FlushDone
    BY Zenon, <2>3, FlushSendKeeps, FlushBlockedKeeps, RegisterKeeps, FlushErrorKeeps
  <2>4. CASE DrainOne \/ DrainDone \/ DrainedAtShutdown
    BY Zenon, <2>4, DrainOneKeeps, DoneKeeps, CloseAllKeeps
  <2>5. CASE FramesDone \/ OversizedFrame \/ CommandFrame \/ RefusedFrame \/ DestroyedConnection
    BY Zenon, <2>5, FramesDoneKeeps, OversizedFrameKeeps, CommandFrameKeeps, RefusedFrameKeeps,
       DestroyedConnectionKeeps
  <2> QED BY Zenon, <1>1, <2>1, <2>2, <2>3, <2>4, <2>5 DEF IoStep
<1>2. CASE Environment
  BY Zenon, <1>2, ConnectKeeps, ConsumeKeeps, TransmitKeeps, FinishKeeps, OthersKeep DEF Environment
<1>3. CASE UNCHANGED vars
  <2>1. /\ UNCHANGED <<peer, backlog, sock, conns, clientToFd, nextId, armed, ready, efd, inbound,
                       outbound, stop, batch, at, cur, out>>
    BY <1>3 DEF vars, kernelVars, tableVars, ringVars, loopVars
  <2>2. TypeLoop /\ Loop /\ Registered
    BY DEF TcpInv
  <2>3. TypeLoop'
    BY Zenon, <2>1, <2>2 DEF TypeLoop
  <2>4. Handling' /\ (at' = "wait" => batch' = {})
    BY Zenon, <2>1, <2>2 DEF Loop, Handling, Reading, NoEvent
  <2>5. PendingKept
    BY Zenon, <2>1 DEF PendingKept, Flushing, ReadPending, WritePending
  <2>6. at' \in {"flush", "arm"} => out'.fd \in Connected
    BY Zenon, <2>1, <2>2 DEF Registered
  <2> QED BY ZenonT(60), <2>1, <2>3, <2>4, <2>5, <2>6, LoopMoves
<1> QED BY <1>1, <1>2, <1>3 DEF Next, Stopped

(* What a peer has received is for the connection it had.                  *)
LEMMA DeliveredToOwner == TcpInv => NoMisdelivery
<1> SUFFICES ASSUME TcpInv PROVE NoMisdelivery
  OBVIOUS
<1>1. TypeTables /\ Linked /\ Single /\ Owned
  BY DEF TcpInv, Tables, Delivery
<1>2. \A p \in Peers : \A i : i \in Received(p) => Has(p, i) /\ i \in Ids
  <2> SUFFICES ASSUME NEW p \in Peers, NEW i \in Received(p) PROVE Has(p, i) /\ i \in Ids
    OBVIOUS
  <2>1. PICK k \in 1..Len(peer[p].got) : i = peer[p].got[k]
    BY SMTT(60) DEF Received
  <2>2. peer[p].got \in Seq(Ids)
    BY SMTT(60), <1>1, PeerIs
  <2>3. peer[p].got[k] \in Ids
    BY <2>2
  <2> QED BY <2>1, <2>3 DEF Has
<1>3. \A p, q \in Peers : p # q => Received(p) \intersect Received(q) = {}
  BY SMTT(60), <1>1, <1>2 DEF Single
<1>4. ASSUME NEW f \in Connected PROVE Received(sock[f]) \subseteq {conns[f].id}
  <2>1. sock[f] \in Peers
    BY <1>1, ConnectionIs
  <2> QED BY SMTT(60), <1>1, <1>2, <2>1 DEF Owned
<1> QED BY <1>3, <1>4 DEF NoMisdelivery

(* At epoll_wait nothing is pending but what raises an event.              *)
LEMMA WaitOwesNothing == TcpInv => NothingStuck
<1> SUFFICES ASSUME TcpInv, at = "wait", NEW f \in Connected
             PROVE  /\ conns[f].wbuf # <<>> => /\ f \in armed
                                               /\ peer[sock[f]].room > 0 => f \in ready
                    /\ Readable(peer[sock[f]]) => f \in ready
                    /\ FrameLength(conns[f].rbuf) = 0
  BY DEF NothingStuck
<1>1. batch = {} /\ Served(f)
  BY DEF TcpInv, Loop
<1>2. cur = NoEvent /\ ~Flushing(f)
  BY NotReading
<1>3. ~ReadPending(f)
  BY SMTT(60), <1>1 DEF ReadPending
<1>4. ~WritePending(f)
  BY SMTT(60), <1>1, <1>2, SpecialFds DEF WritePending, NoEvent, Connected
<1> QED BY Zenon, <1>1, <1>2, <1>3, <1>4 DEF Served

-----------------------------------------------------------------------------
(* Counting and order, from the libraries.                                 *)
INSTANCE FiniteSetTheorems
INSTANCE WellFoundedInduction

(* The peers are finitely many: so is any set of them, and it grows by one *)
(* with each peer added.                                                   *)
LEMMA CountingHolds == Counting
<1>1. Cardinality({}) = 0
  BY FS_EmptySet
<1>2. ASSUME NEW S \in SUBSET Peers
      PROVE  IsFiniteSet(S) /\ Cardinality(S) \in Nat /\ Cardinality(S) <= Cardinality(Peers)
  BY SMTT(60), PeersAssumption, FS_CardinalityType, FS_Subset
<1>3. ASSUME NEW S \in SUBSET Peers, NEW p \in Peers \ S
      PROVE  Cardinality(S \union {p}) = Cardinality(S) + 1
  BY <1>2, FS_AddElement
<1> QED BY SMTT(60), <1>1, <1>2, <1>3 DEF Counting

(* Among some descriptors there is a lowest one.                           *)
LEMMA OrderingHolds == Ordering
<1> SUFFICES ASSUME NEW S \in SUBSET Fds, S # {}
             PROVE  \E x \in S : \A y \in S : x <= y
  BY DEF Ordering
<1> DEFINE R == OpToRel(<, Nat)
<1>1. S \subseteq Nat
  BY SpecialFds
<1>2. IsWellFoundedOn(R, Nat)
  BY ZenonT(60), NatLessThanWellFounded
<1>3. \A x, y \in Nat : y < x => <<y, x>> \in R
  BY DEF OpToRel
<1> HIDE DEF R
<1>4. PICK x \in S : \A y \in S : ~ (<<y, x>> \in R)
  BY ZenonT(60), <1>1, <1>2, WFMin
<1>5. \A y \in S : ~ (y < x)
  BY ZenonT(60), <1>1, <1>3, <1>4
<1> QED BY <1>1, <1>5

-----------------------------------------------------------------------------
(* The theorems.                                                           *)

(* The tables of the I/O thread, what it has delivered and what it still   *)
(* owes each connection satisfy the inductive invariant in every state.    *)
THEOREM TcpSafe == Spec => []TcpInv
<1>1. Init => TcpInv
  BY InitHolds, CountingHolds
<1>2. TcpInv /\ [Next]_vars => TcpInv'
  BY StepKeeps, CountingHolds, OrderingHolds
<1> QED BY <1>1, <1>2, PTL DEF Spec

(* Every variable keeps its type.                                          *)
THEOREM TcpTypeCorrect == Spec => []TypeOK
BY TcpSafe, TcpInvIs, PTL

(* connections_, client_to_fd_, the kernel's descriptors and epoll's       *)
(* registrations stay in step whichever of the five paths closes a         *)
(* connection, and no write buffer grows past its bound.                   *)
THEOREM TcpRouting == Spec => []RoutingConsistent
BY TcpSafe, TcpInvIs, PTL

(* A response reaches no peer but the one whose frame it answers, however  *)
(* often descriptors are given to new connections.                         *)
THEOREM TcpDeliversToOwner == Spec => []NoMisdelivery
BY TcpSafe, DeliveredToOwner, PTL

(* When the I/O thread goes to wait, the edge-triggered loop has left      *)
(* nothing behind that no event will come for.                             *)
THEOREM TcpNothingStuck == Spec => []NothingStuck
BY TcpSafe, WaitOwesNothing, PTL
=============================================================================
